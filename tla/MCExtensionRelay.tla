-------------------------- MODULE MCExtensionRelay --------------------------
EXTENDS ExtensionRelay

CallSymmetry == Permutations(Calls)
=============================================================================
