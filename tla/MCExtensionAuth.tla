-------------------------- MODULE MCExtensionAuth --------------------------
(* Instances of ExtensionAuth for TLC: one page, since pages do not meet, and *)
(* one user and a seed that cannot be decoded, so that a login may be of      *)
(* either.                                                                 *)
EXTENDS ExtensionAuth, TLC
=============================================================================
