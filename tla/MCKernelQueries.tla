-------------------------- MODULE MCKernelQueries --------------------------
(* Instances of KernelQueries for TLC: one page, module P with a persistent *)
(* worker and module M without, and a few calls.                            *)
EXTENDS KernelQueries, TLC

\* The callers' nonces are interchangeable; sound for the safety runs only.
NonceSymmetry == Permutations(CallNonces)
=============================================================================
