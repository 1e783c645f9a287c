---------------------------- MODULE MCOwnership ----------------------------
(* Two processes that compete for one deployment.                          *)
EXTENDS Ownership, TLC

Interchangeable == Permutations(Procs)
=============================================================================
