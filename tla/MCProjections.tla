--------------------------- MODULE MCProjections ---------------------------
(* Instances of Projections.  Users and tokens are interchangeable.        *)
EXTENDS Projections, TLC

Symmetry == Permutations(Users) \cup Permutations(Tokens)
=============================================================================
