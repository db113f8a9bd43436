-------------------------- MODULE MCReverseControl --------------------------
(* Model-checking instance of ReverseControl. *)
EXTENDS ReverseControl, TLC

Symmetry == Permutations(Ids)
=============================================================================
