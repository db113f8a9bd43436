------------------------- MODULE MCReverseChannels -------------------------
(* Model-checking instance of ReverseChannels. *)
EXTENDS ReverseChannels, TLC

Symmetry == Permutations(Flows)
=============================================================================
