--------------------------- MODULE MCNodeIdentity ---------------------------
(* Model-checking instance of NodeIdentity. *)
EXTENDS NodeIdentity, TLC

Symmetry == Permutations(MachineKeys) \cup Permutations(RouteKeys) \cup Permutations(Tokens)
=============================================================================
