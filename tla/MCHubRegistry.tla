---------------------------- MODULE MCHubRegistry ----------------------------
(* Model-checking instance of HubRegistry. *)
EXTENDS HubRegistry, TLC

Symmetry ==
    Permutations(NodeIds) \cup Permutations(MachineKeys) \cup Permutations(RouteKeys)
        \cup Permutations(Tokens) \cup Permutations(RequestIds) \cup Permutations(DeleteIds)
=============================================================================
