-------------------------- MODULE MCFleetSchedules --------------------------
(* Model-checking instance of FleetSchedules. *)
EXTENDS FleetSchedules
=============================================================================
