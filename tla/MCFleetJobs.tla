----------------------------- MODULE MCFleetJobs -----------------------------
(* Model-checking instance of FleetJobs. *)
EXTENDS FleetJobs
=============================================================================
