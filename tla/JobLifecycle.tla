---------------------------- MODULE JobLifecycle ----------------------------
(***************************************************************************)
(* What a fleet job promises to whoever submitted it                       *)
(* (src/registry/fleet-scheduler.mjs, docs/rfc/0014, "Status Lifecycle"):  *)
(* each target gets one outcome that never changes, the job ends when all  *)
(* targets have theirs, its status is the verdict on the outcomes, and the *)
(* end is reported once.  How targets are dispatched is left open.         *)
(***************************************************************************)
CONSTANTS
    Jobs,       \* job identifiers
    Nodes       \* nodes that a job may target

VARIABLES
    status,     \* Jobs -> JobStatus
    outcome,    \* Jobs -> Nodes -> "none" (no target), open or final status
    told        \* jobs for which onJobCompleted has been called

vars == <<status, outcome, told>>

Open == {"pending", "running"}
Final == {"completed", "failed", "skipped", "timeout", "unreachable"}
Ended == {"completed", "failed", "partial"}

Init ==
    /\ status = [j \in Jobs |-> "absent"]
    /\ outcome = [j \in Jobs |-> [n \in Nodes |-> "none"]]
    /\ told = {}

Targets(out) == {n \in Nodes : out[n] # "none"}
Settled(out) == \A n \in Nodes : out[n] \notin Open

Verdict(out) ==
    IF \A n \in Targets(out) : out[n] = "completed" THEN "completed"
    ELSE IF \E n \in Targets(out) : out[n] = "completed" THEN "partial"
    ELSE "failed"

(* The job goes on with outcomes out, or ends with them.                   *)
GoesOn(j, out) ==
    /\ outcome' = [outcome EXCEPT ![j] = out]
    /\ \/ status' = [status EXCEPT ![j] = "running"] /\ ~ Settled(out) /\ UNCHANGED told
       \/ status' = [status EXCEPT ![j] = Verdict(out)] /\ Settled(out) /\ told' = told \cup {j}

Submit(j) ==
    /\ status[j] = "absent"
    /\ \E out \in [Nodes -> {"none", "skipped"} \cup Open] : Targets(out) # {} /\ GoesOn(j, out)

(* Some target gets its outcome, another may start.                        *)
Advance(j) ==
    /\ status[j] = "running"
    /\ \E n \in Nodes, m \in Nodes, o \in Final :
          /\ outcome[j][n] = "running"
          /\ \/ GoesOn(j, [outcome[j] EXCEPT ![n] = o])
             \/ /\ outcome[j][m] = "pending"
                /\ GoesOn(j, [outcome[j] EXCEPT ![n] = o, ![m] = "running"])

(* The operator cancels: what is open fails, and so does the job.          *)
Cancel(j) ==
    /\ status[j] = "running"
    /\ outcome' = [outcome EXCEPT ![j] = [n \in Nodes |-> IF @[n] \in Open THEN "failed" ELSE @[n]]]
    /\ status' = [status EXCEPT ![j] = "failed"]
    /\ UNCHANGED told

Report(j) ==
    /\ status[j] \in Ended /\ j \notin told
    /\ told' = told \cup {j}
    /\ UNCHANGED <<status, outcome>>

Next == \E j \in Jobs : Submit(j) \/ Advance(j) \/ Cancel(j) \/ Report(j)

Spec == Init /\ [][Next]_vars

(* Every job that was accepted ends and is reported.                       *)
Promise == Spec /\ \A j \in Jobs : (status[j] # "absent") ~> (j \in told)
=============================================================================
