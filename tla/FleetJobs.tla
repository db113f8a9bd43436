------------------------------ MODULE FleetJobs ------------------------------
(***************************************************************************)
(* The fleet job scheduler (src/registry/fleet-scheduler.mjs): submission, *)
(* capability filtering, a pool of workers for each job, timeouts,         *)
(* cancellation and the reconciliation at the end.                         *)
(*                                                                         *)
(* What the event loop runs between two external events is one action: the *)
(* submission with the start of the pool, or the end of one dispatch with  *)
(* the start of the next one and, for the last, the reconciliation.  A     *)
(* dispatch goes through the transport the server is given                 *)
(* (fleetDispatchTransport); the timeout races with it, and a call that    *)
(* lost the race, or was aborted, may run on until it sees its signal.     *)
(* The order of the queue is the order of the operator's node list, which  *)
(* is arbitrary: the queue is a set.                                       *)
(***************************************************************************)
EXTENDS Integers, FiniteSets

CONSTANTS
    Jobs,               \* job identifiers
    Nodes,              \* nodes of the registry
    MaxConcurrent       \* maxConcurrentDispatches

ASSUME JobsAssumption ==
    /\ IsFiniteSet(Nodes)
    /\ MaxConcurrent \in Nat \ {0}

VARIABLES
    status,     \* job.status
    result,     \* job.results: Nodes -> status of the node's task, "none" for no target
    summary,    \* job.summary without totalTargets
    queue,      \* eligible nodes that wait for a worker
    flight,     \* dispatches that a worker awaits
    aborted,    \* job._abortController.signal.aborted
    reports,    \* calls of onJobCompleted
    calls       \* transport calls that have not returned

vars == <<status, result, summary, queue, flight, aborted, reports, calls>>

Open == {"pending", "running"}
Final == {"completed", "failed", "skipped", "timeout", "unreachable"}
Ended == {"completed", "failed", "partial"}

Results == [Nodes -> {"none"} \cup Open \cup Final]
Sums == [Final -> Nat]

TypeOK ==
    /\ status \in [Jobs -> {"absent", "running"} \cup Ended]
    /\ result \in [Jobs -> Results]
    /\ summary \in [Jobs -> Sums]
    /\ queue \in [Jobs -> SUBSET Nodes] /\ flight \in [Jobs -> SUBSET Nodes]
    /\ calls \in [Jobs -> SUBSET Nodes]
    /\ aborted \in [Jobs -> BOOLEAN]
    /\ reports \in [Jobs -> Nat]

Init ==
    /\ status = [j \in Jobs |-> "absent"]
    /\ result = [j \in Jobs |-> [n \in Nodes |-> "none"]]
    /\ summary = [j \in Jobs |-> [k \in Final |-> 0]]
    /\ queue = [j \in Jobs |-> {}] /\ flight = [j \in Jobs |-> {}]
    /\ calls = [j \in Jobs |-> {}]
    /\ aborted = [j \in Jobs |-> FALSE]
    /\ reports = [j \in Jobs |-> 0]

-----------------------------------------------------------------------------

Targets(res) == {n \in Nodes : res[n] # "none"}

(* "Terminal status reconciliation", by the summary.                       *)
Verdict(cancelled, sums, total) ==
    IF cancelled THEN "failed"
    ELSE IF sums["completed"] = total THEN "completed"
    ELSE IF sums["completed"] = 0 THEN "failed"
    ELSE "partial"

(* "Accounting invariant verification": it throws when it fails.           *)
Adds(sums, total) ==
    sums["completed"] + sums["failed"] + sums["skipped"] + sums["timeout"] + sums["unreachable"] = total

(* The workers of a job await fl, the rest of executeJob runs once they    *)
(* are all done.                                                           *)
WorkersAwait(j, res, sums, fl) ==
    LET total == Cardinality(Targets(res))
    IN  /\ result' = [result EXCEPT ![j] = res]
        /\ summary' = [summary EXCEPT ![j] = sums]
        /\ flight' = [flight EXCEPT ![j] = fl]
        /\ IF fl # {}
           THEN /\ status' = [status EXCEPT ![j] = IF @ = "absent" THEN "running" ELSE @]
                /\ UNCHANGED reports
           ELSE IF Adds(sums, total)
           THEN /\ status' = [status EXCEPT ![j] = Verdict(aborted[j], sums, total)]
                /\ reports' = [reports EXCEPT ![j] = @ + 1]
           ELSE status' = [status EXCEPT ![j] = "failed"] /\ UNCHANGED reports

(* The workers in pool start with a node each, the others wait.            *)
StartPool(j, targets, eligible, pool) ==
    /\ queue' = [queue EXCEPT ![j] = eligible \ pool]
    /\ calls' = [calls EXCEPT ![j] = pool]
    /\ WorkersAwait(j,
          [n \in Nodes |-> IF n \notin targets THEN "none"
                           ELSE IF n \notin eligible THEN "skipped"
                           ELSE IF n \in pool THEN "running" ELSE "pending"],
          [summary[j] EXCEPT !["skipped"] = Cardinality(targets \ eligible)],
          pool)

(* submitJob with executeJob up to its first await, for targets that the   *)
(* registry knows, those that have the capabilities being eligible.  A     *)
(* job identifier that is taken returns the job it names.                  *)
SubmitJob(j) ==
    /\ status[j] = "absent"
    /\ \E targets \in (SUBSET Nodes) \ {{}} : \E eligible \in SUBSET targets : \E pool \in SUBSET eligible :
          /\ \/ Cardinality(pool) = MaxConcurrent
             \/ Cardinality(pool) < MaxConcurrent /\ pool = eligible
          /\ StartPool(j, targets, eligible, pool)
    /\ UNCHANGED aborted

(* Mutant: a worker whose dispatch failed takes no further node. *)
WorkerLoopsWhileOk(j, n, res, sums, running) ==
    /\ \/ /\ res[n] = "completed"
          /\ \E m \in queue[j] :
                /\ queue' = [queue EXCEPT ![j] = @ \ {m}]
                /\ calls' = [calls EXCEPT ![j] = running \cup {m}]
                /\ WorkersAwait(j, [res EXCEPT ![m] = "running"], sums, (flight[j] \ {n}) \cup {m})
       \/ /\ res[n] # "completed" \/ queue[j] = {}
          /\ calls' = [calls EXCEPT ![j] = running]
          /\ WorkersAwait(j, res, sums, flight[j] \ {n})
          /\ UNCHANGED queue
    /\ UNCHANGED aborted

(* The loop of a worker after its dispatch of n: it takes the next node of *)
(* the queue, unless there is none or the job was aborted.                 *)
WorkerLoops(j, n, res, sums, running) ==
    /\ \/ /\ ~ aborted[j]
          /\ \E m \in queue[j] :
                /\ queue' = [queue EXCEPT ![j] = @ \ {m}]
                /\ calls' = [calls EXCEPT ![j] = running \cup {m}]
                /\ WorkersAwait(j, [res EXCEPT ![m] = "running"], sums, (flight[j] \ {n}) \cup {m})
       \/ /\ aborted[j] \/ queue[j] = {}
          /\ calls' = [calls EXCEPT ![j] = running]
          /\ WorkersAwait(j, res, sums, flight[j] \ {n})
          /\ UNCHANGED queue
    /\ UNCHANGED aborted

(* Mutant: a result that arrives after the cancellation is recorded. *)
DispatchEndsAnyway(j, n, outcome, running) ==
    /\ n \in flight[j]
    /\ WorkerLoops(j, n, [result[j] EXCEPT ![n] = outcome], [summary[j] EXCEPT ![outcome] = @ + 1], running)

(* dispatchNext after its await: the result is recorded unless the job was *)
(* aborted in the meantime.                                                *)
DispatchEnds(j, n, outcome, running) ==
    /\ n \in flight[j]
    /\ IF aborted[j] \/ result[j][n] = "failed"
       THEN WorkerLoops(j, n, result[j], summary[j], running)
       ELSE WorkerLoops(j, n, [result[j] EXCEPT ![n] = outcome], [summary[j] EXCEPT ![outcome] = @ + 1], running)

(* The transport answers with an outcome of the contract, or throws, which *)
(* counts as failed.                                                       *)
TransportAnswers(j, n) ==
    /\ n \in calls[j]
    /\ \E outcome \in Final \ {"skipped"} : DispatchEnds(j, n, outcome, calls[j] \ {n})

(* The timer of dispatchWithTimeout wins; the call sees its signal later.  *)
TaskTimeout(j, n) == DispatchEnds(j, n, "timeout", calls[j])

(* A call that nobody awaits returns.                                      *)
LateAnswer(j, n) ==
    /\ n \in calls[j] \ flight[j]
    /\ calls' = [calls EXCEPT ![j] = @ \ {n}]
    /\ UNCHANGED <<status, result, summary, queue, flight, aborted, reports>>

(* The job is aborted, those of its nodes that are in open fail.           *)
Abort(j, open) ==
    /\ aborted' = [aborted EXCEPT ![j] = TRUE]
    /\ result' = [result EXCEPT ![j] = [n \in Nodes |-> IF n \in open THEN "failed" ELSE @[n]]]
    /\ summary' = [summary EXCEPT ![j]["failed"] = @ + Cardinality(open)]
    /\ UNCHANGED <<queue, flight, calls>>

(* Mutant: cancellation leaves the nodes in the queue as they are. *)
CancelJobRunningOnly(j) ==
    /\ status[j] = "running"
    /\ status' = [status EXCEPT ![j] = "failed"]
    /\ Abort(j, {n \in Nodes : result[j][n] = "running"})
    /\ UNCHANGED reports

(* Mutant: cancellation reports the job itself. *)
CancelJobReporting(j) ==
    /\ status[j] = "running"
    /\ status' = [status EXCEPT ![j] = "failed"]
    /\ Abort(j, {n \in Nodes : result[j][n] \in Open})
    /\ reports' = [reports EXCEPT ![j] = @ + 1]

(* Mutant: a cancelled job has a status of its own. *)
CancelJobNamed(j) ==
    /\ status[j] = "running"
    /\ status' = [status EXCEPT ![j] = "cancelled"]
    /\ Abort(j, {n \in Nodes : result[j][n] \in Open})
    /\ UNCHANGED reports

(* cancelJob; a job that has ended is left alone.                          *)
CancelJob(j) ==
    /\ status[j] = "running"
    /\ status' = [status EXCEPT ![j] = "failed"]
    /\ Abort(j, {n \in Nodes : result[j][n] \in Open})
    /\ UNCHANGED reports

Next ==
    \E j \in Jobs :
        \/ SubmitJob(j)
        \/ CancelJob(j)
        \/ \E n \in Nodes : TransportAnswers(j, n) \/ TaskTimeout(j, n) \/ LateAnswer(j, n)

Spec == Init /\ [][Next]_vars

(* A timer that is due fires.  Nothing is assumed of the transport.        *)
FairSpec == Spec /\ \A j \in Jobs, n \in Nodes : WF_vars(TaskTimeout(j, n))

-----------------------------------------------------------------------------
(* Properties *)

(* RFC-0014: "summary.totalTargets === ..." at the end; it holds at every  *)
(* moment, kind by kind, whatever cancellation, timeouts and late answers  *)
(* overlap, so that the check at the end of executeJob never throws.       *)
Accounting ==
    \A j \in Jobs : \A k \in Final : summary[j][k] = Cardinality({n \in Nodes : result[j][n] = k})

(* The pool has its bound and, while nodes are queued and the job is not   *)
(* cancelled, uses it: a slow or failing node holds up no other.           *)
PoolBusy ==
    \A j \in Jobs :
        /\ Cardinality(flight[j]) <= MaxConcurrent
        /\ ~ aborted[j] /\ queue[j] # {} => Cardinality(flight[j]) = MaxConcurrent

(* A job is reported once, when it has ended and no worker is left, also   *)
(* if it was cancelled with dispatches in flight.                          *)
ReportedOnce ==
    \A j \in Jobs : reports[j] = IF status[j] \in Ended /\ flight[j] = {} THEN 1 ELSE 0

(* The scheduler keeps the promise of a job's life cycle: final outcomes   *)
(* and statuses do not change, the status is the verdict on the outcomes,  *)
(* and every job ends.                                                     *)
Lifecycle == INSTANCE JobLifecycle WITH outcome <- result, told <- {j \in Jobs : reports[j] > 0}

KeepsPromise == Lifecycle!Promise

(* The scheduler's maps keep their types, and summaries their results.     *)
AccountingSound == TypeOK /\ Accounting
=============================================================================
