--------------------------- MODULE FleetJobsProofs ---------------------------
(***************************************************************************)
(* Proofs about FleetJobs, for every set of jobs, every finite set of      *)
(* nodes and every size of the pool.                                       *)
(***************************************************************************)
EXTENDS FleetJobs, FiniteSetTheorems, TLAPS

-----------------------------------------------------------------------------
(* Type correctness *)

(* Every set of nodes has a cardinality.                                   *)
LEMMA NodeSets == \A S \in SUBSET Nodes : IsFiniteSet(S) /\ Cardinality(S) \in Nat
BY JobsAssumption, FS_Subset, FS_CardinalityType

(* The end of executeJob yields a status of an ended job.                  *)
LEMMA VerdictType ==
    ASSUME NEW cancelled, NEW sums, NEW total
    PROVE  Verdict(cancelled, sums, total) \in Ended
BY DEF Verdict, Ended

(* What the workers await next is well typed if its parts are.             *)
LEMMA WorkersAwaitType ==
    ASSUME TypeOK, NEW j \in Jobs, NEW res \in Results, NEW sums \in Sums, NEW fl \in SUBSET Nodes,
           WorkersAwait(j, res, sums, fl)
    PROVE  /\ status' \in [Jobs -> {"absent", "running"} \cup Ended]
           /\ result' \in [Jobs -> Results] /\ summary' \in [Jobs -> Sums]
           /\ flight' \in [Jobs -> SUBSET Nodes] /\ reports' \in [Jobs -> Nat]
<1>1. "failed" \in Ended
  BY DEF Ended
<1>2. status' \in [Jobs -> {"absent", "running"} \cup Ended]
  BY <1>1, VerdictType DEF WorkersAwait, TypeOK
<1>3. reports' \in [Jobs -> Nat]
  BY DEF WorkersAwait, TypeOK
<1>4. result' \in [Jobs -> Results] /\ summary' \in [Jobs -> Sums] /\ flight' \in [Jobs -> SUBSET Nodes]
  BY DEF WorkersAwait, TypeOK
<1> QED
  BY <1>2, <1>3, <1>4

(* A worker that takes a node, or ends, leaves the state well typed.       *)
LEMMA WorkerLoopsType ==
    ASSUME TypeOK, NEW j \in Jobs, NEW n \in Nodes, NEW res \in Results, NEW sums \in Sums,
           NEW running \in SUBSET Nodes, WorkerLoops(j, n, res, sums, running)
    PROVE  TypeOK'
<1>1. ASSUME NEW m \in queue[j],
             queue' = [queue EXCEPT ![j] = @ \ {m}],
             calls' = [calls EXCEPT ![j] = running \cup {m}],
             WorkersAwait(j, [res EXCEPT ![m] = "running"], sums, (flight[j] \ {n}) \cup {m})
      PROVE  TypeOK'
  <2>1. m \in Nodes
    BY DEF TypeOK
  <2>2. [res EXCEPT ![m] = "running"] \in Results
    BY <2>1 DEF Results, Open
  <2>3. (flight[j] \ {n}) \cup {m} \in SUBSET Nodes
    BY <2>1 DEF TypeOK
  <2>4. queue' \in [Jobs -> SUBSET Nodes] /\ calls' \in [Jobs -> SUBSET Nodes]
    BY <1>1, <2>1 DEF TypeOK
  <2> QED
    BY <1>1, <2>2, <2>3, <2>4, WorkersAwaitType DEF TypeOK, WorkerLoops
<1>2. ASSUME calls' = [calls EXCEPT ![j] = running], queue' = queue,
             WorkersAwait(j, res, sums, flight[j] \ {n})
      PROVE  TypeOK'
  <2>1. flight[j] \ {n} \in SUBSET Nodes
    BY DEF TypeOK
  <2> QED
    BY <1>2, <2>1, WorkersAwaitType DEF TypeOK, WorkerLoops
<1> QED
  BY <1>1, <1>2 DEF WorkerLoops

(* A recorded outcome keeps the results and the summary typed.             *)
LEMMA RecordType ==
    ASSUME TypeOK, NEW j \in Jobs, NEW n \in Nodes, NEW outcome \in Final
    PROVE  /\ [result[j] EXCEPT ![n] = outcome] \in Results
           /\ [summary[j] EXCEPT ![outcome] = @ + 1] \in Sums
BY DEF TypeOK, Results, Sums

LEMMA DispatchEndsType ==
    ASSUME TypeOK, NEW j \in Jobs, NEW n \in Nodes, NEW outcome \in Final, NEW running \in SUBSET Nodes,
           DispatchEnds(j, n, outcome, running)
    PROVE  TypeOK'
<1>1. result[j] \in Results /\ summary[j] \in Sums
  BY DEF TypeOK
<1> QED
  BY <1>1, RecordType, WorkerLoopsType DEF DispatchEnds

LEMMA StartPoolType ==
    ASSUME TypeOK, NEW j \in Jobs, NEW targets \in SUBSET Nodes, NEW eligible \in SUBSET targets,
           NEW pool \in SUBSET eligible, StartPool(j, targets, eligible, pool), aborted' = aborted
    PROVE  TypeOK'
<1> DEFINE res == [n \in Nodes |-> IF n \notin targets THEN "none"
                                   ELSE IF n \notin eligible THEN "skipped"
                                   ELSE IF n \in pool THEN "running" ELSE "pending"]
           sums == [summary[j] EXCEPT !["skipped"] = Cardinality(targets \ eligible)]
<1>1. res \in Results
  BY DEF Results, Open, Final
<1>2. sums \in Sums
  BY NodeSets DEF TypeOK, Sums
<1>3. WorkersAwait(j, res, sums, pool)
  BY DEF StartPool
<1>4. queue' \in [Jobs -> SUBSET Nodes] /\ calls' \in [Jobs -> SUBSET Nodes]
  BY DEF StartPool, TypeOK
<1> HIDE DEF res, sums
<1> QED
  BY <1>1, <1>2, <1>3, <1>4, WorkersAwaitType DEF TypeOK

(* The scheduler's next step leaves its state well typed.                  *)
LEMMA TypeStep == TypeOK /\ [Next]_vars => TypeOK'
<1> SUFFICES ASSUME TypeOK, [Next]_vars PROVE TypeOK'
  OBVIOUS
<1>1. ASSUME NEW j \in Jobs, SubmitJob(j) PROVE TypeOK'
  BY <1>1, StartPoolType DEF SubmitJob
<1>2. ASSUME NEW j \in Jobs, CancelJob(j) PROVE TypeOK'
  <2> DEFINE open == {n \in Nodes : result[j][n] \in Open}
  <2>1. Cardinality(open) \in Nat
    BY NodeSets
  <2>2. Abort(j, open)
    BY <1>2 DEF CancelJob
  <2> HIDE DEF open
  <2>3. result' \in [Jobs -> Results]
    BY <2>2 DEF Abort, TypeOK, Results, Final
  <2>4. summary' \in [Jobs -> Sums]
    BY <2>1, <2>2 DEF Abort, TypeOK, Sums, Final
  <2> QED
    BY <1>2, <2>2, <2>3, <2>4 DEF CancelJob, Abort, TypeOK, Ended
<1>3. ASSUME NEW j \in Jobs, NEW n \in Nodes, TransportAnswers(j, n) PROVE TypeOK'
  <2>1. calls[j] \ {n} \in SUBSET Nodes
    BY DEF TypeOK
  <2> QED
    BY <1>3, <2>1, DispatchEndsType DEF TransportAnswers
<1>4. ASSUME NEW j \in Jobs, NEW n \in Nodes, TaskTimeout(j, n) PROVE TypeOK'
  <2>1. "timeout" \in Final /\ calls[j] \in SUBSET Nodes
    BY DEF TypeOK, Final
  <2> QED
    BY <1>4, <2>1, DispatchEndsType DEF TaskTimeout
<1>5. ASSUME NEW j \in Jobs, NEW n \in Nodes, LateAnswer(j, n) PROVE TypeOK'
  BY <1>5 DEF LateAnswer, TypeOK
<1>6. CASE UNCHANGED vars
  BY <1>6 DEF vars, TypeOK
<1> QED
  BY <1>1, <1>2, <1>3, <1>4, <1>5, <1>6 DEF Next

(* The scheduler's state is always well typed.                             *)
THEOREM JobsTypeCorrect == Spec => []TypeOK
<1>1. Init => TypeOK
  BY DEF Init, TypeOK, Results, Sums
<1> QED
  BY <1>1, TypeStep, PTL DEF Spec

-----------------------------------------------------------------------------
(* The inductive invariant, job by job *)

With(res, k) == {n \in Nodes : res[n] = k}

(* The summary counts the results.                                         *)
Counted(res, sums) == \A k \in Final : sums[k] = Cardinality(With(res, k))

(* Until the job is aborted a node is running while a worker awaits it and *)
(* pending while it is queued; after that none is either.                  *)
Matches(res, q, fl, ab) ==
    /\ q \cap fl = {}
    /\ ~ ab => \A n \in Nodes : (res[n] = "running" <=> n \in fl) /\ (res[n] = "pending" <=> n \in q)
    /\ ab => \A n \in Nodes : res[n] \notin Open

Pooled(q, fl, ab) ==
    /\ Cardinality(fl) <= MaxConcurrent
    /\ ~ ab /\ q # {} => Cardinality(fl) = MaxConcurrent

(* The job runs while its workers do, or was cancelled, and is reported    *)
(* when it has ended and they are done.                                    *)
Told(s, res, fl, ab, rep) ==
    /\ s = "running" <=> fl # {} /\ ~ ab
    /\ ab => s = "failed"
    /\ rep = IF s \in Ended /\ fl = {} THEN 1 ELSE 0
    /\ s = "absent" => \A n \in Nodes : res[n] = "none"

JobOK(s, res, sums, q, fl, ab, rep) ==
    Counted(res, sums) /\ Matches(res, q, fl, ab) /\ Pooled(q, fl, ab) /\ Told(s, res, fl, ab, rep)

JobsOK ==
    \A j \in Jobs : JobOK(status[j], result[j], summary[j], queue[j], flight[j], aborted[j], reports[j])

-----------------------------------------------------------------------------
(* Counting *)

LEMMA Disjoint ==
    ASSUME NEW S, NEW T, IsFiniteSet(S), IsFiniteSet(T), S \cap T = {}
    PROVE  IsFiniteSet(S \cup T) /\ Cardinality(S \cup T) = Cardinality(S) + Cardinality(T)
BY FS_Union, FS_EmptySet, FS_CardinalityType

LEMMA WithSets == \A res, k : With(res, k) \in SUBSET Nodes /\ Cardinality(With(res, k)) \in Nat
BY NodeSets DEF With

(* The outcomes of a settled job add up to its targets: the check at the   *)
(* end of executeJob does not throw.                                       *)
LEMMA SettledAdds ==
    ASSUME NEW res \in Results, NEW sums, Counted(res, sums), \A n \in Nodes : res[n] \notin Open
    PROVE  Adds(sums, Cardinality(Targets(res)))
<1> DEFINE C == With(res, "completed")
           F == With(res, "failed")
           S == With(res, "skipped")
           T == With(res, "timeout")
           U == With(res, "unreachable")
<1>1. Targets(res) = C \cup (F \cup (S \cup (T \cup U)))
  BY DEF Targets, With, Results, Open, Final
<1>2. IsFiniteSet(C) /\ IsFiniteSet(F) /\ IsFiniteSet(S) /\ IsFiniteSet(T) /\ IsFiniteSet(U)
  BY NodeSets, WithSets
<1>3. T \cap U = {} /\ S \cap (T \cup U) = {} /\ F \cap (S \cup (T \cup U)) = {}
      /\ C \cap (F \cup (S \cup (T \cup U))) = {}
  BY DEF With
<1> HIDE DEF C, F, S, T, U
<1>4. IsFiniteSet(T \cup U) /\ Cardinality(T \cup U) = Cardinality(T) + Cardinality(U)
  BY <1>2, <1>3, Disjoint
<1>5. /\ IsFiniteSet(S \cup (T \cup U))
      /\ Cardinality(S \cup (T \cup U)) = Cardinality(S) + Cardinality(T \cup U)
  BY <1>2, <1>3, <1>4, Disjoint
<1>6. /\ IsFiniteSet(F \cup (S \cup (T \cup U)))
      /\ Cardinality(F \cup (S \cup (T \cup U))) = Cardinality(F) + Cardinality(S \cup (T \cup U))
  BY <1>2, <1>3, <1>5, Disjoint
<1>7. Cardinality(C \cup (F \cup (S \cup (T \cup U)))) = Cardinality(C) + Cardinality(F \cup (S \cup (T \cup U)))
  BY <1>2, <1>3, <1>6, Disjoint
<1>8. /\ sums["completed"] = Cardinality(C) /\ sums["failed"] = Cardinality(F)
      /\ sums["skipped"] = Cardinality(S) /\ sums["timeout"] = Cardinality(T)
      /\ sums["unreachable"] = Cardinality(U)
  BY DEF Counted, Final, C, F, S, T, U
<1>9. /\ Cardinality(C) \in Nat /\ Cardinality(F) \in Nat /\ Cardinality(S) \in Nat
      /\ Cardinality(T) \in Nat /\ Cardinality(U) \in Nat
  BY <1>2, FS_CardinalityType
<1> QED
  BY <1>1, <1>4, <1>5, <1>6, <1>7, <1>8, <1>9 DEF Adds

(* Recording the outcome of an open node keeps the count.                  *)
LEMMA RecordCounted ==
    ASSUME NEW res \in Results, NEW sums \in Sums, Counted(res, sums),
           NEW n \in Nodes, res[n] \notin Final, NEW o \in Final
    PROVE  Counted([res EXCEPT ![n] = o], [sums EXCEPT ![o] = @ + 1])
<1> DEFINE next == [res EXCEPT ![n] = o]
<1>1. With(next, o) = With(res, o) \cup {n} /\ n \notin With(res, o)
  BY DEF With, Results
<1>2. \A k \in Final : k # o => With(next, k) = With(res, k)
  BY DEF With, Results
<1>3. Cardinality(With(next, o)) = Cardinality(With(res, o)) + 1
  BY <1>1, WithSets, NodeSets, FS_AddElement
<1> HIDE DEF next
<1>4. \A k \in Final : [sums EXCEPT ![o] = @ + 1][k] = Cardinality(With(next, k))
  BY <1>2, <1>3 DEF Counted, Sums
<1> QED
  BY <1>4 DEF Counted, next

(* So does a node that starts.                                             *)
LEMMA StartCounted ==
    ASSUME NEW res \in Results, NEW sums, Counted(res, sums), NEW n \in Nodes, res[n] \notin Final
    PROVE  Counted([res EXCEPT ![n] = "running"], sums)
<1>1. \A k \in Final : With([res EXCEPT ![n] = "running"], k) = With(res, k)
  BY DEF With, Results, Final
<1> QED
  BY <1>1 DEF Counted

-----------------------------------------------------------------------------
(* The steps *)

(* Workers that await what matches the results and fills the pool keep the *)
(* job, and leave the others alone.                                        *)
LEMMA AwaitStep ==
    ASSUME TypeOK, JobsOK, NEW j \in Jobs, NEW res \in Results, NEW sums \in Sums,
           NEW q \in SUBSET Nodes, NEW fl \in SUBSET Nodes,
           Counted(res, sums), Matches(res, q, fl, aborted[j]), Pooled(q, fl, aborted[j]),
           status[j] = "absent" \/ flight[j] # {},
           WorkersAwait(j, res, sums, fl), queue' = [queue EXCEPT ![j] = q], aborted' = aborted
    PROVE  JobsOK'
<1>1. Told(status[j], result[j], flight[j], aborted[j], reports[j])
  BY DEF JobsOK, JobOK
<1>2. /\ result'[j] = res /\ summary'[j] = sums /\ queue'[j] = q /\ flight'[j] = fl
      /\ aborted'[j] = aborted[j]
  BY DEF WorkersAwait, TypeOK
<1>3. ASSUME fl # {} PROVE Told(status'[j], res, fl, aborted[j], reports'[j])
  <2>1. reports' = reports /\ status'[j] = IF status[j] = "absent" THEN "running" ELSE status[j]
    BY <1>3 DEF WorkersAwait, TypeOK
  <2> QED
    BY <1>1, <1>3, <2>1 DEF Told, TypeOK, Ended
<1>4. ASSUME fl = {} PROVE Told(status'[j], res, fl, aborted[j], reports'[j])
  <2>1. \A n \in Nodes : res[n] \notin Open
    BY <1>4, FS_EmptySet, JobsAssumption DEF Matches, Pooled, Open
  <2>2. Adds(sums, Cardinality(Targets(res)))
    BY <2>1, SettledAdds
  <2>3. /\ status'[j] = Verdict(aborted[j], sums, Cardinality(Targets(res)))
        /\ reports'[j] = reports[j] + 1
    BY <1>4, <2>2 DEF WorkersAwait, TypeOK
  <2>4. status'[j] \in Ended /\ (aborted[j] => status'[j] = "failed")
    BY <2>3, VerdictType DEF Verdict
  <2>5. reports[j] = 0
    BY <1>1 DEF Told, Ended
  <2>6. "running" \notin Ended /\ "absent" \notin Ended
    BY DEF Ended
  <2> QED
    BY <1>4, <2>3, <2>4, <2>5, <2>6 DEF Told
<1>5. JobOK(status'[j], result'[j], summary'[j], queue'[j], flight'[j], aborted'[j], reports'[j])
  BY <1>2, <1>3, <1>4 DEF JobOK
<1>6. ASSUME NEW i \in Jobs, i # j
      PROVE  /\ status'[i] = status[i] /\ result'[i] = result[i] /\ summary'[i] = summary[i]
             /\ queue'[i] = queue[i] /\ flight'[i] = flight[i] /\ aborted'[i] = aborted[i]
             /\ reports'[i] = reports[i]
  BY <1>6 DEF WorkersAwait, TypeOK
<1> QED
  BY <1>5, <1>6 DEF JobsOK

(* The loop of a worker keeps the jobs, if the results match the dispatches *)
(* that are left when its own has ended.                                   *)
LEMMA WorkerLoopsStep ==
    ASSUME TypeOK, JobsOK, NEW j \in Jobs, NEW n \in flight[j], NEW res \in Results, NEW sums \in Sums,
           NEW running, Counted(res, sums), Matches(res, queue[j], flight[j] \ {n}, aborted[j]),
           WorkerLoops(j, n, res, sums, running)
    PROVE  JobsOK'
<1>1. /\ Pooled(queue[j], flight[j], aborted[j]) /\ Matches(result[j], queue[j], flight[j], aborted[j])
      /\ flight[j] \in SUBSET Nodes /\ queue[j] \in SUBSET Nodes
  BY DEF JobsOK, JobOK, TypeOK
<1>2. IsFiniteSet(flight[j]) /\ Cardinality(flight[j]) \in Nat /\ MaxConcurrent \in Nat
  BY <1>1, NodeSets, JobsAssumption
<1>3. IsFiniteSet(flight[j] \ {n}) /\ Cardinality(flight[j] \ {n}) = Cardinality(flight[j]) - 1
  BY <1>2, FS_RemoveElement
<1>4. aborted' = aborted
  BY DEF WorkerLoops
<1>5. ASSUME NEW m \in queue[j], ~ aborted[j], queue' = [queue EXCEPT ![j] = @ \ {m}],
             WorkersAwait(j, [res EXCEPT ![m] = "running"], sums, (flight[j] \ {n}) \cup {m})
      PROVE  JobsOK'
  <2> DEFINE next == [res EXCEPT ![m] = "running"]
             q == queue[j] \ {m}
             fl == (flight[j] \ {n}) \cup {m}
  <2>1. m \in Nodes /\ m \notin flight[j] /\ res[m] = "pending"
    BY <1>1, <1>5 DEF Matches
  <2>2. next \in Results /\ q \in SUBSET Nodes /\ fl \in SUBSET Nodes
    BY <1>1, <2>1 DEF Results, Open
  <2>3. Counted(next, sums)
    BY <2>1, StartCounted DEF Final
  <2>4. Matches(next, q, fl, aborted[j])
    BY <1>5, <2>1 DEF Matches, Results
  <2>5. Cardinality(fl) = Cardinality(flight[j])
    <3> DEFINE rest == flight[j] \ {n}
    <3>1. IsFiniteSet(rest) /\ m \notin rest
      BY <1>3, <2>1
    <3>2. Cardinality(rest \cup {m}) = Cardinality(rest) + 1
      <4> HIDE DEF rest
      <4> QED
        BY <3>1, FS_AddElement
    <3> QED
      BY <1>2, <1>3, <3>2
  <2>6. Pooled(q, fl, aborted[j])
    <3> HIDE DEF fl
    <3> QED
      BY <1>1, <1>5, <2>5 DEF Pooled
  <2>7. queue' = [queue EXCEPT ![j] = q]
    BY <1>5
  <2> HIDE DEF next, q, fl
  <2>8. WorkersAwait(j, next, sums, fl)
    BY <1>5 DEF next, fl
  <2> QED
    BY <1>4, <2>2, <2>3, <2>4, <2>6, <2>7, <2>8, AwaitStep
<1>6. ASSUME aborted[j] \/ queue[j] = {}, queue' = queue, WorkersAwait(j, res, sums, flight[j] \ {n})
      PROVE  JobsOK'
  <2>1. queue' = [queue EXCEPT ![j] = queue[j]]
    BY <1>6 DEF TypeOK
  <2>2. Pooled(queue[j], flight[j] \ {n}, aborted[j])
    BY <1>1, <1>2, <1>3, <1>6 DEF Pooled
  <2>3. flight[j] \ {n} \in SUBSET Nodes
    BY <1>1
  <2> QED
    BY <1>1, <1>4, <1>6, <2>1, <2>2, <2>3, AwaitStep
<1> QED
  BY <1>5, <1>6 DEF WorkerLoops

LEMMA DispatchEndsStep ==
    ASSUME TypeOK, JobsOK, NEW j \in Jobs, NEW n \in Nodes, NEW outcome \in Final, NEW running,
           DispatchEnds(j, n, outcome, running)
    PROVE  JobsOK'
<1>1. /\ Counted(result[j], summary[j]) /\ Matches(result[j], queue[j], flight[j], aborted[j])
      /\ result[j] \in Results /\ summary[j] \in Sums /\ n \in flight[j]
  BY DEF JobsOK, JobOK, TypeOK, DispatchEnds
<1>2. CASE aborted[j]
  <2>1. Matches(result[j], queue[j], flight[j] \ {n}, aborted[j])
    BY <1>1, <1>2 DEF Matches
  <2> QED
    BY <1>1, <1>2, <2>1, WorkerLoopsStep DEF DispatchEnds
<1>3. CASE ~ aborted[j]
  <2>1. result[j][n] = "running"
    BY <1>1, <1>3 DEF Matches
  <2> DEFINE res == [result[j] EXCEPT ![n] = outcome]
             sums == [summary[j] EXCEPT ![outcome] = @ + 1]
  <2>2. WorkerLoops(j, n, res, sums, running)
    BY <1>3, <2>1 DEF DispatchEnds
  <2>3. res \in Results /\ sums \in Sums
    BY RecordType
  <2>4. Counted(res, sums)
    BY <1>1, <2>1, RecordCounted DEF Final
  <2>5. Matches(res, queue[j], flight[j] \ {n}, aborted[j])
    BY <1>1, <1>3 DEF Matches, Results, Final
  <2> HIDE DEF res, sums
  <2> QED
    BY <1>1, <2>2, <2>3, <2>4, <2>5, WorkerLoopsStep
<1> QED
  BY <1>2, <1>3

LEMMA SubmitStep == ASSUME TypeOK, JobsOK, NEW j \in Jobs, SubmitJob(j) PROVE JobsOK'
<1>1. PICK targets \in SUBSET Nodes, eligible \in SUBSET Nodes, pool \in SUBSET Nodes :
         /\ eligible \subseteq targets /\ pool \subseteq eligible
         /\ \/ Cardinality(pool) = MaxConcurrent
            \/ Cardinality(pool) < MaxConcurrent /\ pool = eligible
         /\ StartPool(j, targets, eligible, pool)
  BY DEF SubmitJob
<1>2. status[j] = "absent" /\ aborted' = aborted
  BY DEF SubmitJob
<1>3. /\ ~ aborted[j] /\ (\A n \in Nodes : result[j][n] = "none")
      /\ Counted(result[j], summary[j]) /\ summary[j] \in Sums
  BY <1>2 DEF JobsOK, JobOK, Told, TypeOK
<1> DEFINE res == [n \in Nodes |-> IF n \notin targets THEN "none"
                                   ELSE IF n \notin eligible THEN "skipped"
                                   ELSE IF n \in pool THEN "running" ELSE "pending"]
           sums == [summary[j] EXCEPT !["skipped"] = Cardinality(targets \ eligible)]
<1>4. res \in Results
  BY DEF Results, Open, Final
<1>5. sums \in Sums
  BY <1>3, NodeSets DEF Sums
<1>6. Counted(res, sums)
  <2>1. ASSUME NEW k \in Final, k # "skipped" PROVE sums[k] = Cardinality(With(res, k))
    <3>1. With(res, k) = {} /\ With(result[j], k) = {}
      BY <1>3, <2>1 DEF With, Final
    <3>2. sums[k] = summary[j][k]
      BY <1>3, <2>1 DEF Sums
    <3> HIDE DEF res, sums
    <3> QED
      BY <1>3, <3>1, <3>2 DEF Counted
  <2>2. With(res, "skipped") = targets \ eligible
    BY DEF With
  <2>3. sums["skipped"] = Cardinality(targets \ eligible)
    BY <1>3 DEF Sums, Final
  <2> HIDE DEF res, sums
  <2> QED
    BY <2>1, <2>2, <2>3 DEF Counted
<1>7. Matches(res, eligible \ pool, pool, aborted[j])
  BY <1>1, <1>3 DEF Matches
<1>8. Pooled(eligible \ pool, pool, aborted[j])
  BY <1>1, NodeSets, JobsAssumption DEF Pooled
<1>9. queue' = [queue EXCEPT ![j] = eligible \ pool] /\ WorkersAwait(j, res, sums, pool)
  BY <1>1 DEF StartPool
<1> HIDE DEF res, sums
<1> QED
  BY <1>2, <1>4, <1>5, <1>6, <1>7, <1>8, <1>9, AwaitStep

LEMMA CancelStep == ASSUME TypeOK, JobsOK, NEW j \in Jobs, CancelJob(j) PROVE JobsOK'
<1> DEFINE open == {n \in Nodes : result[j][n] \in Open}
           res == [n \in Nodes |-> IF n \in open THEN "failed" ELSE result[j][n]]
           sums == [summary[j] EXCEPT !["failed"] = @ + Cardinality(open)]
<1>1. JobOK(status[j], result[j], summary[j], queue[j], flight[j], aborted[j], reports[j])
  BY DEF JobsOK
<1>2. status[j] = "running" /\ flight[j] # {} /\ reports[j] = 0
  BY <1>1 DEF CancelJob, JobOK, Told
<1>3. Abort(j, open) /\ status' = [status EXCEPT ![j] = "failed"] /\ reports' = reports
  BY DEF CancelJob
<1>4. summary[j] \in Sums /\ Cardinality(open) \in Nat /\ IsFiniteSet(open)
  BY NodeSets DEF TypeOK
<1>5. Counted(res, sums)
  <2>1. \A k \in Final : k # "failed" => With(res, k) = With(result[j], k)
    BY DEF With, Final, Open
  <2>2. With(res, "failed") = With(result[j], "failed") \cup open /\ With(result[j], "failed") \cap open = {}
    BY DEF With, Open
  <2>3. Cardinality(With(res, "failed")) = Cardinality(With(result[j], "failed")) + Cardinality(open)
    BY <1>4, <2>2, WithSets, NodeSets, Disjoint
  <2> HIDE DEF res, open
  <2>4. \A k \in Final : sums[k] = Cardinality(With(res, k))
    BY <1>1, <1>4, <2>1, <2>3 DEF JobOK, Counted, Sums
  <2> QED
    BY <2>4 DEF Counted
<1>6. Matches(res, queue[j], flight[j], TRUE)
  BY <1>1 DEF JobOK, Matches, Open
<1>7. /\ result'[j] = res /\ summary'[j] = sums /\ aborted'[j] = TRUE /\ status'[j] = "failed"
      /\ queue' = queue /\ flight' = flight
  BY <1>3 DEF Abort, TypeOK
<1> HIDE DEF res, sums, open
<1>8. JobOK(status'[j], result'[j], summary'[j], queue'[j], flight'[j], aborted'[j], reports'[j])
  <2>1. Pooled(queue[j], flight[j], TRUE)
    BY <1>1 DEF JobOK, Pooled
  <2>2. Told("failed", res, flight[j], TRUE, reports[j])
    BY <1>2 DEF Told
  <2> QED
    BY <1>3, <1>5, <1>6, <1>7, <2>1, <2>2 DEF JobOK
<1>9. ASSUME NEW i \in Jobs, i # j
      PROVE  /\ status'[i] = status[i] /\ result'[i] = result[i] /\ summary'[i] = summary[i]
             /\ aborted'[i] = aborted[i]
  BY <1>3, <1>9 DEF Abort, TypeOK
<1> QED
  BY <1>3, <1>7, <1>8, <1>9 DEF JobsOK

(* Every step of the scheduler keeps every job.                            *)
LEMMA JobsStep == TypeOK /\ JobsOK /\ [Next]_vars => JobsOK'
<1> SUFFICES ASSUME TypeOK, JobsOK, [Next]_vars PROVE JobsOK'
  OBVIOUS
<1>1. ASSUME NEW j \in Jobs, NEW n \in Nodes, TransportAnswers(j, n) \/ TaskTimeout(j, n)
      PROVE  JobsOK'
  <2>1. PICK outcome \in Final : \E running : DispatchEnds(j, n, outcome, running)
    BY <1>1 DEF TransportAnswers, TaskTimeout, Final
  <2> QED
    BY <2>1, DispatchEndsStep
<1>2. ASSUME NEW j \in Jobs, NEW n \in Nodes, LateAnswer(j, n)
      PROVE  JobsOK'
  BY <1>2 DEF LateAnswer, JobsOK
<1>3. CASE UNCHANGED vars
  BY <1>3 DEF vars, JobsOK
<1> QED
  BY <1>1, <1>2, <1>3, SubmitStep, CancelStep DEF Next

LEMMA JobsInit == Init => JobsOK
<1> SUFFICES ASSUME Init, NEW j \in Jobs
             PROVE  JobOK(status[j], result[j], summary[j], queue[j], flight[j], aborted[j], reports[j])
  BY DEF JobsOK
<1>1. \A k \in Final : With(result[j], k) = {}
  BY DEF Init, With, Final
<1>2. Counted(result[j], summary[j])
  BY <1>1, FS_EmptySet DEF Counted, Init
<1>3. Matches(result[j], queue[j], flight[j], aborted[j])
  BY DEF Init, Matches
<1>4. Pooled(queue[j], flight[j], aborted[j])
  BY FS_EmptySet, JobsAssumption DEF Init, Pooled
<1>5. Told(status[j], result[j], flight[j], aborted[j], reports[j])
  BY DEF Init, Told, Ended
<1> QED
  BY <1>2, <1>3, <1>4, <1>5 DEF JobOK

LEMMA JobsCorrect == Spec => []JobsOK
BY JobsInit, JobsStep, JobsTypeCorrect, PTL DEF Spec

(* Every target of a job is accounted for exactly once, at every moment:   *)
(* no cancellation, timeout or late answer counts a node twice or loses    *)
(* one.                                                                    *)
THEOREM AccountingCorrect == Spec => []Accounting
<1>1. JobsOK => Accounting
  BY DEF JobsOK, JobOK, Counted, With, Accounting
<1> QED
  BY <1>1, JobsCorrect, PTL

(* The scheduler's maps keep their types, and its summaries their results. *)
THEOREM AccountingSoundCorrect == Spec => []AccountingSound
BY JobsTypeCorrect, AccountingCorrect, PTL DEF AccountingSound

(* A job never has more dispatches than its pool has workers, and no       *)
(* worker is idle while nodes wait.                                        *)
THEOREM PoolBusyCorrect == Spec => []PoolBusy
<1>1. JobsOK => PoolBusy
  BY DEF JobsOK, JobOK, Pooled, PoolBusy
<1> QED
  BY <1>1, JobsCorrect, PTL

(* A job is reported once, when it has ended and its last worker is done,  *)
(* cancelled or not.                                                       *)
THEOREM ReportedOnceCorrect == Spec => []ReportedOnce
<1>1. JobsOK => ReportedOnce
  BY DEF JobsOK, JobOK, Told, ReportedOnce
<1> QED
  BY <1>1, JobsCorrect, PTL

-----------------------------------------------------------------------------
(* The scheduler implements the life cycle *)

(* The verdict by the summary is the verdict on the outcomes.              *)
LEMMA SameVerdict ==
    ASSUME NEW res \in Results, NEW sums, Counted(res, sums)
    PROVE  Verdict(FALSE, sums, Cardinality(Targets(res))) = Lifecycle!Verdict(res)
<1>1. /\ Targets(res) \in SUBSET Nodes /\ With(res, "completed") \in SUBSET Targets(res)
      /\ Targets(res) = Lifecycle!Targets(res)
  BY DEF Targets, With, Lifecycle!Targets
<1>2. IsFiniteSet(Targets(res)) /\ IsFiniteSet(With(res, "completed"))
  BY <1>1, NodeSets
<1>3. sums["completed"] = Cardinality(With(res, "completed"))
  BY DEF Counted, Final
<1>4. sums["completed"] = Cardinality(Targets(res)) <=> \A n \in Targets(res) : res[n] = "completed"
  <2>1. ASSUME sums["completed"] = Cardinality(Targets(res)) PROVE Targets(res) = With(res, "completed")
    BY <1>1, <1>2, <1>3, <2>1, FS_Subset
  <2>2. ASSUME \A n \in Targets(res) : res[n] = "completed" PROVE Targets(res) = With(res, "completed")
    BY <1>1, <2>2 DEF With, Targets
  <2> QED
    BY <1>3, <2>1, <2>2 DEF With
<1>5. sums["completed"] = 0 <=> ~ \E n \in Targets(res) : res[n] = "completed"
  <2>1. sums["completed"] = 0 <=> With(res, "completed") = {}
    BY <1>2, <1>3, FS_EmptySet
  <2> QED
    BY <1>1, <2>1 DEF With, Targets
<1> QED
  BY <1>1, <1>4, <1>5 DEF Verdict, Lifecycle!Verdict

(* What the workers await next is how the life cycle goes on.              *)
LEMMA AwaitGoesOn ==
    ASSUME TypeOK, JobsOK, JobsOK', NEW j \in Jobs, ~ aborted[j],
           NEW res \in Results, NEW sums \in Sums, NEW fl \in SUBSET Nodes,
           status[j] = "absent" \/ flight[j] # {},
           WorkersAwait(j, res, sums, fl), aborted' = aborted
    PROVE  Lifecycle!GoesOn(j, res)
<1>1. /\ result' = [result EXCEPT ![j] = res] /\ result'[j] = res /\ summary'[j] = sums /\ flight'[j] = fl
      /\ aborted'[j] = FALSE
  BY DEF WorkersAwait, TypeOK
<1>2. /\ Counted(res, sums) /\ Matches(res, queue'[j], fl, FALSE) /\ Pooled(queue'[j], fl, FALSE)
      /\ Told(status'[j], res, fl, FALSE, reports'[j])
  BY <1>1 DEF JobsOK, JobOK
<1>3. Told(status[j], result[j], flight[j], FALSE, reports[j])
  BY DEF JobsOK, JobOK, TypeOK
<1>4. Lifecycle!Settled(res) <=> \A n \in Nodes : res[n] \notin Open
  BY DEF Lifecycle!Settled, Lifecycle!Open, Open
<1>5. CASE fl # {}
  <2>1. ~ Lifecycle!Settled(res)
    BY <1>2, <1>4, <1>5 DEF Matches, Open
  <2>2. status' = [status EXCEPT ![j] = "running"]
    BY <1>3, <1>5 DEF WorkersAwait, Told, TypeOK
  <2>3. reports' = reports
    BY <1>5 DEF WorkersAwait
  <2> QED
    BY <1>1, <2>1, <2>2, <2>3 DEF Lifecycle!GoesOn
<1>6. CASE fl = {}
  <2>1. \A n \in Nodes : res[n] \notin Open
    BY <1>2, <1>6, FS_EmptySet, JobsAssumption DEF Matches, Pooled, Open
  <2>2. Adds(sums, Cardinality(Targets(res)))
    BY <1>2, <2>1, SettledAdds
  <2>3. status' = [status EXCEPT ![j] = Lifecycle!Verdict(res)]
    BY <1>1, <1>2, <1>6, <2>2, SameVerdict DEF WorkersAwait, TypeOK
  <2>4. reports' = [reports EXCEPT ![j] = @ + 1]
    BY <1>6, <2>2 DEF WorkersAwait
  <2>5. {i \in Jobs : reports'[i] > 0} = {i \in Jobs : reports[i] > 0} \cup {j}
    BY <2>4 DEF TypeOK
  <2> QED
    BY <1>1, <1>4, <2>1, <2>3, <2>5 DEF Lifecycle!GoesOn
<1> QED
  BY <1>5, <1>6

LEMMA SubmitImplements ==
    ASSUME TypeOK, JobsOK, JobsOK', NEW j \in Jobs, SubmitJob(j)
    PROVE  Lifecycle!Submit(j)
<1>1. PICK targets \in SUBSET Nodes, eligible \in SUBSET Nodes, pool \in SUBSET Nodes :
         /\ targets # {} /\ eligible \subseteq targets /\ pool \subseteq eligible
         /\ StartPool(j, targets, eligible, pool)
  BY DEF SubmitJob
<1>2. status[j] = "absent" /\ aborted' = aborted
  BY DEF SubmitJob
<1>3. ~ aborted[j] /\ summary[j] \in Sums
  BY <1>2 DEF JobsOK, JobOK, Told, TypeOK
<1> DEFINE res == [n \in Nodes |-> IF n \notin targets THEN "none"
                                   ELSE IF n \notin eligible THEN "skipped"
                                   ELSE IF n \in pool THEN "running" ELSE "pending"]
           sums == [summary[j] EXCEPT !["skipped"] = Cardinality(targets \ eligible)]
<1>4. res \in Results /\ res \in [Nodes -> {"none", "skipped"} \cup Lifecycle!Open]
  BY DEF Results, Open, Final, Lifecycle!Open
<1>5. sums \in Sums
  BY <1>3, NodeSets DEF Sums
<1>6. Lifecycle!Targets(res) # {}
  BY <1>1 DEF Lifecycle!Targets
<1>7. WorkersAwait(j, res, sums, pool)
  BY <1>1 DEF StartPool
<1> HIDE DEF res, sums
<1>8. Lifecycle!GoesOn(j, res)
  BY <1>2, <1>3, <1>4, <1>5, <1>7, AwaitGoesOn
<1> QED
  BY <1>2, <1>4, <1>6, <1>8 DEF Lifecycle!Submit

(* The end of a dispatch is an outcome while the job runs; after a         *)
(* cancellation the last one is the report and the others change nothing.  *)
LEMMA DispatchImplements ==
    ASSUME TypeOK, JobsOK, JobsOK', NEW j \in Jobs, NEW n \in Nodes, NEW outcome \in Final, NEW running,
           DispatchEnds(j, n, outcome, running)
    PROVE  [Lifecycle!Advance(j) \/ Lifecycle!Report(j)]_(Lifecycle!vars)
<1>1. /\ Counted(result[j], summary[j]) /\ Matches(result[j], queue[j], flight[j], aborted[j])
      /\ Told(status[j], result[j], flight[j], aborted[j], reports[j])
      /\ result[j] \in Results /\ summary[j] \in Sums /\ n \in flight[j]
      /\ flight[j] \in SUBSET Nodes /\ queue[j] \in SUBSET Nodes
  BY DEF JobsOK, JobOK, TypeOK, DispatchEnds
<1>2. CASE aborted[j]
  <2>1. WorkersAwait(j, result[j], summary[j], flight[j] \ {n})
    BY <1>2 DEF DispatchEnds, WorkerLoops
  <2>2. result' = result /\ status[j] = "failed" /\ reports[j] = 0
    BY <1>1, <1>2, <2>1 DEF WorkersAwait, Told, TypeOK
  <2>3. CASE flight[j] \ {n} # {}
    <3>1. status' = status /\ reports' = reports
      BY <2>1, <2>2, <2>3 DEF WorkersAwait, TypeOK
    <3> QED
      BY <2>2, <3>1 DEF Lifecycle!vars
  <2>4. CASE flight[j] \ {n} = {}
    <3>1. Adds(summary[j], Cardinality(Targets(result[j])))
      BY <1>1, <1>2, SettledAdds DEF Matches
    <3>2. /\ status' = [status EXCEPT ![j] = "failed"]
          /\ reports' = [reports EXCEPT ![j] = @ + 1]
      BY <1>2, <2>1, <2>4, <3>1 DEF WorkersAwait, Verdict
    <3>3. status' = status
      BY <2>2, <3>2 DEF TypeOK
    <3>4. {i \in Jobs : reports'[i] > 0} = {i \in Jobs : reports[i] > 0} \cup {j}
      BY <3>2 DEF TypeOK
    <3>5. Lifecycle!Report(j)
      BY <2>2, <3>3, <3>4 DEF Lifecycle!Report, Lifecycle!Ended
    <3> QED
      BY <3>5
  <2> QED
    BY <2>3, <2>4
<1>3. CASE ~ aborted[j]
  <2>1. result[j][n] = "running" /\ status[j] = "running"
    BY <1>1, <1>3 DEF Matches, Told
  <2>0. PICK res, sums : /\ res = [result[j] EXCEPT ![n] = outcome]
                         /\ sums = [summary[j] EXCEPT ![outcome] = @ + 1]
    OBVIOUS
  <2>2. WorkerLoops(j, n, res, sums, running)
    BY <1>3, <2>0, <2>1 DEF DispatchEnds
  <2>3. res \in Results /\ sums \in Sums
    BY <2>0, RecordType
  <2>4. aborted' = aborted /\ flight[j] # {}
    BY <1>1, <2>2 DEF WorkerLoops
  <2>5. outcome \in Lifecycle!Final
    BY DEF Final, Lifecycle!Final
  <2>6. ASSUME NEW m \in queue[j],
               WorkersAwait(j, [res EXCEPT ![m] = "running"], sums, (flight[j] \ {n}) \cup {m})
        PROVE  Lifecycle!Advance(j)
    <3> DEFINE next == [res EXCEPT ![m] = "running"]
               fl == (flight[j] \ {n}) \cup {m}
    <3>1. m \in Nodes /\ result[j][m] = "pending"
      BY <1>1, <1>3 DEF Matches
    <3>2. next \in Results /\ fl \in SUBSET Nodes
      BY <1>1, <2>3, <3>1 DEF Results, Open
    <3>3. WorkersAwait(j, next, sums, fl)
      BY <2>6
    <3>4. Lifecycle!GoesOn(j, next)
      <4> HIDE DEF next, fl
      <4> QED
        BY <1>3, <2>3, <2>4, <3>2, <3>3, AwaitGoesOn
    <3>5. next = [result[j] EXCEPT ![n] = outcome, ![m] = "running"]
      BY <2>0
    <3> HIDE DEF next
    <3> QED
      BY <2>1, <2>5, <3>1, <3>4, <3>5 DEF Lifecycle!Advance, Lifecycle!GoesOn
  <2>7. ASSUME WorkersAwait(j, res, sums, flight[j] \ {n})
        PROVE  Lifecycle!Advance(j)
    <3> DEFINE fl == flight[j] \ {n}
    <3>1. fl \in SUBSET Nodes
      BY <1>1
    <3>2. WorkersAwait(j, res, sums, fl)
      BY <2>7
    <3>3. Lifecycle!GoesOn(j, res)
      <4> HIDE DEF fl
      <4> QED
        BY <1>3, <2>3, <2>4, <3>1, <3>2, AwaitGoesOn
    <3> QED
      BY <2>0, <2>1, <2>5, <3>3 DEF Lifecycle!Advance, Lifecycle!GoesOn
  <2> QED
    BY <2>2, <2>6, <2>7 DEF WorkerLoops
<1> QED
  BY <1>2, <1>3

LEMMA CancelImplements ==
    ASSUME TypeOK, NEW j \in Jobs, CancelJob(j)
    PROVE  Lifecycle!Cancel(j)
<1>1. /\ result' = [result EXCEPT ![j] = [n \in Nodes |->
                      IF n \in {i \in Nodes : result[j][i] \in Open} THEN "failed" ELSE @[n]]]
      /\ status[j] = "running" /\ status' = [status EXCEPT ![j] = "failed"] /\ reports' = reports
  BY DEF CancelJob, Abort
<1>2. result' = [result EXCEPT ![j] = [n \in Nodes |-> IF @[n] \in Open THEN "failed" ELSE @[n]]]
  BY <1>1
<1> QED
  BY <1>1, <1>2 DEF Lifecycle!Cancel, Lifecycle!Open, Open

(* Every step of the scheduler is a step of the life cycle or changes      *)
(* nothing of it.                                                          *)
LEMMA LifecycleStep == TypeOK /\ JobsOK /\ JobsOK' /\ [Next]_vars => [Lifecycle!Next]_(Lifecycle!vars)
<1> SUFFICES ASSUME TypeOK, JobsOK, JobsOK', [Next]_vars PROVE [Lifecycle!Next]_(Lifecycle!vars)
  OBVIOUS
<1>1. ASSUME NEW j \in Jobs, SubmitJob(j) PROVE Lifecycle!Next
  BY <1>1, SubmitImplements DEF Lifecycle!Next
<1>2. ASSUME NEW j \in Jobs, CancelJob(j) PROVE Lifecycle!Next
  BY <1>2, CancelImplements DEF Lifecycle!Next
<1>3. ASSUME NEW j \in Jobs, NEW n \in Nodes, TransportAnswers(j, n) \/ TaskTimeout(j, n)
      PROVE  [Lifecycle!Next]_(Lifecycle!vars)
  <2>1. PICK outcome \in Final : \E running : DispatchEnds(j, n, outcome, running)
    BY <1>3 DEF TransportAnswers, TaskTimeout, Final
  <2>2. [Lifecycle!Advance(j) \/ Lifecycle!Report(j)]_(Lifecycle!vars)
    BY <2>1, DispatchImplements
  <2> QED
    BY <2>2 DEF Lifecycle!Next
<1>4. ASSUME NEW j \in Jobs, NEW n \in Nodes, LateAnswer(j, n) PROVE UNCHANGED Lifecycle!vars
  BY <1>4 DEF LateAnswer, Lifecycle!vars
<1>5. CASE UNCHANGED vars
  BY <1>5 DEF vars, Lifecycle!vars
<1> QED
  BY <1>1, <1>2, <1>3, <1>4, <1>5 DEF Next

(* The scheduler implements the life cycle of a job: outcomes and ends are *)
(* final, the status is the verdict on the outcomes, the report follows    *)
(* the end.  That every job ends is left to the model checker.             *)
THEOREM ImplementsLifecycle == Spec => Lifecycle!Spec
<1>1. Init => Lifecycle!Init
  BY DEF Init, Lifecycle!Init
<1> QED
  BY <1>1, LifecycleStep, JobsTypeCorrect, JobsCorrect, PTL DEF Spec, Lifecycle!Spec
=============================================================================
