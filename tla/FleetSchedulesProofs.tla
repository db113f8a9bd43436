------------------------ MODULE FleetSchedulesProofs ------------------------
(***************************************************************************)
(* Proofs about FleetSchedules, for every set of schedules and of jobs,    *)
(* every interval, cron expression and limit.                              *)
(***************************************************************************)
EXTENDS FleetSchedules, Instants

Types == {"cron", "interval", "once"}

Rows == [status : {"absent", "active", "paused", "completed", "error"}, type : Types,
         policy : {"forbid", "allow"}, missed : {"skip", "run-once"}, next : Nat \cup {Never},
         total : Nat, limit : Limits \cup {0}]

JobRows == [state : {"none", "active", "cancelled"}, schedule : Schedules \cup {"none"},
            policy : {"forbid", "allow"}]

(* What is true of each schedule row.                                      *)
RowInv(row) ==
    /\ row \in Rows
    /\ row.status \in {"active", "paused"} /\ row.limit > 0 => row.total < row.limit
    /\ row.status = "active" /\ row.type # "once" => row.next # Never

(* No next run that a step sets lies in the past.                          *)
NextIsLater(row) == row.next = Never \/ row.next > now

JobsInv == job \in [Runs -> JobRows] /\ ForbidExcludes

(* A start goes through schedules that are due.                            *)
StartIsDue ==
    /\ todo \subseteq Schedules /\ engine \in {"down", "created", "running"}
    /\ todo # {} => engine = "running"
    /\ \A s \in todo : IsDue(s)

(* An occurrence for which a job was submitted is the next run only while  *)
(* it is past; under skip only until the engine has gone through its start.*)
SentIsPast(s) ==
    sent[s] > 0 =>
        /\ sched[s].next # Never /\ sched[s].next <= now
        /\ sched[s].missed = "skip" => sent[s] = 1 /\ (engine = "running" /\ IsDue(s) => s \in todo)

(* The inductive invariant.                                                *)
Inv ==
    /\ now \in 0 .. MaxTime /\ crashes \in 0 .. MaxCrashes
    /\ sched \in [Schedules -> Rows] /\ sent \in [Schedules -> 0 .. 2]
    /\ \A s \in Schedules : RowInv(sched[s]) /\ SentIsPast(s)
    /\ JobsInv /\ StartIsDue

-----------------------------------------------------------------------------
(* The next run *)

(* A next run is later than the time it is looked for, and recurring types *)
(* have one or none can be reached.                                        *)
LEMMA NextRunIsLater ==
    ASSUME NEW type \in Types, NEW t \in Nat
    PROVE  /\ NextRun(type, t) \in Nat \cup {Never, Unreachable}
           /\ NextRun(type, t) = Never \/ NextRun(type, t) = Unreachable \/ NextRun(type, t) > t
           /\ type # "once" => NextRun(type, t) # Never
<1>1. CASE type = "interval"
  BY <1>1, SchedulesAssumption DEF NextRun, Never, Unreachable
<1>2. CASE type = "once"
  BY <1>2 DEF NextRun, Never
<1>3. CASE type = "cron"
  <2> DEFINE found == {c \in CronTimes : t < c /\ c <= t + CronWindow}
  <2>1. NextRun(type, t) = IF found = {} THEN Unreachable ELSE CHOOSE c \in found : \A d \in found : c <= d
    BY <1>3 DEF NextRun
  <2>2. found \subseteq Nat /\ \A c \in found : c > t
    BY SchedulesAssumption
  <2> HIDE DEF found
  <2>3. CASE found = {}
    BY <1>3, <2>1, <2>3 DEF Unreachable, Never
  <2>4. CASE found # {}
    <3>1. \E c \in found : \A d \in found : c <= d
      BY <2>2, <2>4, LeastNatural
    <3>2. NextRun(type, t) \in found
      BY <2>1, <2>4, <3>1
    <3>3. NextRun(type, t) \in Nat /\ NextRun(type, t) > t
      BY <2>2, <3>2
    <3> QED
      BY <3>3 DEF Never
  <2> QED
    BY <2>3, <2>4
<1> QED
  BY <1>1, <1>2, <1>3 DEF Types

(* A row with another next run is as it was or in error.                   *)
LEMMA AdvancedKeepsRow ==
    ASSUME now \in Nat, NEW row, RowInv(row)
    PROVE  /\ RowInv(Advanced(row)) /\ NextIsLater(Advanced(row))
           /\ Advanced(row).status \in {row.status, "error"}
<1> DEFINE n == NextRun(row.type, now)
<1>1. row \in Rows /\ row.type \in Types
  BY DEF RowInv, Rows
<1>2. /\ n \in Nat \cup {Never, Unreachable}
      /\ n = Never \/ n = Unreachable \/ n > now
      /\ row.type # "once" => n # Never
  BY <1>1, NextRunIsLater
<1>3. Advanced(row) = IF n = Unreachable THEN [row EXCEPT !.status = "error", !.next = Never]
                      ELSE [row EXCEPT !.next = n]
  BY DEF Advanced
<1> HIDE DEF n
<1>4. CASE n = Unreachable
  BY <1>1, <1>3, <1>4 DEF RowInv, Rows, NextIsLater
<1>5. CASE n # Unreachable
  BY <1>1, <1>2, <1>3, <1>5 DEF RowInv, Rows, NextIsLater
<1> QED
  BY <1>4, <1>5

(* A row whose run is counted has runs left or is completed.               *)
LEMMA CountedKeepsRow ==
    ASSUME now \in Nat, NEW row, RowInv(row)
    PROVE  /\ RowInv(Counted(row)) /\ NextIsLater(Counted(row))
           /\ Counted(row).status \in {row.status, "completed", "error"}
<1> DEFINE a == Advanced(row)
<1>1. row \in Rows /\ row.total \in Nat /\ row.limit \in Nat
  <2>1. row \in Rows /\ row.total \in Nat /\ row.limit \in Limits \cup {0}
    BY DEF RowInv, Rows
  <2>2. Limits \cup {0} \subseteq Nat
    BY SchedulesAssumption
  <2> HIDE DEF a
  <2> QED
    BY <2>1, <2>2
<1>2. RowInv(a) /\ NextIsLater(a) /\ a.status \in {row.status, "error"} /\ a.limit = row.limit
  <2>1. a.limit = row.limit
    BY <1>1 DEF Advanced, Rows
  <2> QED
    BY <2>1, AdvancedKeepsRow
<1>3. Counted(row) = IF row.limit > 0 /\ row.total + 1 >= row.limit
                     THEN [row EXCEPT !.total = row.total + 1, !.status = "completed", !.next = Never]
                     ELSE [a EXCEPT !.total = row.total + 1]
  BY DEF Counted
<1> HIDE DEF a
<1>4. CASE row.limit > 0 /\ row.total + 1 >= row.limit
  <2> DEFINE c == [row EXCEPT !.total = row.total + 1, !.status = "completed", !.next = Never]
  <2>1. c \in Rows /\ c.status = "completed" /\ c.next = Never
    <3>1. row.total + 1 \in Nat /\ Never \in Nat \cup {Never}
      BY <1>1
    <3> QED
      BY <1>1, <3>1 DEF Rows
  <2>2. Counted(row) = c
    BY <1>3, <1>4
  <2> HIDE DEF c
  <2> QED
    BY <2>1, <2>2 DEF RowInv, NextIsLater
<1>5. CASE ~(row.limit > 0 /\ row.total + 1 >= row.limit)
  BY <1>1, <1>2, <1>3, <1>5 DEF RowInv, Rows, NextIsLater
<1> QED
  BY <1>4, <1>5

-----------------------------------------------------------------------------
(* Steps of one schedule *)

(* A new next run has not been submitted yet.                              *)
LEMMA SetRowResets ==
    ASSUME Inv, NEW s \in Schedules, NEW row, SetRow(s, row), RowInv(row), NextIsLater(row)
    PROVE  sent' = [sent EXCEPT ![s] = 0]
<1>1. /\ now \in Nat /\ sent[s] \in Nat /\ sched[s].next \in Nat \cup {Never}
      /\ sent[s] > 0 => sched[s].next # Never /\ sched[s].next <= now
  BY DEF Inv, Rows, SentIsPast
<1>2. row.next = sched[s].next => sent[s] = 0
  BY <1>1 DEF NextIsLater
<1> QED
  BY <1>2 DEF SetRow, Inv

(* A step that sets one row keeps the invariant if it keeps that of the    *)
(* jobs and, in a start, goes on from that schedule.                       *)
LEMMA SetRowKeepsInv ==
    ASSUME Inv, NEW s \in Schedules, NEW row, SetRow(s, row), RowInv(row), NextIsLater(row),
           UNCHANGED <<now, engine, crashes>>, JobsInv', todo' = todo \ {s}
    PROVE  Inv'
<1>1. /\ sent' = [sent EXCEPT ![s] = 0] /\ sched' = [sched EXCEPT ![s] = row] /\ row \in Rows
  BY SetRowResets DEF SetRow, RowInv
<1>2. /\ sched' \in [Schedules -> Rows] /\ sent' \in [Schedules -> 0 .. 2]
      /\ sched'[s] = row /\ sent'[s] = 0
      /\ \A q \in Schedules : q # s => sched'[q] = sched[q] /\ sent'[q] = sent[q]
  BY <1>1 DEF Inv
<1>3. ASSUME NEW q \in Schedules PROVE RowInv(sched'[q]) /\ SentIsPast(q)'
  <2>1. CASE q = s
    BY <1>2, <2>1 DEF SentIsPast
  <2>2. CASE q # s
    BY <1>2, <2>2 DEF Inv, SentIsPast, IsDue
  <2> QED
    BY <2>1, <2>2
<1>4. StartIsDue'
  BY <1>2 DEF Inv, StartIsDue, IsDue
<1> QED
  BY <1>2, <1>3, <1>4 DEF Inv

(* A dispatch: the row it leaves, and the job it may submit.               *)
LEMMA DispatchKeeps ==
    ASSUME Inv, NEW s \in Schedules, DispatchScheduleRun(s)
    PROVE  /\ JobsInv'
           /\ \E row : /\ SetRow(s, row) /\ RowInv(row) /\ NextIsLater(row)
                       /\ row.status \in {sched[s].status, "completed", "error"}
           /\ \A r \in Runs : Free(r) /\ ~Free(r)' => job'[r].schedule = s
<1>1. now \in Nat /\ RowInv(sched[s]) /\ sched[s].policy \in {"forbid", "allow"}
  BY DEF Inv, RowInv, Rows
<1>2. CASE sched[s].policy = "forbid" /\ HasActiveJob(s)
  <2>1. SetRow(s, Advanced(sched[s])) /\ job' = job
    BY <1>2 DEF DispatchScheduleRun
  <2> QED
    BY <1>1, <2>1, AdvancedKeepsRow DEF Inv, JobsInv, ForbidExcludes, Free
<1>3. CASE ~(sched[s].policy = "forbid" /\ HasActiveJob(s))
  <2>1. SetRow(s, Counted(sched[s]))
    BY <1>3 DEF DispatchScheduleRun
  <2>2. CASE job' = job
    BY <1>1, <2>1, <2>2, CountedKeepsRow DEF Inv, JobsInv, ForbidExcludes, Free
  <2>3. ASSUME NEW r \in Runs, Free(r),
               job' = [job EXCEPT ![r] = [state |-> "active", schedule |-> s, policy |-> sched[s].policy]]
        PROVE  /\ JobsInv'
               /\ \A q \in Runs : Free(q) /\ ~Free(q)' => job'[q].schedule = s
    <3> DEFINE new == [state |-> "active", schedule |-> s, policy |-> sched[s].policy]
    <3>1. new \in JobRows
      BY <1>1 DEF JobRows
    <3>2. new.state = "active" /\ new.schedule = s /\ new.policy = sched[s].policy
      OBVIOUS
    <3>3. job' = [job EXCEPT ![r] = new] /\ job \in [Runs -> JobRows]
      BY <2>3 DEF Inv, JobsInv
    <3> HIDE DEF new
    <3>4. /\ job' \in [Runs -> JobRows] /\ job'[r] = new
          /\ \A q \in Runs : q # r => job'[q] = job[q]
      BY <3>1, <3>3
    <3>5. ForbidExcludes'
      BY <1>3, <3>2, <3>4 DEF Inv, JobsInv, ForbidExcludes, HasActiveJob
    <3> QED
      BY <3>2, <3>4, <3>5 DEF JobsInv, Free
  <2> QED
    BY <1>1, <1>3, <2>1, <2>2, <2>3, CountedKeepsRow DEF DispatchScheduleRun
<1> QED
  BY <1>2, <1>3

(* What a step may do to the schedules, besides keeping the invariant: one *)
(* that has finished stays so, and an occurrence under skip is not         *)
(* submitted again.                                                        *)
StaysFinished ==
    \A s \in Schedules :
        sched[s].status \in {"completed", "error"} => sched'[s].status \in {"completed", "error", "absent"}

SubmittedOnce ==
    \A s \in Schedules :
        sched[s].missed = "skip" /\ sent[s] > 0 =>
            /\ sent'[s] <= 1
            /\ (\E r \in Runs : Free(r) /\ ~ Free(r)' /\ job'[r].schedule = s) => TriggerRun(s)

StepIsSound == Inv' /\ StaysFinished /\ SubmittedOnce

(* Steps that dispatch: an evaluation and a reconciliation find that an    *)
(* occurrence under skip has not been submitted.                           *)
LEMMA DispatchStep ==
    ASSUME Inv, NEW s \in Schedules, DispatchScheduleRun(s),
           UNCHANGED <<now, engine, crashes>>, todo' = todo \ {s},
           TriggerRun(s) \/ ~(sched[s].missed = "skip" /\ sent[s] > 0)
    PROVE  StepIsSound
<1>1. PICK row : /\ SetRow(s, row) /\ RowInv(row) /\ NextIsLater(row)
                 /\ row.status \in {sched[s].status, "completed", "error"}
  BY DispatchKeeps
<1>2. Inv'
  BY <1>1, DispatchKeeps, SetRowKeepsInv
<1>3. sent' = [sent EXCEPT ![s] = 0] /\ sched' = [sched EXCEPT ![s] = row]
  BY <1>1, SetRowResets DEF SetRow
<1>4. StaysFinished
  BY <1>1, <1>3 DEF StaysFinished, Inv
<1>5. SubmittedOnce
  <2> SUFFICES ASSUME NEW q \in Schedules, sched[q].missed = "skip", sent[q] > 0
               PROVE  /\ sent'[q] <= 1
                      /\ (\E r \in Runs : Free(r) /\ ~ Free(r)' /\ job'[r].schedule = q) => TriggerRun(q)
    BY DEF SubmittedOnce
  <2>1. sent'[q] <= 1
    BY <1>3 DEF Inv, SentIsPast
  <2>2. (\E r \in Runs : Free(r) /\ ~ Free(r)' /\ job'[r].schedule = q) => q = s
    BY DispatchKeeps
  <2> QED
    BY <2>1, <2>2
<1> QED
  BY <1>2, <1>4, <1>5 DEF StepIsSound

(* Steps that set a row and submit nothing.                                *)
LEMMA QuietStep ==
    ASSUME Inv, NEW s \in Schedules, NEW row, SetRow(s, row), RowInv(row), NextIsLater(row),
           UNCHANGED <<now, engine, job, crashes>>, todo' = todo \ {s},
           sched[s].status \in {"completed", "error"} => row.status \in {"completed", "error", "absent"}
    PROVE  StepIsSound
<1>1. JobsInv'
  BY DEF Inv, JobsInv, ForbidExcludes
<1>2. Inv'
  BY <1>1, SetRowKeepsInv
<1>3. sent' = [sent EXCEPT ![s] = 0] /\ sched' = [sched EXCEPT ![s] = row]
  BY SetRowResets DEF SetRow
<1>4. StaysFinished
  BY <1>3 DEF StaysFinished, Inv
<1>5. SubmittedOnce
  BY <1>3 DEF SubmittedOnce, Inv, SentIsPast, Free
<1> QED
  BY <1>2, <1>4, <1>5 DEF StepIsSound

(* The operator's steps.                                                   *)
LEMMA OperatorStep ==
    ASSUME Inv, NEW s \in Schedules,
           CreateSchedule(s) \/ PauseSchedule(s) \/ ResumeSchedule(s) \/ DeleteSchedule(s) \/ TriggerRun(s)
    PROVE  StepIsSound
<1>0. now \in Nat /\ RowInv(sched[s]) /\ sched[s] \in Rows /\ sched[s].type \in Types
  BY DEF Inv, RowInv, Rows
<1>1. CASE CreateSchedule(s)
  <2>1. PICK type \in Types, policy \in {"forbid", "allow"},
             missed \in {"skip", "run-once"}, limit \in Limits :
          /\ NextRun(type, now) # Unreachable
          /\ SetRow(s, [status |-> "active", type |-> type, policy |-> policy, missed |-> missed,
                        next |-> NextRun(type, now), total |-> 0, limit |-> limit])
    BY <1>1 DEF CreateSchedule, Types
  <2> DEFINE n == NextRun(type, now)
             row == [status |-> "active", type |-> type, policy |-> policy, missed |-> missed,
                     next |-> n, total |-> 0, limit |-> limit]
  <2>2. n \in Nat \cup {Never} /\ (n = Never \/ n > now) /\ (type # "once" => n # Never)
    BY <1>0, <2>1, NextRunIsLater
  <2>3. SetRow(s, row) /\ UNCHANGED <<now, engine, job, crashes>> /\ todo = {} /\ todo' = todo
        /\ sched[s].status = "absent"
    BY <1>1, <2>1 DEF CreateSchedule, Idle
  <2> HIDE DEF n
  <2>4. row \in Rows
    BY <2>2 DEF Rows
  <2>5. row.next = n /\ row.type = type /\ row.total = 0
    OBVIOUS
  <2> HIDE DEF row
  <2>6. RowInv(row) /\ NextIsLater(row)
    BY <2>2, <2>4, <2>5 DEF RowInv, NextIsLater
  <2> QED
    BY <2>3, <2>6, QuietStep
<1>2. CASE PauseSchedule(s)
  <2> DEFINE row == [sched[s] EXCEPT !.status = "paused"]
  <2>1. sched' = [sched EXCEPT ![s] = row] /\ UNCHANGED <<now, engine, todo, job, sent, crashes>>
        /\ todo = {} /\ sched[s].status = "active"
    BY <1>2 DEF PauseSchedule, Idle
  <2>2. /\ row \in Rows /\ row.status = "paused" /\ row.next = sched[s].next
        /\ row.missed = sched[s].missed /\ row.total = sched[s].total /\ row.limit = sched[s].limit
    BY <1>0 DEF Rows
  <2> HIDE DEF row
  <2>3. /\ sched' \in [Schedules -> Rows] /\ sched'[s] = row
        /\ \A q \in Schedules : q # s => sched'[q] = sched[q]
    BY <2>1, <2>2 DEF Inv
  <2>4. RowInv(row)
    BY <1>0, <2>1, <2>2 DEF RowInv
  <2>5. ASSUME NEW q \in Schedules PROVE RowInv(sched'[q]) /\ SentIsPast(q)'
    <3>1. CASE q = s
      BY <2>1, <2>2, <2>3, <2>4, <3>1 DEF Inv, SentIsPast, IsDue
    <3>2. CASE q # s
      BY <2>1, <2>3, <3>2 DEF Inv, SentIsPast, IsDue
    <3> QED
      BY <3>1, <3>2
  <2>6. Inv'
    BY <2>1, <2>3, <2>5 DEF Inv, JobsInv, ForbidExcludes, StartIsDue
  <2>7. StaysFinished /\ SubmittedOnce
    BY <2>1, <2>3 DEF StaysFinished, SubmittedOnce, Inv, SentIsPast, Free
  <2> QED
    BY <2>6, <2>7 DEF StepIsSound
<1>3. CASE ResumeSchedule(s)
  <2> DEFINE n == NextRun(sched[s].type, now)
             row == [sched[s] EXCEPT !.status = "active", !.next = n]
  <2>1. /\ SetRow(s, row) /\ UNCHANGED <<now, engine, job, crashes>> /\ todo = {} /\ todo' = todo
        /\ sched[s].status = "paused" /\ n # Unreachable
    BY <1>3 DEF ResumeSchedule, Idle
  <2>2. n \in Nat \cup {Never} /\ (n = Never \/ n > now) /\ (sched[s].type # "once" => n # Never)
    BY <1>0, <2>1, NextRunIsLater
  <2> HIDE DEF n
  <2>3. /\ row \in Rows /\ row.next = n /\ row.type = sched[s].type
        /\ row.total = sched[s].total /\ row.limit = sched[s].limit
    BY <1>0, <2>2 DEF Rows
  <2> HIDE DEF row
  <2>4. RowInv(row) /\ NextIsLater(row)
    BY <1>0, <2>1, <2>2, <2>3 DEF RowInv, NextIsLater
  <2> QED
    BY <2>1, <2>4, QuietStep
<1>4. CASE DeleteSchedule(s)
  <2>1. SetRow(s, NoSchedule) /\ UNCHANGED <<now, engine, job, crashes>> /\ todo = {} /\ todo' = todo
    BY <1>4 DEF DeleteSchedule, Idle
  <2>2. NoSchedule \in Rows /\ NoSchedule.status = "absent" /\ NoSchedule.next = Never
    BY DEF NoSchedule, Rows, Types
  <2>3. RowInv(NoSchedule) /\ NextIsLater(NoSchedule)
    BY <2>2 DEF RowInv, NextIsLater
  <2> QED
    BY <2>1, <2>2, <2>3, QuietStep
<1>5. CASE TriggerRun(s)
  BY <1>5, DispatchStep DEF TriggerRun, Idle
<1> QED
  BY <1>1, <1>2, <1>3, <1>4, <1>5

(* The engine's steps.                                                     *)
LEMMA EngineStep ==
    ASSUME Inv, NEW s \in Schedules, EvaluateDueSchedules(s) \/ ReconcileOnStartup(s)
    PROVE  StepIsSound
<1>1. CASE EvaluateDueSchedules(s)
  <2>1. /\ DispatchScheduleRun(s) /\ UNCHANGED <<now, engine, crashes>> /\ todo = {} /\ todo' = todo
        /\ engine = "running" /\ IsDue(s)
    BY <1>1 DEF EvaluateDueSchedules
  <2>2. ~(sched[s].missed = "skip" /\ sent[s] > 0)
    BY <2>1 DEF Inv, SentIsPast
  <2> QED
    BY <2>1, <2>2, DispatchStep
<1>2. CASE ReconcileOnStartup(s)
  <2>1. UNCHANGED <<now, engine, crashes>> /\ todo' = todo \ {s}
    BY <1>2 DEF ReconcileOnStartup
  <2>2. CASE sched[s].missed = "run-once"
    BY <1>2, <2>1, <2>2, DispatchStep DEF ReconcileOnStartup
  <2>3. CASE sched[s].missed # "run-once"
    <3>1. SetRow(s, Advanced(sched[s])) /\ job' = job
      BY <1>2, <2>3 DEF ReconcileOnStartup
    <3>2. /\ RowInv(Advanced(sched[s])) /\ NextIsLater(Advanced(sched[s]))
          /\ Advanced(sched[s]).status \in {sched[s].status, "error"}
      BY AdvancedKeepsRow DEF Inv
    <3> QED
      BY <2>1, <3>1, <3>2, QuietStep
  <2> QED
    BY <2>2, <2>3
<1> QED
  BY <1>1, <1>2

(* The ends of jobs.                                                       *)
LEMMA JobStep ==
    ASSUME Inv, NEW r \in Runs, JobEnds(r) \/ CancelJob(r) PROVE StepIsSound
<1>1. UNCHANGED <<now, engine, todo, sched, sent, crashes>>
  BY DEF JobEnds, CancelJob
<1>2. /\ job' \in [Runs -> JobRows] /\ job'[r].state # "active"
      /\ job[r].state = "none" => job'[r].state = "none"
      /\ \A q \in Runs : q # r => job'[q] = job[q]
  <2>0. job \in [Runs -> JobRows] /\ job[r] \in JobRows
    BY DEF Inv, JobsInv
  <2>1. CASE JobEnds(r)
    <3>1. NoJob \in JobRows /\ NoJob.state = "none"
      BY DEF NoJob, JobRows
    <3> QED
      BY <2>0, <2>1, <3>1 DEF JobEnds
  <2>2. CASE CancelJob(r)
    <3> DEFINE new == [job[r] EXCEPT !.state = "cancelled"]
    <3>1. new \in JobRows /\ new.state = "cancelled"
      BY <2>0 DEF JobRows
    <3>2. job' = [job EXCEPT ![r] = new] /\ job[r].state = "active"
      BY <2>2 DEF CancelJob
    <3> HIDE DEF new
    <3> QED
      BY <2>0, <3>1, <3>2
  <2> QED
    BY <2>1, <2>2
<1>3. JobsInv'
  BY <1>2 DEF Inv, JobsInv, ForbidExcludes
<1>4. Inv'
  BY <1>1, <1>3 DEF Inv, StartIsDue, SentIsPast, IsDue
<1>5. \A q \in Runs : Free(q) => Free(q)'
  BY <1>2 DEF Free
<1>6. StaysFinished /\ SubmittedOnce
  BY <1>1, <1>5 DEF StaysFinished, SubmittedOnce, Inv, SentIsPast
<1> QED
  BY <1>4, <1>6 DEF StepIsSound

(* The process ends, with no dispatch or within one.                       *)
LEMMA CrashStep ==
    ASSUME Inv, Crash \/ \E s \in Schedules : CrashInDispatch(s) PROVE StepIsSound
<1>1. ProcessEnds
  BY DEF Crash, CrashInDispatch
<1>2. /\ UNCHANGED <<now, sched>> /\ engine' = "down" /\ todo' = {} /\ crashes' \in 0 .. MaxCrashes
      /\ job' = [r \in Runs |-> NoJob]
  BY <1>1, SchedulesAssumption DEF ProcessEnds, Inv
<1>3. /\ sent' \in [Schedules -> 0 .. 2]
      /\ \A q \in Schedules :
           \/ sent'[q] = sent[q]
           \/ IsDue(q) /\ (sched[q].missed = "skip" => sent[q] = 0 /\ sent'[q] = 1)
  <2>1. CASE Crash
    BY <2>1 DEF Crash, Inv
  <2>2. ASSUME NEW s \in Schedules, CrashInDispatch(s)
        PROVE  /\ sent' \in [Schedules -> 0 .. 2]
               /\ \A q \in Schedules :
                    \/ sent'[q] = sent[q]
                    \/ IsDue(q) /\ (sched[q].missed = "skip" => sent[q] = 0 /\ sent'[q] = 1)
    <3>1. /\ IsDue(s)
          /\ (engine = "running" /\ todo = {}) \/ sched[s].missed = "run-once"
      BY <2>2 DEF CrashInDispatch, Inv, StartIsDue
    <3>2. sched[s].missed = "skip" => sent[s] = 0
      BY <3>1 DEF Inv, SentIsPast
    <3>3. sent \in [Schedules -> 0 .. 2] /\ sent' = [sent EXCEPT ![s] = IF @ < 2 THEN @ + 1 ELSE @]
      BY <2>2 DEF CrashInDispatch, Inv
    <3> QED
      BY <3>1, <3>2, <3>3
  <2> QED
    BY <2>1, <2>2
<1>4. JobsInv'
  BY <1>2 DEF NoJob, JobRows, JobsInv, ForbidExcludes
<1>5. ASSUME NEW q \in Schedules PROVE SentIsPast(q)'
  BY <1>2, <1>3 DEF Inv, SentIsPast, IsDue
<1>6. Inv'
  BY <1>2, <1>3, <1>4, <1>5 DEF Inv, StartIsDue
<1>7. \A r \in Runs : Free(r)'
  BY <1>2 DEF Free, NoJob
<1>8. StaysFinished
  BY <1>2 DEF StaysFinished
<1>9. SubmittedOnce
  BY <1>3, <1>7 DEF SubmittedOnce, Inv, SentIsPast
<1> QED
  BY <1>6, <1>8, <1>9 DEF StepIsSound

(* The process and the clock.                                              *)
LEMMA ClockStep ==
    ASSUME Inv, CreateEngine \/ Start \/ Stop \/ Tick PROVE StepIsSound
<1>1. UNCHANGED <<sched, job, sent, crashes>>
  BY DEF CreateEngine, Start, Stop, Tick
<1>2. now' \in 0 .. MaxTime /\ now' >= now /\ now \in Nat
  BY SchedulesAssumption DEF CreateEngine, Start, Stop, Tick, Inv
<1>3. StartIsDue' /\ \A q \in Schedules : SentIsPast(q)'
  <2>0. \A q \in Schedules : sched[q].next \in Nat \cup {Never}
    BY DEF Inv, Rows
  <2>1. CASE CreateEngine
    BY <2>1 DEF CreateEngine, Inv, StartIsDue, SentIsPast, IsDue
  <2>2. CASE Start
    BY <2>2 DEF Start, Inv, StartIsDue, SentIsPast, IsDue
  <2>3. CASE Stop
    BY <2>3 DEF Stop, Inv, StartIsDue, SentIsPast, IsDue
  <2>4. CASE Tick
    <3>1. /\ UNCHANGED <<engine, todo, sched, job, sent>> /\ now' = now + 1
      BY <2>4 DEF Tick
    <3>2. StartIsDue'
      <4>1. \A q \in todo : sched[q].next <= now + 1 /\ q \in Schedules
        BY <1>2, <2>0 DEF Inv, StartIsDue, IsDue, Never
      <4> QED
        BY <3>1, <4>1 DEF Inv, StartIsDue, IsDue
    <3>3. ASSUME NEW q \in Schedules, sent[q] > 0 PROVE SentIsPast(q)'
      <4>1. sched[q].next # Never /\ sched[q].next <= now /\ sched[q].next <= now + 1
        BY <1>2, <2>0, <3>3 DEF Inv, SentIsPast
      <4> QED
        BY <3>1, <3>3, <4>1 DEF Inv, SentIsPast, IsDue
    <3> QED
      BY <3>1, <3>2, <3>3 DEF SentIsPast
  <2> QED
    BY <2>1, <2>2, <2>3, <2>4
<1>4. Inv'
  BY <1>1, <1>2, <1>3 DEF Inv, JobsInv, ForbidExcludes
<1>5. StaysFinished /\ SubmittedOnce
  BY <1>1 DEF StaysFinished, SubmittedOnce, Inv, SentIsPast, Free
<1> QED
  BY <1>4, <1>5 DEF StepIsSound

-----------------------------------------------------------------------------
(* Theorems *)

LEMMA InvInit == Init => Inv
<1> SUFFICES ASSUME Init PROVE Inv
  OBVIOUS
<1>1. NoSchedule \in Rows /\ NoSchedule.status = "absent"
  BY DEF NoSchedule, Rows, Types
<1>2. NoJob \in JobRows /\ NoJob.state = "none"
  BY DEF NoJob, JobRows
<1>3. RowInv(NoSchedule)
  BY <1>1 DEF RowInv
<1> QED
  BY <1>1, <1>2, <1>3, SchedulesAssumption
     DEF Init, Inv, JobsInv, ForbidExcludes, StartIsDue, SentIsPast

LEMMA InvStep == Inv /\ [Next]_vars => Inv' /\ [StaysFinished /\ SubmittedOnce]_vars
<1> SUFFICES ASSUME Inv, [Next]_vars PROVE Inv' /\ (vars' = vars \/ (StaysFinished /\ SubmittedOnce))
  OBVIOUS
<1>1. CASE Next
  BY <1>1, OperatorStep, EngineStep, JobStep, CrashStep, ClockStep DEF Next, StepIsSound
<1>2. CASE UNCHANGED vars
  BY <1>2 DEF vars, Inv, JobsInv, ForbidExcludes, StartIsDue, SentIsPast, IsDue
<1> QED
  BY <1>1, <1>2

LEMMA InvCorrect == Spec => []Inv
  BY InvInit, InvStep, PTL DEF Spec

(* An active schedule has runs left and a next time, whatever evaluations, *)
(* triggers, resumptions, ends of jobs and crashes wrote its row.          *)
THEOREM ActiveIsPlannedCorrect == Spec => []ActiveIsPlanned
<1>1. Inv => ActiveIsPlanned
  <2> SUFFICES ASSUME Inv PROVE ActiveIsPlanned
    OBVIOUS
  <2>1. TypeOK
    BY DEF Inv, JobsInv, StartIsDue, TypeOK, Rows, Types, JobRows
  <2> QED
    BY <2>1 DEF Inv, RowInv, ActiveIsPlanned, LiveBelowLimit, ActiveIsScheduled
<1> QED
  BY <1>1, InvCorrect, PTL

(* Under forbid the runs of a schedule do not overlap.                     *)
THEOREM ForbidExcludesCorrect == Spec => []ForbidExcludes
<1>1. Inv => ForbidExcludes
  BY DEF Inv, JobsInv
<1> QED
  BY <1>1, InvCorrect, PTL

(* A schedule that completed or failed stays so until it is deleted.       *)
THEOREM FinishedStaysFinishedCorrect == Spec => FinishedStaysFinished
<1>1. Inv /\ [Next]_vars =>
        [\A s \in Schedules :
           sched[s].status \in {"completed", "error"} =>
               sched'[s].status \in {"completed", "error", "absent"}]_vars
  BY InvStep DEF StaysFinished
<1> QED
  BY <1>1, InvCorrect, PTL DEF Spec, FinishedStaysFinished

(* Under skip an occurrence is submitted once at most, although a dispatch *)
(* and the advance of its schedule are no transaction.                     *)
THEOREM SkipAtMostOnceCorrect == Spec => SkipAtMostOnce
<1>1. Inv /\ [Next]_vars =>
        [\A s \in Schedules :
          sched[s].missed = "skip" /\ sent[s] > 0 =>
              /\ sent'[s] <= 1
              /\ (\E r \in Runs : Free(r) /\ ~ Free(r)' /\ job'[r].schedule = s) => TriggerRun(s)]_vars
  BY InvStep DEF SubmittedOnce
<1> QED
  BY <1>1, InvCorrect, PTL DEF Spec, SkipAtMostOnce
=============================================================================
