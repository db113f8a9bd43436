--------------------------- MODULE FleetSchedules ---------------------------
(***************************************************************************)
(* The schedule engine (src/registry/schedule-engine.mjs) over the job     *)
(* scheduler: schedules in SQLite, jobs in the memory of the Hub process,  *)
(* an evaluation timer, the reconciliation at its start, manual triggers,  *)
(* cancelled jobs and crashes of the Hub, also in the middle of a          *)
(* dispatch, whose three writes are no transaction.                        *)
(*                                                                         *)
(* A dispatch never suspends: apart from a crash nothing happens within    *)
(* it.  A job is what JobLifecycle says of it: it ends at some time, a     *)
(* cancelled one has its final status at once and is reported when its     *)
(* dispatches have ended.  The rows of fleet_schedule_runs are a log that  *)
(* the engine does not read; they are left out.                            *)
(***************************************************************************)
EXTENDS Integers, FiniteSets

CONSTANTS
    Schedules,      \* schedule identifiers
    Runs,           \* jobs of schedules that are in memory at the same time
    Interval,       \* intervalMs
    CronTimes,      \* occurrences of a cron expression
    CronWindow,     \* how far getNextCronOccurrence searches
    Limits,         \* values of max_runs, 0 for none
    MaxTotal,       \* bound of total_runs for manual triggers
    MaxTime,        \* bound of the clock
    MaxCrashes      \* bound of crashes

Never == -1         \* next_run_at IS NULL
Unreachable == -2   \* getNextCronOccurrence throws cron-unreachable

ASSUME SchedulesAssumption ==
    /\ Interval \in Nat \ {0} /\ CronTimes \subseteq Nat /\ CronWindow \in Nat
    /\ Limits \subseteq Nat /\ MaxTotal \in Nat /\ MaxTime \in Nat /\ MaxCrashes \in Nat

VARIABLES
    now,        \* the clock
    engine,     \* the Hub process and its engine
    todo,       \* schedules that reconcileOnStartup has still to go through
    sched,      \* fleet_schedules
    job,        \* jobs of schedules in memory
    sent,       \* auxiliary: jobs submitted for the occurrence in next_run_at
    crashes     \* crashes so far

vars == <<now, engine, todo, sched, job, sent, crashes>>

NoSchedule == [status |-> "absent", type |-> "once", policy |-> "allow", missed |-> "skip",
               next |-> Never, total |-> 0, limit |-> 0]
NoJob == [state |-> "none", schedule |-> "none", policy |-> "allow"]

TypeOK ==
    /\ now \in 0 .. MaxTime /\ crashes \in 0 .. MaxCrashes
    /\ engine \in {"down", "created", "running"}
    /\ todo \subseteq Schedules
    /\ sched \in [Schedules -> [status : {"absent", "active", "paused", "completed", "error"},
                                type : {"cron", "interval", "once"}, policy : {"forbid", "allow"},
                                missed : {"skip", "run-once"}, next : Nat \cup {Never},
                                total : Nat, limit : Limits \cup {0}]]
    /\ \A r \in Runs :
          /\ job[r].state \in {"none", "active", "cancelled"}
          /\ job[r].schedule \in Schedules \cup {"none"}
          /\ job[r].policy \in {"forbid", "allow"}
    /\ sent \in [Schedules -> 0 .. 2]

Init ==
    /\ now = 0 /\ crashes = 0
    /\ engine = "created" /\ todo = {}
    /\ sched = [s \in Schedules |-> NoSchedule]
    /\ job = [r \in Runs |-> NoJob]
    /\ sent = [s \in Schedules |-> 0]

-----------------------------------------------------------------------------

(* calculateNextRunAt.                                                     *)
NextRun(type, t) ==
    CASE type = "interval" -> t + Interval
      [] type = "once" -> Never
      [] type = "cron" ->
            LET found == {c \in CronTimes : t < c /\ c <= t + CronWindow}
            IN  IF found = {} THEN Unreachable ELSE CHOOSE c \in found : \A d \in found : c <= d

IsDue(s) == sched[s].status = "active" /\ sched[s].next # Never /\ sched[s].next <= now

(* Mutant: only the first job is looked at. *)
HasActiveJobOnce(s) == \A r \in Runs : job[r].state = "active" /\ job[r].schedule = s

HasActiveJob(s) == \E r \in Runs : job[r].state = "active" /\ job[r].schedule = s

Free(r) == job[r].state = "none"

(* The engine is not in the middle of its start.                           *)
Idle == engine # "down" /\ todo = {}

(* Mutant: the failure to find a next run is not handled. *)
AdvancedUnchecked(row) == [row EXCEPT !.next = NextRun(row.type, now)]

(* The schedule with a new next_run_at; it is in error if there is none.   *)
Advanced(row) ==
    LET n == NextRun(row.type, now)
    IN  IF n = Unreachable THEN [row EXCEPT !.status = "error", !.next = Never]
        ELSE [row EXCEPT !.next = n]

(* Mutant: the limit is compared before the run is counted. *)
CountedLate(row) ==
    LET total == row.total + 1
    IN  IF row.limit > 0 /\ row.total >= row.limit
        THEN [row EXCEPT !.total = total, !.status = "completed", !.next = Never]
        ELSE [Advanced(row) EXCEPT !.total = total]

(* A run is counted, and completes a schedule that reaches its limit.      *)
Counted(row) ==
    LET total == row.total + 1
    IN  IF row.limit > 0 /\ total >= row.limit
        THEN [row EXCEPT !.total = total, !.status = "completed", !.next = Never]
        ELSE [Advanced(row) EXCEPT !.total = total]

SetRow(s, row) ==
    /\ sched' = [sched EXCEPT ![s] = row]
    /\ sent' = [sent EXCEPT ![s] = IF row.next = sched[s].next THEN @ ELSE 0]

(* Mutant: a skipped run leaves next_run_at to the next evaluation. *)
DispatchScheduleRunSkipping(s) ==
    IF sched[s].policy = "forbid" /\ HasActiveJob(s)
    THEN SetRow(s, [sched[s] EXCEPT !.next = Never]) /\ UNCHANGED job
    ELSE /\ \/ UNCHANGED job
            \/ \E r \in Runs :
                  /\ Free(r)
                  /\ job' = [job EXCEPT ![r] = [state |-> "active", schedule |-> s, policy |-> sched[s].policy]]
         /\ SetRow(s, Counted(sched[s]))

(* dispatchScheduleRun: skipped under forbid while a job is active; else a *)
(* job is submitted, or the submission is refused and recorded as failed.  *)
DispatchScheduleRun(s) ==
    IF sched[s].policy = "forbid" /\ HasActiveJob(s)
    THEN SetRow(s, Advanced(sched[s])) /\ UNCHANGED job
    ELSE /\ \/ UNCHANGED job
            \/ \E r \in Runs :
                  /\ Free(r)
                  /\ job' = [job EXCEPT ![r] = [state |-> "active", schedule |-> s, policy |-> sched[s].policy]]
         /\ SetRow(s, Counted(sched[s]))

(* The Hub process is gone, and its jobs with it.                          *)
ProcessEnds ==
    /\ crashes < MaxCrashes
    /\ crashes' = crashes + 1
    /\ engine' = "down" /\ todo' = {}
    /\ job' = [r \in Runs |-> NoJob]
    /\ UNCHANGED <<now, sched>>

(* A crash within dispatchScheduleRun: the job went out, the schedule is   *)
(* not updated.                                                            *)
CrashInDispatch(s) ==
    /\ ~ (sched[s].policy = "forbid" /\ HasActiveJob(s))
    /\ \/ engine = "running" /\ todo = {} /\ IsDue(s)
       \/ s \in todo /\ sched[s].missed = "run-once"
    /\ ProcessEnds
    /\ sent' = [sent EXCEPT ![s] = IF @ < 2 THEN @ + 1 ELSE @]

Crash == engine # "down" /\ ProcessEnds /\ UNCHANGED sent

(* The Hub starts: the server creates the engine.                          *)
CreateEngine ==
    /\ engine = "down"
    /\ engine' = "created"
    /\ UNCHANGED <<now, todo, sched, job, sent, crashes>>

(* Mutant: no reconciliation. *)
StartAtOnce ==
    /\ engine = "created"
    /\ engine' = "running" /\ todo' = {}
    /\ UNCHANGED <<now, sched, job, sent, crashes>>

(* start(): the schedules that are due are reconciled before the timer.    *)
Start ==
    /\ engine = "created"
    /\ engine' = "running"
    /\ todo' = {s \in Schedules : IsDue(s)}
    /\ UNCHANGED <<now, sched, job, sent, crashes>>

Stop ==
    /\ engine = "running" /\ todo = {}
    /\ engine' = "created"
    /\ UNCHANGED <<now, todo, sched, job, sent, crashes>>

(* reconcileOnStartup for one schedule.                                    *)
ReconcileOnStartup(s) ==
    /\ s \in todo
    /\ todo' = todo \ {s}
    /\ IF sched[s].missed = "run-once" THEN DispatchScheduleRun(s)
       ELSE SetRow(s, Advanced(sched[s])) /\ UNCHANGED job
    /\ UNCHANGED <<now, engine, crashes>>

(* Mutant: an evaluation that finds no next run is given up. *)
EvaluateDueSchedulesThrowing(s) ==
    /\ engine = "running" /\ todo = {}
    /\ IsDue(s) /\ NextRun(sched[s].type, now) # Unreachable
    /\ DispatchScheduleRun(s)
    /\ UNCHANGED <<now, engine, todo, crashes>>

(* evaluateDueSchedules for one schedule.                                  *)
EvaluateDueSchedules(s) ==
    /\ engine = "running" /\ todo = {}
    /\ IsDue(s)
    /\ DispatchScheduleRun(s)
    /\ UNCHANGED <<now, engine, todo, crashes>>

(* The operator's trigger, in whatever state the schedule is.              *)
TriggerRun(s) ==
    /\ Idle
    /\ sched[s].status # "absent" /\ sched[s].total < MaxTotal
    /\ DispatchScheduleRun(s)
    /\ UNCHANGED <<now, engine, todo, crashes>>

CreateSchedule(s) ==
    /\ Idle
    /\ sched[s].status = "absent"
    /\ \E type \in {"cron", "interval", "once"}, policy \in {"forbid", "allow"},
          missed \in {"skip", "run-once"}, limit \in Limits :
          /\ NextRun(type, now) # Unreachable
          /\ SetRow(s, [status |-> "active", type |-> type, policy |-> policy, missed |-> missed,
                        next |-> NextRun(type, now), total |-> 0, limit |-> limit])
    /\ UNCHANGED <<now, engine, todo, job, crashes>>

PauseSchedule(s) ==
    /\ Idle
    /\ sched[s].status = "active"
    /\ sched' = [sched EXCEPT ![s].status = "paused"]
    /\ UNCHANGED <<now, engine, todo, job, sent, crashes>>

(* Mutant: a schedule in error can be resumed, too. *)
ResumeScheduleInError(s) ==
    /\ Idle
    /\ sched[s].status \in {"paused", "error"}
    /\ NextRun(sched[s].type, now) # Unreachable
    /\ SetRow(s, [sched[s] EXCEPT !.status = "active", !.next = NextRun(sched[s].type, now)])
    /\ UNCHANGED <<now, engine, todo, job, crashes>>

(* resumeSchedule; it throws if there is no next run.                      *)
ResumeSchedule(s) ==
    /\ Idle
    /\ sched[s].status = "paused"
    /\ NextRun(sched[s].type, now) # Unreachable
    /\ SetRow(s, [sched[s] EXCEPT !.status = "active", !.next = NextRun(sched[s].type, now)])
    /\ UNCHANGED <<now, engine, todo, job, crashes>>

(* The jobs of a deleted schedule go on; its identifier may be used again. *)
DeleteSchedule(s) ==
    /\ Idle
    /\ sched[s].status # "absent"
    /\ SetRow(s, NoSchedule)
    /\ UNCHANGED <<now, engine, todo, job, crashes>>

(* A job has ended and its run row gets the outcome.                       *)
JobEnds(r) ==
    /\ Idle
    /\ ~ Free(r)
    /\ job' = [job EXCEPT ![r] = NoJob]
    /\ UNCHANGED <<now, engine, todo, sched, sent, crashes>>

(* cancelJob of the job scheduler.                                         *)
CancelJob(r) ==
    /\ Idle
    /\ job[r].state = "active"
    /\ job' = [job EXCEPT ![r].state = "cancelled"]
    /\ UNCHANGED <<now, engine, todo, sched, sent, crashes>>

Tick ==
    /\ now < MaxTime
    /\ now' = now + 1
    /\ UNCHANGED <<engine, todo, sched, job, sent, crashes>>

Next ==
    \/ \E s \in Schedules :
          \/ CreateSchedule(s) \/ PauseSchedule(s) \/ ResumeSchedule(s) \/ DeleteSchedule(s)
          \/ TriggerRun(s) \/ EvaluateDueSchedules(s) \/ ReconcileOnStartup(s) \/ CrashInDispatch(s)
    \/ \E r \in Runs : JobEnds(r) \/ CancelJob(r)
    \/ CreateEngine \/ Start \/ Stop \/ Crash \/ Tick

Spec == Init /\ [][Next]_vars

(* The evaluation timer runs while the engine does, a start goes through,  *)
(* jobs end (JobLifecycle) and a supervisor restarts the process.  Nothing *)
(* calls start().                                                          *)
FairSpec ==
    /\ Spec
    /\ \A s \in Schedules : WF_vars(EvaluateDueSchedules(s)) /\ WF_vars(ReconcileOnStartup(s))
    /\ \A r \in Runs : WF_vars(JobEnds(r))
    /\ WF_vars(CreateEngine)

-----------------------------------------------------------------------------
(* Properties *)

(* RFC-0015 D3: under forbid runs of a schedule do not overlap, whichever  *)
(* mix of evaluations, manual triggers and catch-ups submits them, and     *)
(* also when a schedule is deleted and its identifier used again.          *)
ForbidExcludes ==
    \A q, r \in Runs :
        (/\ job[q].state = "active" /\ job[r].state = "active"
         /\ job[q].schedule = job[r].schedule
         /\ job[q].policy = "forbid" /\ job[r].policy = "forbid") => q = r

(* A schedule that can still run has not used up max_runs, manual triggers *)
(* in the paused state included.                                           *)
LiveBelowLimit ==
    \A s \in Schedules :
        sched[s].status \in {"active", "paused"} /\ sched[s].limit > 0 => sched[s].total < sched[s].limit

(* No path through skips, failures, pauses, restarts and errors leaves an  *)
(* active recurring schedule without a next run, which would silence it    *)
(* for ever.                                                               *)
ActiveIsScheduled ==
    \A s \in Schedules :
        sched[s].status = "active" /\ sched[s].type # "once" => sched[s].next # Never

(* RFC-0015: schedules "transition strictly among" their states: one that  *)
(* has completed or failed stays so until it is deleted, also when it is   *)
(* triggered by hand.                                                      *)
FinishedStaysFinished ==
    [][\A s \in Schedules :
          sched[s].status \in {"completed", "error"} =>
              sched'[s].status \in {"completed", "error", "absent"}]_vars

(* RFC-0015 D4: with missed_run_policy skip no occurrence is executed      *)
(* twice, even if the Hub crashes within its dispatch and restarts at      *)
(* once; a manual trigger is no occurrence.                                *)
SkipAtMostOnce ==
    [][\A s \in Schedules :
          sched[s].missed = "skip" /\ sent[s] > 0 =>
              /\ sent'[s] <= 1
              /\ (\E r \in Runs : Free(r) /\ ~ Free(r)' /\ job'[r].schedule = s) => TriggerRun(s)]_vars

(* While the engine runs every due schedule is served.                     *)
DueIsServed ==
    \A s \in Schedules : <>[](engine = "running") => (IsDue(s) ~> ~ IsDue(s))

(* The invariant of the schedule rows, which evaluation, triggers, resume, *)
(* crashes and the ends of jobs all write: an active schedule has runs     *)
(* left and a next time.                                                   *)
ActiveIsPlanned == TypeOK /\ LiveBelowLimit /\ ActiveIsScheduled
=============================================================================
