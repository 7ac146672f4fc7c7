--------------------------- MODULE MarketScheduler ---------------------------
(***************************************************************************)
(* Markets made by a schedule, beside the ones officers make (apps/worker: *)
(* generateScheduledMarkets, materialiseScheduledMarket,                   *)
(* markScheduleFailure), composed with MarketLifecycle.                    *)
(*                                                                         *)
(* A worker claims the occurrence that is due in one transaction, which    *)
(* also moves the schedule on to the next one; it inserts the market, its  *)
(* rules, sources and outcomes in a second transaction, and records a      *)
(* failure in a third.  Workers die between any two of them, and a lock of *)
(* ten minutes is taken over from a worker that may only be slow.          *)
(*                                                                         *)
(* Abstracted: the definition a template carries, times, audit rows.       *)
(***************************************************************************)
EXTENDS MarketLifecycle, Integers

CONSTANTS
  Workers,
  Occurrences   \* how many occurrences of the schedule are looked at

ASSUME SchedulerAssumption == Occurrences \in Nat \ {0} /\ None \notin Workers

VARIABLES
  due,       \* occurrences whose time has come
  schedule,  \* market_template_schedules: next occurrence, lock
  runs,      \* market_schedule_runs
  workers    \* the occurrence each worker is busy with

schedulerVars == <<due, schedule, runs, workers>>
allVars == <<vars, schedulerVars>>

Idle == [phase |-> "idle", run |-> 0]

SchedulerInit ==
  /\ due = 0
  /\ schedule = [next |-> 1, lockedBy |-> None, stale |-> FALSE]
  /\ runs = [o \in 1..Occurrences |-> "none"]
  /\ workers = [w \in Workers |-> Idle]

unlocked == [schedule EXCEPT !.lockedBy = None, !.stale = FALSE]
-----------------------------------------------------------------------------
\* next_run_at <= clock_timestamp()
passRunTime ==
  /\ due < Occurrences
  /\ due' = due + 1
  /\ UNCHANGED <<vars, schedule, runs, workers>>

\* locked_at < clock_timestamp() - interval '10 minutes'
passLockTime ==
  /\ schedule.lockedBy # None
  /\ ~schedule.stale
  /\ schedule' = [schedule EXCEPT !.stale = TRUE]
  /\ UNCHANGED <<vars, due, runs, workers>>

\* Mutant: only an unlocked schedule is claimed.
claimUnlocked(w) ==
  LET o == schedule.next IN
  /\ workers[w] = Idle
  /\ o <= due
  /\ schedule.lockedBy = None
  /\ runs' = [runs EXCEPT ![o] = "processing"]
  /\ schedule' = [next |-> o + 1, lockedBy |-> w, stale |-> FALSE]
  /\ workers' = [workers EXCEPT ![w] = [phase |-> "claimed", run |-> o]]
  /\ UNCHANGED <<vars, due>>

\* Mutant: a run that was left processing is taken over with the lock.
claimAgain(w) ==
  LET left == {o \in 1..Occurrences : runs[o] = "processing"}
      o == IF left = {} THEN schedule.next ELSE CHOOSE p \in left : TRUE IN
  /\ workers[w] = Idle
  /\ o <= due
  /\ schedule.lockedBy = None \/ schedule.stale
  /\ runs' = [runs EXCEPT ![o] = "processing"]
  /\ schedule' = [next |-> IF left = {} THEN o + 1 ELSE schedule.next,
                  lockedBy |-> w, stale |-> FALSE]
  /\ workers' = [workers EXCEPT ![w] = [phase |-> "claimed", run |-> o]]
  /\ UNCHANGED <<vars, due>>

\* The run is inserted and the schedule moves on, whatever becomes of the run.
claim(w) ==
  LET o == schedule.next IN
  /\ workers[w] = Idle
  /\ o <= due
  /\ schedule.lockedBy = None \/ schedule.stale
  /\ runs[o] = "none"
  /\ runs' = [runs EXCEPT ![o] = "processing"]
  /\ schedule' = [next |-> o + 1, lockedBy |-> w, stale |-> FALSE]
  /\ workers' = [workers EXCEPT ![w] = [phase |-> "claimed", run |-> o]]
  /\ UNCHANGED <<vars, due>>

\* protect_open_market_configuration, which guards rules, sources, outcomes.
acceptsConfiguration(s) == s \in {"draft", "under_review"}

\* The market is inserted as scheduled, approved by the officer who approved
\* the template, before its rules.  A statement that is refused leaves nothing
\* of it, so that as the trigger stands every run fails.
materialiseScheduledMarket(w) ==
  /\ workers[w].phase = "claimed"
  /\ IF acceptsConfiguration("scheduled")
     THEN /\ \E m \in Markets, creator, approver \in Officers :
               /\ status[m] = "absent"
               /\ creator # approver
               /\ status' = [status EXCEPT ![m] = "scheduled"]
               /\ createdBy' = [createdBy EXCEPT ![m] = creator]
               /\ approvedBy' = [approvedBy EXCEPT ![m] = approver]
          /\ runs' = [runs EXCEPT ![workers[w].run] = "succeeded"]
          /\ schedule' = IF schedule.lockedBy = w THEN unlocked ELSE schedule
          /\ workers' = [workers EXCEPT ![w] = Idle]
          /\ UNCHANGED <<tradingSuspended, window, proposal, disputeOver, due>>
     ELSE /\ workers' = [workers EXCEPT ![w].phase = "failing"]
          /\ UNCHANGED <<vars, due, schedule, runs>>

\* The lock is given up without a look at whose it is.
markScheduleFailure(w) ==
  LET o == workers[w].run IN
  /\ workers[w].phase = "failing"
  /\ runs' = IF runs[o] = "processing" THEN [runs EXCEPT ![o] = "failed"] ELSE runs
  /\ schedule' = unlocked
  /\ workers' = [workers EXCEPT ![w] = Idle]
  /\ UNCHANGED <<vars, due>>

\* A worker dies; what it claimed stays "processing".
crash(w) ==
  /\ workers[w] # Idle
  /\ workers' = [workers EXCEPT ![w] = Idle]
  /\ UNCHANGED <<vars, due, schedule, runs>>
-----------------------------------------------------------------------------
SchedulerNext ==
  \/ passRunTime
  \/ passLockTime
  \/ \E w \in Workers :
       \/ claim(w)
       \/ materialiseScheduledMarket(w)
       \/ markScheduleFailure(w)
       \/ crash(w)

GovernanceNext ==
  \/ Next /\ UNCHANGED schedulerVars
  \/ SchedulerNext

\* Time passes, and some worker polls while others may be dead.
SchedulerFairness ==
  /\ WF_allVars(passRunTime)
  /\ WF_allVars(passLockTime)
  /\ SF_allVars(\E w \in Workers : claim(w))
  /\ \A w \in Workers :
       WF_allVars(materialiseScheduledMarket(w) \/ markScheduleFailure(w) \/ crash(w))

GovernanceInit == Init /\ SchedulerInit

GovernanceSpec ==
  /\ GovernanceInit
  /\ [][GovernanceNext]_allVars
  /\ Fairness /\ SchedulerFairness
-----------------------------------------------------------------------------
\* No two workers ever make the market of one occurrence, although the lock of
\* a slow one is taken over and a failing one gives up whatever lock there is.
OneWorkerPerOccurrence ==
  \A v, w \in Workers :
    workers[v] # Idle /\ workers[v].run = workers[w].run => v = w

\* A dead worker, a lock nobody holds any more or a run that failed delay the
\* schedule, but every occurrence that is due is claimed in the end.
DueIsClaimed ==
  \A o \in 1..Occurrences : due >= o ~> runs[o] # "none"
=============================================================================
