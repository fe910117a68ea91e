---------------------------- MODULE CronRegistry ----------------------------
(***************************************************************************)
(* Tasks on a schedule: the schedule arithmetic (services/cron-schedule.ts, *)
(* cron-config.ts), what a finished run makes of its task                   *)
(* (services/cron-settlement.ts), and the timers that start the runs        *)
(* (services/cron-registry.ts).  The row of a task is durable, its timer is *)
(* not.  A route syncs the timer of the task in its URL, an executor resyncs *)
(* all some time after it settled its run.                                  *)
(*                                                                         *)
(* A settlement changes other tasks too: it releases dependents, or holds   *)
(* them back, and the last child of a cohort settles its holder.  Which     *)
(* tasks depend on which, and whose children they are, is TaskDependencies': *)
(* here a settlement may reach any task that waits.  When a run is started, *)
(* and what becomes of one that outlives its take-over, is TaskQueue's.     *)
(***************************************************************************)
EXTENDS Server

CONSTANTS
  Crons,
  OnceTimes,   \* the times a one-shot may be set to
  Period,      \* a recurring task's expression matches each multiple of it
  Limits       \* the [failures, iterations, stopAfter] of a task, 0 for none

ASSUME CronAssumption ==
  /\ OnceTimes \subseteq Times
  /\ Period \in Nat \ {0}
  /\ Limits \subseteq [failures: Nat, iterations: Nat, stopAfter: Nat]

VARIABLES
  cron,        \* the row of each task, with its active run
  timer,       \* the fire time each task is armed for
  owed,        \* the tasks settled by an executor that has yet to resync
  unseen       \* history: the tasks that a request for another task settled or
               \* released, until the registry looks at them

cronVars == <<cron, timer, owed, unseen>>

NoLimit == [failures |-> 0, iterations |-> 0, stopAfter |-> 0]
NoRun == [state |-> "none", source |-> "manual", retried |-> FALSE, outcome |-> "none"]
RunOf(source) == [NoRun EXCEPT !.state = "queued", !.source = source]
Outcomes == {"done", "failed", "cancelled"}

\* A run that catches up on a missed time counts as the schedule's like any other.
\* A run that ended is held while its children run, its outcome frozen; one that
\* was handed off leaves its outcome and no run.
Runs == [state: {"none", "queued", "running", "parked", "held"},
         source: {"manual", "schedule"}, retried: BOOLEAN,
         outcome: Outcomes \cup {"none", "handed_off"}]

\* fireAt is a one-shot's; failures and limit are a recurring task's.
Rows == [kind: {"cron_once", "cron_repeat"},
         status: {"scheduled", "ready", "running", "blocked", "waiting_on_user",
                  "pending", "done", "failed", "cancelled", "deleted"},
         enabled: BOOLEAN, enabledAt: 0..MaxTime, lastFiredAt: 0..MaxTime,
         fireAt: OnceTimes \cup {Never}, limit: Limits \cup {NoLimit},
         failures: Nat, iterations: Nat, run: Runs]

CronTypeOK ==
  /\ cron \in [Crons -> Rows]
  /\ timer \in [Crons -> 0..MaxTime + Period]
  /\ owed \subseteq Crons /\ unseen \subseteq Crons
-----------------------------------------------------------------------------
(* The schedule                                                            *)

NextMatch(after) == (after \div Period + 1) * Period
LatestMatch(now) == (now \div Period) * Period

OutOfRuns(t) == t.limit.iterations # 0 /\ t.iterations >= t.limit.iterations
PastStop(t, time) == t.limit.stopAfter # 0 /\ time > t.limit.stopAfter

\* Mutant: only the expression decides.
NextFireAtUnlimited(t, after) ==
  CASE t.kind = "cron_once"   -> IF t.fireAt > after THEN t.fireAt ELSE Never
    [] t.kind = "cron_repeat" -> NextMatch(after)

NextFireAt(t, after) ==
  CASE t.kind = "cron_once"   -> IF t.fireAt > after THEN t.fireAt ELSE Never
    [] t.kind = "cron_repeat" -> IF OutOfRuns(t) \/ PastStop(t, NextMatch(after))
                                 THEN Never ELSE NextMatch(after)

\* A one-shot that has fired is never missed again.
LatestMissedFireAt(t, now) ==
  LET since == IF t.lastFiredAt > t.enabledAt THEN t.lastFiredAt ELSE t.enabledAt
      due   == IF t.kind = "cron_once" THEN t.fireAt ELSE LatestMatch(now)
      spent == IF t.kind = "cron_once" THEN t.lastFiredAt # Never
               ELSE OutOfRuns(t) \/ PastStop(t, due)
  IN IF ~spent /\ due > since /\ due <= now THEN due ELSE Never

IsScheduledRun(run) == run.source = "schedule"

\* settleCronRun: the rules for a one-shot, and for a recurring task.
SettledOnce(t, outcome) ==
  IF ~IsScheduledRun(t.run) /\ t.lastFiredAt = Never
  THEN [t EXCEPT !.status = IF t.enabled THEN "scheduled" ELSE "pending"]
  ELSE [t EXCEPT !.status = outcome]

FailuresAfter(t, outcome) ==
  CASE ~IsScheduledRun(t.run) \/ outcome = "cancelled" -> t.failures
    [] IsScheduledRun(t.run) /\ outcome = "failed"     -> t.failures + 1
    [] IsScheduledRun(t.run) /\ outcome = "done"       -> 0

SettledRepeat(t, outcome) ==
  LET counted == [t EXCEPT !.failures = FailuresAfter(t, outcome)]
  IN IF IsScheduledRun(t.run) /\ t.limit.failures # 0 /\ counted.failures >= t.limit.failures
     THEN [counted EXCEPT !.status = "pending", !.enabled = FALSE]
     ELSE [counted EXCEPT !.status = CASE ~t.enabled -> "pending"
                                       [] t.enabled /\ NextFireAt(t, clock) # Never -> "scheduled"
                                       [] OTHER -> "done"]

\* applyCronSettlement, once the run's row is finished.
Settled(t, outcome) ==
  [(IF t.kind = "cron_once" THEN SettledOnce(t, outcome) ELSE SettledRepeat(t, outcome))
     EXCEPT !.run = NoRun]

\* A schedule that is edited leaves these alone.
Busy == {"ready", "running", "waiting_on_user", "blocked"}

\* Mutant: an unfired one-shot whose time has passed is given up.
StatusForSavedScheduleByNext(t) ==
  IF t.status \in Busy THEN t.status
  ELSE CASE t.enabled /\ NextFireAt(t, clock) # Never -> "scheduled"
         [] OTHER -> IF t.status = "scheduled" THEN "pending" ELSE t.status

StatusForSavedSchedule(t) ==
  LET willFire == t.enabled /\ \/ NextFireAt(t, clock) # Never
                               \/ t.kind = "cron_once" /\ LatestMissedFireAt(t, clock) # Never
  IN CASE t.status \in Busy -> t.status
       [] t.status \notin Busy /\ willFire -> "scheduled"
       [] OTHER -> IF t.status = "scheduled" THEN "pending" ELSE t.status
\* patchTaskHandler and releaseEligibleDependents end with the status the
\* schedule asks for.
Patched(t) == [t EXCEPT !.status = StatusForSavedSchedule(t)]

\* settleTaskAfterRun: the run opened a cohort that still has children to wait
\* for, and holds its task until the last of them settles it; or it did not.
Held(t, outcome) ==
  [t EXCEPT !.status = "blocked", !.run.state = "held", !.run.outcome = outcome]
Ended(t, outcome, opened) == IF opened THEN Held(t, outcome) ELSE Settled(t, outcome)

\* What becomes of the other tasks when some task settles.
Fates == [Crons -> {"untouched", "released", "broken", "resolved"}]
Untouched == [c \in Crons |-> "untouched"]
TouchedBy(fate) == {c \in Crons : fate[c] # "untouched"}

\* A dependent that waits, and the one holder whose last child it was.
MayTouch(rows, fate) ==
  /\ \A c \in Crons :
       /\ fate[c] \in {"released", "broken"} => rows[c].status = "pending"
       /\ fate[c] = "resolved" => rows[c].run.state = "held"
  /\ \A c, d \in Crons : fate[c] = "resolved" /\ fate[d] = "resolved" => c = d

Touched(t, fate) ==
  CASE fate = "untouched" -> t
    [] fate = "released"  -> Patched(t)
    [] fate = "broken"    -> [t EXCEPT !.status = "blocked"]
    [] fate = "resolved"  -> Settled(t, t.run.outcome)

\* The rows once a task that settled has touched the others.
After(rows, fate) == [c \in Crons |-> Touched(rows[c], fate[c])]
-----------------------------------------------------------------------------
(* The registry                                                            *)

\* The task waits for its time: fireCronTask's gate, and sync's.
IsIdle(t) == t.status = "scheduled" /\ t.enabled

\* fireCronTask, of a task that passes its gate.
Fired(t, time) ==
  [t EXCEPT !.status = "ready", !.lastFiredAt = time, !.iterations = @ + 1,
            !.run = RunOf("schedule")]

\* sync: the row and the timer it leaves.
Synced(t) ==
  LET next   == NextFireAt(t, clock)
      missed == LatestMissedFireAt(t, clock)
  IN CASE ~IsIdle(t) -> [row |-> t, timer |-> Never]
       [] IsIdle(t) /\ (next # Never \/ t.kind = "cron_repeat") -> [row |-> t, timer |-> next]
       [] OTHER -> [row |-> IF missed = Never THEN t ELSE Fired(t, missed),
                    timer |-> Never]

\* Mutant: a wake that fires nothing leaves it at that.
FiredOrLeft(t, time) ==
  IF clock >= time /\ IsIdle(t) THEN [row |-> Fired(t, time), timer |-> Never]
  ELSE [row |-> t, timer |-> Never]

\* fire, from the timer, whose entry is gone already.
FiredOrSynced(t, time) ==
  IF clock >= time /\ IsIdle(t) THEN [row |-> Fired(t, time), timer |-> Never]
  ELSE Synced(t)

\* recoverRunningQueueEntries: a run is retried once; given up, one the
\* schedule started has failed and any other waits for the user.
GivenUp(t) == t.run.state = "running" /\ t.run.retried /\ IsScheduledRun(t.run)

Recovered(t, opened) ==
  CASE t.run.state # "running" -> t
    [] t.run.state = "running" /\ ~t.run.retried ->
         [t EXCEPT !.run.state = "queued", !.run.retried = TRUE, !.status = "ready"]
    [] GivenUp(t) -> Ended(t, "failed", opened)
    [] OTHER -> [t EXCEPT !.status = "waiting_on_user", !.run = NoRun]

\* boot: one missed time is one catch-up run.
Booted(t) ==
  LET missed == LatestMissedFireAt(t, clock)
  IN Synced(IF IsIdle(t) /\ missed # Never THEN Fired(t, missed) ELSE t)
-----------------------------------------------------------------------------
(* The steps                                                               *)

\* createTaskHandler, for a schedule that is on and will fire; createTasks, for
\* one that waits for the tasks it depends on.
New(kind, status, fireAt, limit) ==
  [kind |-> kind, status |-> status, enabled |-> TRUE, enabledAt |-> 0,
   lastFiredAt |-> Never, fireAt |-> fireAt, limit |-> limit,
   failures |-> 0, iterations |-> 0, run |-> NoRun]

CronInit ==
  /\ cron \in [Crons -> {New("cron_once", status, fireAt, NoLimit) :
                           status \in {"scheduled", "pending"}, fireAt \in OnceTimes}
                  \cup {New("cron_repeat", status, Never, limit) :
                           status \in {"scheduled", "pending"}, limit \in Limits}]
  /\ timer = [c \in Crons |-> Synced(cron[c]).timer]
  /\ owed = {} /\ unseen = {}

\* The handlers of a task end with its sync, which leaves this row and timer.
Saves(c, synced) ==
  /\ cron' = [cron EXCEPT ![c] = synced.row]
  /\ timer' = [timer EXCEPT ![c] = synced.timer]
  /\ unseen' = unseen \ {c}
  /\ UNCHANGED owed

\* A timer wakes when its time has come, or before: a wait longer than
\* MAX_TIMER_DELAY_MS is armed in chunks.
TimerWakes(c) ==
  /\ timer[c] # Never
  /\ Saves(c, FiredOrSynced(cron[c], timer[c]))

\* resyncAll, as far as it reaches this task: the armed and the scheduled.
Resync(c) ==
  /\ timer[c] # Never \/ cron[c].status = "scheduled"
  /\ Saves(c, Synced(cron[c]))

\* withCronResync: an executor is done, and resyncs all.
ExecutorResyncs ==
  /\ owed # {}
  /\ LET synced == [c \in Crons |-> Synced(cron[c])]
     IN /\ cron' = [c \in Crons |-> synced[c].row]
        /\ timer' = [c \in Crons |-> synced[c].timer]
  /\ owed' = {} /\ unseen' = {}

Dispatch(c) ==
  /\ cron[c].run.state = "queued"
  /\ cron' = [cron EXCEPT ![c].run.state = "running", ![c].status = "running"]
  /\ UNCHANGED <<timer, owed, unseen>>

\* An executor settles c, to this row; its resync comes later.
ExecutorSettles(c, row, fate) ==
  /\ cron[c].run.state = "running"
  /\ LET rows == [cron EXCEPT ![c] = row]
     IN MayTouch(rows, fate) /\ cron' = After(rows, fate)
  /\ owed' = owed \cup {c} \cup TouchedBy(fate)
  /\ UNCHANGED <<timer, unseen>>

\* completeQueueEntry.  A run that holds its task or is handed off releases nobody.
RunEnds(c, outcome, fate) == ExecutorSettles(c, Settled(cron[c], outcome), fate)
RunHolds(c, outcome) == ExecutorSettles(c, Held(cron[c], outcome), Untouched)
RunHandsOff(c) ==
  ExecutorSettles(c, [cron[c] EXCEPT !.status = "blocked",
                                     !.run = [NoRun EXCEPT !.outcome = "handed_off"]], Untouched)

\* The run is paused, or asks the user: its row is kept.
Park(c, fate) ==
  /\ "resolved" \notin {fate[d] : d \in Crons}
  /\ ExecutorSettles(c, [cron[c] EXCEPT !.status = "blocked", !.run.state = "parked"], fate)
Asks(c) ==
  ExecutorSettles(c, [cron[c] EXCEPT !.status = "waiting_on_user", !.run.state = "parked"],
                  Untouched)

RunStops(c) ==
  \/ \E outcome \in Outcomes :
       RunHolds(c, outcome) \/ \E fate \in Fates : RunEnds(c, outcome, fate)
  \/ RunHandsOff(c) \/ Asks(c) \/ \E fate \in Fates : Park(c, fate)

\* The executor of a task without a schedule settles it.
OtherRunEnds(fate) ==
  /\ fate # Untouched /\ MayTouch(cron, fate)
  /\ cron' = After(cron, fate)
  /\ owed' = owed \cup TouchedBy(fate)
  /\ UNCHANGED <<timer, unseen>>

\* disable_recurrence, by the run of the task itself.
DisableRecurrence(c) ==
  LET t == cron[c]
  IN /\ t.run.state = "running" /\ t.kind = "cron_repeat" /\ t.enabled
     /\ Saves(c, Synced([t EXCEPT !.enabled = FALSE]))
-----------------------------------------------------------------------------
(* What users ask for: the routes sync the one task they name              *)

\* A request for c settles it, to this row, and whoever waits for it.
RequestSettles(c, row, fate) ==
  LET rows   == [cron EXCEPT ![c] = row]
      synced == Synced(Touched(row, fate[c]))
  IN /\ MayTouch(rows, fate)
     /\ cron' = [After(rows, fate) EXCEPT ![c] = synced.row]
     /\ timer' = [timer EXCEPT ![c] = synced.timer]
     /\ unseen' = (unseen \cup TouchedBy(fate)) \ {c}
     /\ UNCHANGED owed

\* The board marks a task without a schedule done, or its queued run is cancelled.
OtherIsSettled(fate) ==
  /\ fate # Untouched /\ MayTouch(cron, fate)
  /\ cron' = After(cron, fate)
  /\ unseen' = unseen \cup TouchedBy(fate)
  /\ UNCHANGED <<timer, owed>>

\* A task that no run of its own keeps busy; a deleted one has no row.
Free(t) == t.run.state = "none" /\ t.status # "deleted"

\* enqueueTaskHandler: Run now.  So does the end of the task's last dependency.
RunNow(c) ==
  /\ Free(cron[c])
  /\ Saves(c, Synced([cron[c] EXCEPT !.status = "ready", !.run = RunOf("manual")]))

\* cancelTaskHandler, of a queued run.
Cancel(c, fate) ==
  /\ cron[c].run.state = "queued"
  /\ RequestSettles(c, Settled(cron[c], "cancelled"), fate)

\* dequeueTask: the run never was, and counts no more.
Dequeued(t) ==
  [t EXCEPT !.status = "pending", !.run = NoRun,
            !.iterations = IF IsScheduledRun(t.run) THEN @ - 1 ELSE @]

Dequeue(c) ==
  /\ cron[c].run.state = "queued"
  /\ Saves(c, Synced(Dequeued(cron[c])))

Resume(c) ==
  /\ cron[c].run.state = "parked"
  /\ Saves(c, Synced([cron[c] EXCEPT !.run.state = "queued", !.status = "ready"]))

\* takeOverTaskHandler, of a run or of a task held by a broken dependency.
TakeOver(c) ==
  /\ \/ cron[c].run.state \in {"queued", "running"}
     \/ cron[c].status = "blocked" /\ cron[c].run = NoRun
  /\ Saves(c, Synced([cron[c] EXCEPT !.status = "pending", !.run = NoRun]))

\* patchTaskHandler, of the status; the board detaches a paused run before.
PatchStatus(c, status) ==
  /\ \/ Free(cron[c])
     \/ cron[c].run.state = "parked" /\ cron[c].status = "blocked" /\ status = "pending"
  /\ Saves(c, Synced(Patched([cron[c] EXCEPT !.status = status, !.run = NoRun])))

\* MARK_DONE, after the steps the board takes first.
MarkedDone(t) ==
  LET off == IF t.run.state = "queued" THEN Dequeued(t) ELSE t
  IN Patched([off EXCEPT !.status = "done", !.run = NoRun,
                         !.enabled = @ /\ t.status # "scheduled"])

MarkDone(c, fate) ==
  /\ \/ Free(cron[c]) /\ cron[c].status \notin {"done", "waiting_on_user"}
     \/ cron[c].run.state = "queued"
     \/ cron[c].run.state = "parked" /\ cron[c].status = "blocked"
  /\ "resolved" \notin {fate[d] : d \in Crons}
  /\ RequestSettles(c, MarkedDone(cron[c]), fate)

\* deleteTaskHandler
Delete(c) ==
  /\ Free(cron[c])
  /\ Saves(c, Synced(New("cron_once", "deleted", Never, NoLimit)))

\* resolveCronConfig: turning on restamps the schedule, moving re-arms it.
Resolved(t, enabled, fireAt) ==
  [t EXCEPT !.enabled = enabled, !.fireAt = fireAt,
            !.enabledAt = IF enabled /\ ~t.enabled THEN clock ELSE @,
            !.failures = IF enabled /\ ~t.enabled THEN 0 ELSE @,
            !.lastFiredAt = IF fireAt # t.fireAt THEN Never ELSE @]

\* patchTaskHandler, of the schedule: a new time must lie ahead.
SaveSchedule(c, enabled, fireAt) ==
  /\ cron[c].status # "deleted"
  /\ (fireAt # cron[c].fireAt => cron[c].kind = "cron_once" /\ fireAt > clock)
  /\ Saves(c, Synced(Patched(Resolved(cron[c], enabled, fireAt))))

CronSystem ==
  /\ Works
  /\ \/ ExecutorResyncs
     \/ \E fate \in Fates : OtherRunEnds(fate)
     \/ \E c \in Crons : TimerWakes(c) \/ Resync(c) \/ Dispatch(c) \/ RunStops(c)
                         \/ DisableRecurrence(c)

CronUser ==
  /\ Asked
  /\ \/ \E fate \in Fates : OtherIsSettled(fate)
     \/ \E c \in Crons :
          \/ RunNow(c) \/ Dequeue(c) \/ Resume(c) \/ TakeOver(c) \/ Delete(c)
          \/ \E fate \in Fates : Cancel(c, fate) \/ MarkDone(c, fate)
          \/ \E status \in {"pending", "done", "failed", "cancelled", "scheduled"} :
               PatchStatus(c, status)
          \/ \E enabled \in BOOLEAN, fireAt \in OnceTimes \cup {cron[c].fireAt} :
               SaveSchedule(c, enabled, fireAt)

\* The timers and the executors' promises die with the process.
CronDies ==
  /\ timer' = [c \in Crons |-> Never] /\ owed' = {} /\ unseen' = {}
  /\ UNCHANGED cron

\* The store recovers the runs, and settles those it gives up, before the
\* registry boots.
CronBoots ==
  \E opened \in SUBSET Crons, fate \in Fates :
    LET rows   == [c \in Crons |-> Recovered(cron[c], c \in opened)]
        booted == [c \in Crons |-> Booted(After(rows, fate)[c])]
    IN /\ MayTouch(rows, fate)
       /\ (fate # Untouched => \E c \in Crons \ opened : GivenUp(cron[c]))
       /\ cron' = [c \in Crons |-> booted[c].row]
       /\ timer' = [c \in Crons |-> booted[c].timer]
       /\ UNCHANGED <<owed, unseen>>

-----------------------------------------------------------------------------
(* Properties                                                              *)

\* The task has a time to come or, a one-shot, a time it missed.
HasTime(t, now) ==
  \/ NextFireAt(t, now) # Never
  \/ t.kind = "cron_once" /\ LatestMissedFireAt(t, now) # Never

Armed(t, time, now) ==
  IF IsIdle(t) /\ HasTime(t, now)
  THEN time # Never /\ (time = NextFireAt(t, now) \/ time <= now)
  ELSE IsIdle(t) \/ time = Never

\* No task waits for a time that no timer will bring: a running process has a
\* timer for each idle task that has a time, and for no busy one.  Two are let
\* off: one whose executor is about to resync, and one that a request for another
\* task released or settled, which has no timer yet.
IdleIsArmed == up => \A c \in Crons \ (owed \cup unseen) : Armed(cron[c], timer[c], clock)

\* If the schedule starts a run between the rows old and t, it is for a time that
\* has come, that the schedule names, that no run was started for yet, that
\* passed while it was on, and within its limits.
StartsOnTime(old, t) ==
  t.iterations > old.iterations =>
    /\ t.lastFiredAt <= clock
    /\ t.lastFiredAt > old.lastFiredAt /\ t.lastFiredAt > t.enabledAt
    /\ IF t.kind = "cron_once" THEN t.lastFiredAt = t.fireAt
       ELSE /\ t.lastFiredAt % Period = 0
            /\ ~PastStop(t, t.lastFiredAt)
            /\ t.limit.iterations # 0 => t.iterations <= t.limit.iterations

\* No run is started off the schedule, whatever edits, crashes and late timers
\* came between.
FiresOnItsSchedule == [][\A c \in Crons : StartsOnTime(cron[c], cron'[c])]_cronVars

\* The time of the one-shot passed, or will pass, while it is on.
Unfired(t) ==
  /\ t.kind = "cron_once" /\ t.status # "deleted"
  /\ t.enabled /\ t.lastFiredAt = Never /\ t.fireAt > t.enabledAt

\* A one-shot that waits for its time, and is not unseen, fires, through downtime
\* and through runs by hand that were under way at its time: unless it is edited
\* or deleted, a user takes it off the queue or over (pending), or its run waits
\* for the user or for its children.
OneShotNotLost ==
  \A c \in Crons :
    Unfired(cron[c]) /\ cron[c].status = "scheduled" /\ c \notin unseen
      ~> ~Unfired(cron[c]) \/ cron[c].status \in {"pending", "blocked", "waiting_on_user"}
=============================================================================
