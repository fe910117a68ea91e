------------------------- MODULE Registries_proofs -------------------------
(***************************************************************************)
(* What holds of the two timer registries for any tasks, threads, limits,   *)
(* clock and crashes: the types, that whatever waits for its time has the   *)
(* timer that brings it, and that the schedule starts no run off schedule.  *)
(***************************************************************************)
EXTENDS Registries, TLAPS

-----------------------------------------------------------------------------
(* The arithmetic of cron matches                                          *)

\* The multiples of p before and after a.
LEMMA DivBounds ==
  ASSUME NEW a \in Nat, NEW p \in Nat \ {0}
  PROVE  /\ a \div p \in Nat
         /\ (a \div p) * p \in Nat /\ (a \div p) * p <= a
         /\ (a \div p + 1) * p \in Nat
         /\ a < (a \div p + 1) * p /\ (a \div p + 1) * p <= a + p
         /\ ((a \div p) * p) % p = 0 /\ ((a \div p + 1) * p) % p = 0
  OBVIOUS

\* A tick leaves the next multiple as it was, or reaches it.
LEMMA DivStep ==
  ASSUME NEW a \in Nat, NEW p \in Nat \ {0}
  PROVE  \/ (a + 1) \div p = a \div p
         \/ (a \div p + 1) * p = a + 1
  OBVIOUS

\* The matches around the clock.
LEMMA Matches ==
  ASSUME ServerTypeOK
  PROVE  /\ clock \in 0..MaxTime /\ MaxTime \in Nat /\ Period \in Nat \ {0}
         /\ NextMatch(clock) \in 0..MaxTime + Period
         /\ NextMatch(clock) > clock /\ NextMatch(clock) % Period = 0
         /\ LatestMatch(clock) \in 0..clock /\ LatestMatch(clock) % Period = 0
<1>1. clock \in 0..MaxTime /\ MaxTime \in Nat /\ Period \in Nat \ {0} /\ clock \in Nat
  BY ServerAssumption, CronAssumption DEF ServerTypeOK
<1>2. /\ (clock \div Period) * Period \in Nat /\ (clock \div Period) * Period <= clock
      /\ (clock \div Period + 1) * Period \in Nat
      /\ clock < (clock \div Period + 1) * Period
      /\ (clock \div Period + 1) * Period <= clock + Period
      /\ ((clock \div Period) * Period) % Period = 0
      /\ ((clock \div Period + 1) * Period) % Period = 0
  BY <1>1, DivBounds, Zenon
<1>3. /\ NextMatch(clock) \in Nat /\ clock < NextMatch(clock) /\ NextMatch(clock) <= clock + Period
      /\ NextMatch(clock) % Period = 0
  BY <1>2, Zenon DEF NextMatch
<1>4. LatestMatch(clock) \in Nat /\ LatestMatch(clock) <= clock /\ LatestMatch(clock) % Period = 0
  BY <1>2, Zenon DEF LatestMatch
<1> QED
  BY <1>1, <1>3, <1>4

\* The time of a one-shot, or none.
LEMMA FireTimes ==
  OnceTimes \cup {Never} \subseteq 0..MaxTime /\ \A x \in OnceTimes : x > 0
  BY ServerAssumption, CronAssumption DEF Times, Never

\* The limits of a task, or none.
LEMMA LimitTypes ==
  Limits \cup {NoLimit} \subseteq [failures: Nat, iterations: Nat, stopAfter: Nat]
  BY CronAssumption DEF NoLimit
-----------------------------------------------------------------------------
(* The rows                                                                *)

\* A time that the schedule of t names, within its limits, that passed while it
\* was on and that no run was started for.
Fits(t, time) ==
  /\ time > t.lastFiredAt /\ time > t.enabledAt
  /\ IF t.kind = "cron_once" THEN time = t.fireAt
     ELSE time % Period = 0 /\ ~OutOfRuns(t) /\ ~PastStop(t, time)

\* A row's stamps lie in the past, a task with a run shows as busy, a held one
\* has an outcome, and a run of the schedule is counted.
RowOK(t, now) ==
  /\ t.lastFiredAt <= now /\ t.enabledAt <= now
  /\ t.run.state # "none" => t.status \in Busy
  /\ t.run.state = "held" => t.run.outcome \in Outcomes
  /\ IsScheduledRun(t.run) => t.iterations > 0

\* A timer is for an idle task, and for a time that its schedule names.
TimerFits(t, time) == time # Never => IsIdle(t) /\ Fits(t, time)

\* The next time lies ahead and is one the schedule allows.
LEMMA NextFits ==
  ASSUME ServerTypeOK, NEW t \in Rows, RowOK(t, clock)
  PROVE  LET next == NextFireAt(t, clock)
         IN next \in 0..MaxTime + Period /\ (next # Never => next > clock /\ Fits(t, next))
<1>1. t.fireAt \in 0..MaxTime /\ t.lastFiredAt \in 0..MaxTime /\ t.enabledAt \in 0..MaxTime
  BY FireTimes DEF Rows
<1>2. CASE t.kind = "cron_once"
  BY <1>1, <1>2, Matches DEF NextFireAt, Fits, RowOK, Never
<1>3. CASE t.kind = "cron_repeat"
  BY <1>1, <1>3, Matches DEF NextFireAt, Fits, RowOK, Never
<1> QED
  BY <1>2, <1>3 DEF Rows

\* So is the time missed, which lies behind.
LEMMA MissedFits ==
  ASSUME ServerTypeOK, NEW t \in Rows, RowOK(t, clock)
  PROVE  LET missed == LatestMissedFireAt(t, clock)
         IN missed \in 0..clock /\ (missed # Never => Fits(t, missed))
<1>1. t.fireAt \in 0..MaxTime /\ t.lastFiredAt \in 0..MaxTime /\ t.enabledAt \in 0..MaxTime
  BY FireTimes DEF Rows
<1>2. CASE t.kind = "cron_once"
  BY <1>1, <1>2, Matches DEF LatestMissedFireAt, Fits, RowOK, Never
<1>3. CASE t.kind = "cron_repeat"
  BY <1>1, <1>3, Matches DEF LatestMissedFireAt, Fits, RowOK, Never
<1> QED
  BY <1>2, <1>3 DEF Rows

\* What a started run makes of the row.
LEMMA FiredFields ==
  ASSUME NEW t \in Rows, NEW time \in 0..MaxTime
  PROVE  LET r == Fired(t, time)
         IN /\ r \in Rows /\ r.status = "ready" /\ r.lastFiredAt = time
            /\ r.iterations = t.iterations + 1 /\ r.kind = t.kind
            /\ r.enabledAt = t.enabledAt /\ r.fireAt = t.fireAt /\ r.limit = t.limit
            /\ r.run.state = "queued" /\ t.iterations \in Nat
<1> DEFINE run == RunOf("schedule")
           n   == t.iterations + 1
           r   == [t EXCEPT !.status = "ready", !.lastFiredAt = time, !.iterations = n, !.run = run]
<1>1. run \in Runs /\ run.state = "queued"
  BY DEF RunOf, NoRun, Runs, Outcomes
<1>2. n \in Nat /\ t.iterations \in Nat
  BY DEF Rows
<1>3. Fired(t, time) = r
  BY DEF Fired
<1> HIDE DEF run, n
<1>4. r \in Rows
  BY <1>1, <1>2 DEF Rows
<1>5. /\ r.status = "ready" /\ r.lastFiredAt = time /\ r.iterations = n
      /\ r.kind = t.kind /\ r.enabledAt = t.enabledAt /\ r.fireAt = t.fireAt
      /\ r.limit = t.limit /\ r.run = run
  BY DEF Rows
<1> HIDE DEF r
<1> QED
  BY <1>1, <1>2, <1>3, <1>4, <1>5 DEF n

\* A row that fits its time waits no longer, and started on time.
LEMMA FiredRow ==
  ASSUME ServerTypeOK, NEW t \in Rows, RowOK(t, clock),
         NEW time \in 0..clock, Fits(t, time)
  PROVE  LET r == Fired(t, time)
         IN /\ r \in Rows /\ RowOK(r, clock) /\ r.status = "ready"
            /\ StartsOnTime(t, r)
<1> DEFINE r == Fired(t, time)
<1>2. time \in 0..MaxTime /\ MaxTime \in Nat /\ clock \in Nat
  BY Matches
<1>4. /\ r \in Rows /\ r.status = "ready" /\ r.lastFiredAt = time /\ r.iterations = t.iterations + 1
      /\ r.kind = t.kind /\ r.enabledAt = t.enabledAt /\ r.fireAt = t.fireAt
      /\ r.limit = t.limit /\ r.run.state = "queued" /\ t.iterations \in Nat
  BY <1>2, FiredFields
<1> HIDE DEF r
<1>5. RowOK(r, clock)
  BY <1>2, <1>4 DEF RowOK, Busy, Rows
<1>6. t.limit \in [failures: Nat, iterations: Nat, stopAfter: Nat] /\ t.iterations \in Nat
      /\ t.lastFiredAt \in 0..MaxTime /\ t.enabledAt \in 0..MaxTime
  BY LimitTypes DEF Rows
<1>7. StartsOnTime(t, r)
  BY <1>2, <1>4, <1>6 DEF StartsOnTime, Fits, OutOfRuns, PastStop
<1> QED
  BY <1>4, <1>5, <1>7 DEF r
-----------------------------------------------------------------------------
(* The handlers                                                            *)

\* What every handler of the registry makes of a row r: a row and its timer.
Kept(r, s) ==
  /\ s.row \in Rows /\ RowOK(s.row, clock) /\ StartsOnTime(r, s.row)
  /\ s.timer \in 0..MaxTime + Period
  /\ TimerFits(s.row, s.timer) /\ Armed(s.row, s.timer, clock)

\* A fired row needs no timer.
LEMMA FiredKept ==
  ASSUME ServerTypeOK, NEW t \in Rows, RowOK(t, clock),
         NEW time \in 0..clock, Fits(t, time)
  PROVE  Kept(t, [row |-> Fired(t, time), timer |-> Never])
<1> DEFINE r == Fired(t, time)
<1>1. r \in Rows /\ RowOK(r, clock) /\ r.status = "ready" /\ StartsOnTime(t, r)
  BY FiredRow
<1> HIDE DEF r
<1>2. TimerFits(r, Never) /\ Armed(r, Never, clock)
  BY <1>1 DEF TimerFits, Armed, IsIdle
<1>3. Never \in 0..MaxTime + Period
  BY ServerAssumption, CronAssumption DEF Never
<1> QED
  BY <1>1, <1>2, <1>3 DEF Kept, r

\* A row that is left as it is.
LEMMA SameKept ==
  ASSUME NEW t \in Rows, RowOK(t, clock), NEW time \in 0..MaxTime + Period,
         TimerFits(t, time), Armed(t, time, clock)
  PROVE  Kept(t, [row |-> t, timer |-> time])
<1>1. StartsOnTime(t, t)
  BY DEF StartsOnTime, Rows
<1> QED
  BY <1>1 DEF Kept

\* Every row that is synced.
LEMMA SyncedKept ==
  ASSUME ServerTypeOK, NEW t \in Rows, RowOK(t, clock)
  PROVE  Kept(t, Synced(t))
<1> DEFINE next   == NextFireAt(t, clock)
           missed == LatestMissedFireAt(t, clock)
<1>1. next \in 0..MaxTime + Period /\ (next # Never => Fits(t, next))
  BY NextFits
<1>2. missed \in 0..clock /\ (missed # Never => Fits(t, missed))
  BY MissedFits
<1>3. Never \in 0..MaxTime + Period
  BY ServerAssumption, CronAssumption DEF Never
<1>4. CASE ~IsIdle(t)
  <2>1. Synced(t) = [row |-> t, timer |-> Never]
    BY <1>4 DEF Synced
  <2>2. TimerFits(t, Never) /\ Armed(t, Never, clock)
    BY <1>4 DEF TimerFits, Armed
  <2> QED
    BY <2>1, <2>2, <1>3, SameKept
<1>5. CASE IsIdle(t) /\ (next # Never \/ t.kind = "cron_repeat")
  <2>1. Synced(t) = [row |-> t, timer |-> next]
    BY <1>5 DEF Synced
  <2>2. TimerFits(t, next)
    BY <1>1, <1>5 DEF TimerFits
  <2>3. Armed(t, next, clock)
    BY <1>5 DEF Armed, HasTime
  <2> QED
    BY <2>1, <2>2, <2>3, <1>1, SameKept
<1>6. CASE IsIdle(t) /\ ~(next # Never \/ t.kind = "cron_repeat")
  <2>1. CASE missed = Never
    <3>1. Synced(t) = [row |-> t, timer |-> Never]
      BY <1>6, <2>1 DEF Synced
    <3>2. TimerFits(t, Never) /\ Armed(t, Never, clock)
      BY <1>6, <2>1 DEF TimerFits, Armed, HasTime
    <3> QED
      BY <3>1, <3>2, <1>3, SameKept
  <2>2. CASE missed # Never
    <3>1. Synced(t) = [row |-> Fired(t, missed), timer |-> Never]
      BY <1>6, <2>2 DEF Synced
    <3> QED
      BY <3>1, <2>2, <1>2, FiredKept
  <2> QED
    BY <2>1, <2>2
<1> QED
  BY <1>4, <1>5, <1>6

\* A timer that wakes fires what it was armed for, or is set anew.
LEMMA WakeKept ==
  ASSUME ServerTypeOK, NEW t \in Rows, RowOK(t, clock), NEW time \in 0..MaxTime + Period,
         TimerFits(t, time), time # Never
  PROVE  Kept(t, FiredOrSynced(t, time))
<1>1. CASE clock >= time /\ IsIdle(t)
  <2>1. time \in 0..clock /\ Fits(t, time)
    BY <1>1, Matches DEF TimerFits
  <2>2. FiredOrSynced(t, time) = [row |-> Fired(t, time), timer |-> Never]
    BY <1>1 DEF FiredOrSynced
  <2> QED
    BY <2>1, <2>2, FiredKept
<1>2. CASE ~(clock >= time /\ IsIdle(t))
  BY <1>2, SyncedKept DEF FiredOrSynced
<1> QED
  BY <1>1, <1>2

\* What a handler may make of a row t before the registry syncs it: any row whose
\* stamps are in order, and no run more.
Quiet(t, u) ==
  /\ u \in Rows /\ RowOK(u, clock)
  /\ u.iterations <= t.iterations /\ u.lastFiredAt = t.lastFiredAt

\* A row that is left alone, and one thing after another.
LEMMA QuietSteps ==
  /\ \A t \in Rows : RowOK(t, clock) => Quiet(t, t)
  /\ \A t, u, v \in Rows : Quiet(t, u) /\ Quiet(u, v) => Quiet(t, v)
<1>1. \A t \in Rows : t.iterations \in Nat
  BY DEF Rows
<1> QED
  BY <1>1 DEF Quiet

\* A handler that changes no stamp before it syncs.
LEMMA SyncAfter ==
  ASSUME ServerTypeOK, NEW t \in Rows, NEW u, Quiet(t, u)
  PROVE  Kept(t, Synced(u))
<1>1. Kept(u, Synced(u))
  BY SyncedKept DEF Quiet
<1>2. /\ t.iterations \in Nat /\ u.iterations \in Nat /\ Synced(u).row.iterations \in Nat
      /\ u.iterations <= t.iterations /\ u.lastFiredAt = t.lastFiredAt
  BY <1>1 DEF Quiet, Kept, Rows
<1> QED
  BY <1>1, <1>2 DEF Kept, StartsOnTime

\* A status that the task's run, if it has one, allows.
LEMMA StatusRow ==
  ASSUME NEW t \in Rows, RowOK(t, clock),
         NEW status \in {"scheduled", "ready", "running", "blocked", "waiting_on_user",
                         "pending", "done", "failed", "cancelled", "deleted"},
         t.run.state # "none" => status \in Busy
  PROVE  Quiet(t, [t EXCEPT !.status = status])
<1> DEFINE u == [t EXCEPT !.status = status]
<1>1. /\ u \in Rows /\ u.status = status /\ u.run = t.run /\ u.iterations = t.iterations
      /\ u.lastFiredAt = t.lastFiredAt /\ u.enabledAt = t.enabledAt
  BY DEF Rows
<1>2. t.iterations \in Nat
  BY DEF Rows
<1> HIDE DEF u
<1>3. Quiet(t, u)
  BY <1>1, <1>2 DEF Quiet, RowOK
<1> QED
  BY <1>3 DEF u

\* Another run, and the status that goes with it.
LEMMA RunRow ==
  ASSUME NEW t \in Rows, RowOK(t, clock), NEW run \in Runs,
         NEW status \in {"ready", "running", "blocked", "waiting_on_user", "pending", "done",
                         "failed", "cancelled", "scheduled"},
         run.state # "none" => status \in Busy,
         run.state = "held" => run.outcome \in Outcomes,
         IsScheduledRun(run) => IsScheduledRun(t.run)
  PROVE  Quiet(t, [t EXCEPT !.status = status, !.run = run])
<1> DEFINE u == [t EXCEPT !.status = status, !.run = run]
<1>1. /\ u \in Rows /\ u.status = status /\ u.run = run /\ u.iterations = t.iterations
      /\ u.lastFiredAt = t.lastFiredAt /\ u.enabledAt = t.enabledAt
  BY DEF Rows
<1>2. t.iterations \in Nat
  BY DEF Rows
<1> HIDE DEF u
<1>3. Quiet(t, u)
  BY <1>1, <1>2 DEF Quiet, RowOK
<1> QED
  BY <1>3 DEF u

\* No run is an idle task's, and not the schedule's.
LEMMA NoRunFields ==
  /\ NoRun \in Runs /\ NoRun.state = "none" /\ NoRun.outcome = "none" /\ ~IsScheduledRun(NoRun)
  /\ RunOf("manual") \in Runs /\ RunOf("manual").state = "queued"
  /\ ~IsScheduledRun(RunOf("manual"))
  BY DEF NoRun, RunOf, Runs, IsScheduledRun, Outcomes

\* What a settlement keeps of a row.
LEMMA SettledRow ==
  ASSUME NEW t \in Rows, RowOK(t, clock), NEW outcome \in Outcomes
  PROVE  Quiet(t, Settled(t, outcome))
<1> DEFINE Same(s) == /\ s \in Rows /\ s.iterations = t.iterations
                      /\ s.lastFiredAt = t.lastFiredAt /\ s.enabledAt = t.enabledAt
<1>2. Same(SettledOnce(t, outcome))
  BY DEF SettledOnce, Rows, Outcomes
<1>3. FailuresAfter(t, outcome) \in Nat
  BY DEF FailuresAfter, Rows, Runs, IsScheduledRun, Outcomes
<1>4. Same(SettledRepeat(t, outcome))
  BY <1>3 DEF SettledRepeat, Rows
<1> DEFINE s == IF t.kind = "cron_once" THEN SettledOnce(t, outcome) ELSE SettledRepeat(t, outcome)
<1>5. Same(s)
  BY <1>2, <1>4
<1>6. Settled(t, outcome) = [s EXCEPT !.run = NoRun]
  BY DEF Settled
<1> HIDE DEF s
<1>7. Same([s EXCEPT !.run = NoRun]) /\ [s EXCEPT !.run = NoRun].run = NoRun
  BY <1>5, NoRunFields DEF Rows
<1> DEFINE u == [s EXCEPT !.run = NoRun]
<1> HIDE DEF u
<1>8. t.iterations \in Nat
  BY DEF Rows
<1>9. Quiet(t, u)
  BY <1>7, <1>8, NoRunFields DEF Quiet, RowOK, u
<1> QED
  BY <1>6, <1>9 DEF u

\* A run that ended and holds its task.
LEMMA HeldRow ==
  ASSUME NEW t \in Rows, RowOK(t, clock), NEW outcome \in Outcomes
  PROVE  Quiet(t, Held(t, outcome)) /\ ~IsIdle(Held(t, outcome))
<1> DEFINE run == [t.run EXCEPT !.state = "held", !.outcome = outcome]
           r   == [t EXCEPT !.status = "blocked", !.run = run]
<1>1. /\ run \in Runs /\ run.state = "held" /\ run.outcome = outcome
      /\ run.source = t.run.source
  BY DEF Rows, Runs
<1>2. Held(t, outcome) = r
  BY DEF Held, Rows, Runs
<1> HIDE DEF run
<1>3. Quiet(t, r)
  BY <1>1, RunRow DEF Busy, IsScheduledRun
<1>4. r.status = "blocked"
  BY DEF Rows
<1> QED
  BY <1>2, <1>3, <1>4 DEF IsIdle

\* The status that a schedule asks for leaves a busy task busy.
LEMMA PatchedRow ==
  ASSUME NEW t \in Rows, RowOK(t, clock)
  PROVE  Quiet(t, Patched(t)) /\ (t.status \in Busy => Patched(t) = t)
<1> DEFINE status == StatusForSavedSchedule(t)
           willFire ==
             t.enabled /\ \/ NextFireAt(t, clock) # Never
                          \/ t.kind = "cron_once" /\ LatestMissedFireAt(t, clock) # Never
<1>1. t.status \in Busy => status = t.status
  BY DEF StatusForSavedSchedule, Busy
<1>2. willFire /\ t.status \notin Busy => status = "scheduled"
  BY DEF StatusForSavedSchedule, Busy
<1>3. ~willFire /\ t.status \notin Busy => status \in {"pending", t.status}
  BY DEF StatusForSavedSchedule, Busy
<1>4. Patched(t) = [t EXCEPT !.status = status]
  BY DEF Patched
<1> HIDE DEF status, willFire
<1>5. status \in {"scheduled", "ready", "running", "blocked", "waiting_on_user",
                  "pending", "done", "failed", "cancelled", "deleted"}
  BY <1>1, <1>2, <1>3 DEF Rows
<1>6. t.run.state # "none" => status \in Busy
  BY <1>1 DEF RowOK
<1>7. Quiet(t, [t EXCEPT !.status = status])
  BY <1>5, <1>6, StatusRow
<1>8. t.status \in Busy => [t EXCEPT !.status = status] = t
  BY <1>1 DEF Rows
<1> QED
  BY <1>4, <1>7, <1>8

\* What a settlement makes of another task, which waits.
LEMMA TouchedRow ==
  ASSUME NEW t \in Rows, RowOK(t, clock),
         NEW fate \in {"untouched", "released", "broken", "resolved"},
         fate \in {"released", "broken"} => t.status = "pending",
         fate = "resolved" => t.run.state = "held"
  PROVE  Quiet(t, Touched(t, fate)) /\ (fate # "untouched" => ~IsIdle(t))
<1>1. CASE fate = "untouched"
  BY <1>1, QuietSteps DEF Touched
<1>2. CASE fate = "released"
  <2>1. Touched(t, fate) = Patched(t) /\ t.status = "pending"
    BY <1>2 DEF Touched
  <2> QED
    BY <2>1, PatchedRow DEF IsIdle
<1>3. CASE fate = "broken"
  <2>1. Touched(t, fate) = [t EXCEPT !.status = "blocked"] /\ t.status = "pending"
    BY <1>3 DEF Touched
  <2> QED
    BY <2>1, StatusRow DEF IsIdle, Busy
<1>4. CASE fate = "resolved"
  <2>1. Touched(t, fate) = Settled(t, t.run.outcome) /\ t.run.state = "held"
    BY <1>4 DEF Touched
  <2>2. t.run.outcome \in Outcomes /\ t.status \in Busy
    BY <2>1 DEF RowOK
  <2> QED
    BY <2>1, <2>2, SettledRow DEF IsIdle, Busy
<1> QED
  BY <1>1, <1>2, <1>3, <1>4

\* What the recovery of a run keeps of its row.
LEMMA RecoveredRow ==
  ASSUME NEW t \in Rows, RowOK(t, clock), NEW opened \in BOOLEAN
  PROVE  Quiet(t, Recovered(t, opened))
<1>1. CASE t.run.state # "running"
  BY <1>1, QuietSteps DEF Recovered, GivenUp
<1>2. CASE t.run.state = "running" /\ ~t.run.retried
  <2> DEFINE run == [t.run EXCEPT !.state = "queued", !.retried = TRUE]
             r   == [t EXCEPT !.status = "ready", !.run = run]
  <2>1. run \in Runs /\ run.state = "queued" /\ run.source = t.run.source
    BY DEF Rows, Runs
  <2>2. Recovered(t, opened) = r
    BY <1>2 DEF Recovered, GivenUp, Rows, Runs
  <2> HIDE DEF run
  <2>3. Quiet(t, r)
    BY <2>1, RunRow DEF Busy, IsScheduledRun
  <2> QED
    BY <2>2, <2>3
<1>3. CASE t.run.state = "running" /\ t.run.retried /\ IsScheduledRun(t.run)
  <2>1. Recovered(t, opened) = IF opened THEN Held(t, "failed") ELSE Settled(t, "failed")
    BY <1>3 DEF Recovered, GivenUp, Ended
  <2> QED
    BY <2>1, SettledRow, HeldRow DEF Outcomes
<1>4. CASE t.run.state = "running" /\ t.run.retried /\ ~IsScheduledRun(t.run)
  <2>1. Recovered(t, opened) = [t EXCEPT !.status = "waiting_on_user", !.run = NoRun]
    BY <1>4 DEF Recovered, GivenUp
  <2> QED
    BY <2>1, RunRow, NoRunFields
<1> QED
  BY <1>1, <1>2, <1>3, <1>4 DEF Rows, Runs

\* The boot starts at most the one run whose time it missed.
LEMMA BootedKept ==
  ASSUME ServerTypeOK, NEW t \in Rows, NEW r, Quiet(t, r)
  PROVE  Kept(t, Booted(r))
<1> DEFINE missed == LatestMissedFireAt(r, clock)
           f      == Fired(r, missed)
<1>0. Booted(r) = Synced(IF IsIdle(r) /\ missed # Never THEN f ELSE r)
  BY DEF Booted
<1>1. /\ r \in Rows /\ RowOK(r, clock) /\ r.iterations <= t.iterations
      /\ r.lastFiredAt = t.lastFiredAt /\ r.iterations \in Nat /\ t.iterations \in Nat
  BY DEF Quiet, Rows
<1>2. missed \in 0..clock /\ (missed # Never => Fits(r, missed))
  BY <1>1, MissedFits
<1>3. CASE IsIdle(r) /\ missed # Never
  <2>1. /\ f \in Rows /\ RowOK(f, clock) /\ f.status = "ready" /\ StartsOnTime(r, f)
    BY <1>1, <1>2, <1>3, FiredRow
  <2>2. Booted(r) = Synced(f)
    BY <1>0, <1>3
  <2> HIDE DEF f
  <2>3. Synced(f) = [row |-> f, timer |-> Never]
    BY <2>1 DEF Synced, IsIdle
  <2>4. Kept(f, Synced(f))
    BY <2>1, SyncedKept
  <2>5. f.iterations \in Nat
    BY <2>1 DEF Rows
  <2>6. StartsOnTime(t, f)
    BY <1>1, <2>1, <2>5 DEF StartsOnTime
  <2> QED
    BY <2>2, <2>3, <2>4, <2>6 DEF Kept
<1>4. CASE ~(IsIdle(r) /\ missed # Never)
  <2>1. Booted(r) = Synced(r)
    BY <1>0, <1>4
  <2> QED
    BY <2>1, SyncAfter
<1> QED
  BY <1>3, <1>4

\* Time passes: what was armed stays armed for its time, or is due.
LEMMA TickKeeps ==
  ASSUME ServerTypeOK, NEW t \in Rows, RowOK(t, clock), NEW time \in 0..MaxTime + Period,
         Armed(t, time, clock)
  PROVE  RowOK(t, clock + 1) /\ Armed(t, time, clock + 1)
<1>1. /\ t.fireAt \in 0..MaxTime /\ t.lastFiredAt \in 0..MaxTime /\ t.enabledAt \in 0..MaxTime
      /\ t.limit.stopAfter \in Nat /\ clock \in Nat
  BY FireTimes, LimitTypes, Matches DEF Rows
<1>2. RowOK(t, clock + 1)
  BY <1>1 DEF RowOK
<1>3. CASE t.kind = "cron_once"
  <2>1. /\ NextFireAt(t, clock) = IF t.fireAt > clock THEN t.fireAt ELSE Never
        /\ NextFireAt(t, clock + 1) = IF t.fireAt > clock + 1 THEN t.fireAt ELSE Never
    BY <1>3 DEF NextFireAt
  <2>2. /\ t.fireAt <= clock => LatestMissedFireAt(t, clock + 1) = LatestMissedFireAt(t, clock)
        /\ LatestMissedFireAt(t, clock + 1) # Never => t.fireAt <= clock + 1
    BY <1>1, <1>3 DEF LatestMissedFireAt, Never
  <2> QED
    BY <1>1, <1>2, <1>3, <2>1, <2>2 DEF Armed, HasTime, Never
<1>4. CASE t.kind = "cron_repeat"
  <2>1. NextMatch(clock) \in Nat /\ NextMatch(clock + 1) \in Nat /\ NextMatch(clock) > clock
    <3>1. clock \in Nat /\ clock + 1 \in Nat /\ Period \in Nat \ {0}
      BY <1>1, CronAssumption
    <3>2. /\ (clock \div Period + 1) * Period \in Nat /\ clock < (clock \div Period + 1) * Period
          /\ ((clock + 1) \div Period + 1) * Period \in Nat
          /\ clock + 1 < ((clock + 1) \div Period + 1) * Period
      BY <3>1, DivBounds, Zenon
    <3>3. NextMatch(clock) \in Nat /\ clock < NextMatch(clock) /\ NextMatch(clock + 1) \in Nat
      BY <3>2, Zenon DEF NextMatch
    <3> QED
      BY <3>3, <1>1
  <2>2. /\ NextMatch(clock + 1) = NextMatch(clock) \/ NextMatch(clock) = clock + 1
        /\ NextMatch(clock + 1) > clock + 1
    <3>1. clock \in Nat /\ clock + 1 \in Nat /\ Period \in Nat \ {0}
      BY <1>1, CronAssumption
    <3>2. \/ (clock + 1) \div Period = clock \div Period
          \/ (clock \div Period + 1) * Period = clock + 1
      BY <3>1, DivStep, Zenon
    <3>3. clock + 1 < ((clock + 1) \div Period + 1) * Period
      BY <3>1, DivBounds, Zenon
    <3>4. clock + 1 < NextMatch(clock + 1)
      BY <3>3, Zenon DEF NextMatch
    <3>5. NextMatch(clock + 1) = NextMatch(clock) \/ NextMatch(clock) = clock + 1
      BY <3>2, Zenon DEF NextMatch
    <3> QED
      BY <3>4, <3>5, <2>1, <1>1
  <2>3. PastStop(t, NextMatch(clock)) => PastStop(t, NextMatch(clock + 1))
    BY <1>1, <2>1, <2>2 DEF PastStop
  <2>4. NextFireAt(t, clock) = IF OutOfRuns(t) \/ PastStop(t, NextMatch(clock)) THEN Never
                               ELSE NextMatch(clock)
    BY <1>4 DEF NextFireAt
  <2>5. NextFireAt(t, clock + 1) = IF OutOfRuns(t) \/ PastStop(t, NextMatch(clock + 1))
                                   THEN Never ELSE NextMatch(clock + 1)
    BY <1>4 DEF NextFireAt
  <2> QED
    BY <1>1, <1>2, <1>4, <2>1, <2>2, <2>3, <2>4, <2>5 DEF Armed, HasTime, Never
<1> QED
  BY <1>2, <1>3, <1>4 DEF Rows
-----------------------------------------------------------------------------
(* The invariant of the cron registry                                      *)

TaskOK(c) == RowOK(cron[c], clock) /\ TimerFits(cron[c], timer[c])

CronInv ==
  /\ ServerTypeOK /\ CronTypeOK
  /\ \A c \in Crons : TaskOK(c)
  /\ IdleIsArmed

\* What a step does to the tasks, and all that FiresOnItsSchedule asks of it.
CronStepOK == CronTypeOK' /\ (\A c \in Crons : TaskOK(c)') /\ IdleIsArmed'
              /\ \A c \in Crons : StartsOnTime(cron[c], cron'[c])

\* A step leaves a task as it was, makes of it what the registry makes of a row,
\* or changes its row behind the registry's back, when it has no timer.
Left(d) ==
  /\ UNCHANGED up
  /\ cron'[d] = cron[d] /\ timer'[d] = timer[d]
  /\ (d \in owed \cup unseen => d \in owed' \cup unseen')

Saved(d) == Kept(cron[d], [row |-> cron'[d], timer |-> timer'[d]])

Unsynced(d) ==
  /\ timer'[d] = Never /\ Quiet(cron[d], cron'[d])
  /\ (IsIdle(cron'[d]) => d \in owed' \cup unseen')

\* A step that does one of the three to each task.
LEMMA StepOK ==
  ASSUME CronInv, UNCHANGED clock,
         cron' = [d \in Crons |-> cron'[d]], timer' = [d \in Crons |-> timer'[d]],
         owed' \subseteq Crons, unseen' \subseteq Crons,
         \A d \in Crons : Left(d) \/ Saved(d) \/ Unsynced(d)
  PROVE  CronStepOK
<1>1. ASSUME NEW d \in Crons
      PROVE  /\ cron'[d] \in Rows /\ timer'[d] \in 0..MaxTime + Period
             /\ TaskOK(d)' /\ StartsOnTime(cron[d], cron'[d])
             /\ (up' /\ d \notin owed' \cup unseen' => Armed(cron'[d], timer'[d], clock'))
  <2>0. cron[d] \in Rows /\ timer[d] \in 0..MaxTime + Period /\ cron[d].iterations \in Nat
    BY DEF CronInv, CronTypeOK, Rows
  <2>1. CASE Left(d)
    <3>1. StartsOnTime(cron[d], cron[d])
      BY <2>0 DEF StartsOnTime
    <3> QED
      BY <2>0, <2>1, <3>1 DEF Left, TaskOK, CronInv, IdleIsArmed
  <2>2. CASE Saved(d)
    BY <2>2 DEF Saved, Kept, TaskOK
  <2>3. CASE Unsynced(d)
    <3>1. cron'[d] \in Rows /\ RowOK(cron'[d], clock') /\ timer'[d] = Never
      BY <2>3 DEF Unsynced, Quiet
    <3>2. Never \in 0..MaxTime + Period
      BY ServerAssumption, CronAssumption DEF Never
    <3>3. StartsOnTime(cron[d], cron'[d])
      <4>1. cron'[d].iterations \in Nat /\ cron'[d].iterations <= cron[d].iterations
        BY <2>3 DEF Unsynced, Quiet, Rows
      <4> QED
        BY <2>0, <4>1 DEF StartsOnTime
    <3>4. ~IsIdle(cron'[d]) => Armed(cron'[d], timer'[d], clock')
      BY <3>1 DEF Armed
    <3> QED
      BY <2>3, <3>1, <3>2, <3>3, <3>4 DEF Unsynced, TaskOK, TimerFits
  <2> QED
    BY <2>1, <2>2, <2>3
<1>2. CronTypeOK'
  BY <1>1 DEF CronTypeOK
<1> QED
  BY <1>1, <1>2 DEF CronStepOK, IdleIsArmed

\* A handler that saves what the registry makes of one row.
LEMMA SavesStep ==
  ASSUME CronInv, UNCHANGED <<clock, up>>,
         NEW c \in Crons, NEW s, Kept(cron[c], s), Saves(c, s)
  PROVE  CronStepOK
<1>1. /\ cron \in [Crons -> Rows] /\ timer \in [Crons -> 0..MaxTime + Period]
      /\ owed \subseteq Crons /\ unseen \subseteq Crons
  BY DEF CronInv, CronTypeOK
<1>2. /\ cron' = [cron EXCEPT ![c] = s.row] /\ timer' = [timer EXCEPT ![c] = s.timer]
      /\ owed' = owed /\ unseen' = unseen \ {c}
  BY DEF Saves
<1>3. ASSUME NEW d \in Crons
      PROVE  Left(d) \/ Saved(d)
  <2>1. CASE d = c
    <3>1. cron'[d] = s.row /\ timer'[d] = s.timer
      BY <1>1, <1>2, <2>1
    <3> QED
      BY <2>1, <3>1 DEF Saved, Kept
  <2>2. CASE d # c
    BY <1>1, <1>2, <2>2 DEF Left
  <2> QED
    BY <2>1, <2>2
<1>4. cron' = [d \in Crons |-> cron'[d]] /\ timer' = [d \in Crons |-> timer'[d]]
  BY <1>1, <1>2
<1> QED
  BY <1>1, <1>2, <1>3, <1>4, StepOK

\* A handler that changes the row of one task, which its registry then syncs.
LEMMA SyncStep ==
  ASSUME CronInv, UNCHANGED <<clock, up>>,
         NEW c \in Crons, NEW u, Quiet(cron[c], u), Saves(c, Synced(u))
  PROVE  CronStepOK
<1>1. Kept(cron[c], Synced(u))
  BY SyncAfter DEF CronInv, CronTypeOK
<1> QED
  BY <1>1, SavesStep

\* The rows after a settlement, from what it made of its own task.
LEMMA AfterRow ==
  ASSUME CronInv, NEW rows \in [Crons -> Rows], NEW fate \in Fates, MayTouch(rows, fate),
         NEW d \in Crons, Quiet(cron[d], rows[d])
  PROVE  /\ After(rows, fate)[d] = Touched(rows[d], fate[d])
         /\ Quiet(cron[d], Touched(rows[d], fate[d]))
         /\ fate[d] = "untouched" => Touched(rows[d], fate[d]) = rows[d]
         /\ fate[d] # "untouched" => ~IsIdle(rows[d])
<1>1. fate[d] \in {"untouched", "released", "broken", "resolved"}
  BY DEF Fates
<1>2. /\ fate[d] \in {"released", "broken"} => rows[d].status = "pending"
      /\ fate[d] = "resolved" => rows[d].run.state = "held"
  BY DEF MayTouch
<1>3. rows[d] \in Rows /\ RowOK(rows[d], clock) /\ cron[d] \in Rows
  BY DEF Quiet, CronInv, CronTypeOK
<1>4. Quiet(rows[d], Touched(rows[d], fate[d])) /\ (fate[d] # "untouched" => ~IsIdle(rows[d]))
  BY <1>1, <1>2, <1>3, TouchedRow
<1>5. Touched(rows[d], fate[d]) \in Rows
  BY <1>4 DEF Quiet
<1>6. Quiet(cron[d], Touched(rows[d], fate[d]))
  BY <1>3, <1>4, <1>5, QuietSteps
<1>7. After(rows, fate)[d] = Touched(rows[d], fate[d])
  BY DEF After
<1>8. fate[d] = "untouched" => Touched(rows[d], fate[d]) = rows[d]
  BY DEF Touched
<1> QED
  BY <1>4, <1>6, <1>7, <1>8

\* A settlement that no timer is synced after: of tasks that have none.
LEMMA SettlesStep ==
  ASSUME CronInv, UNCHANGED <<clock, up, timer>>,
         NEW rows \in [Crons -> Rows], NEW fate \in Fates, MayTouch(rows, fate),
         \A d \in Crons : Quiet(cron[d], rows[d]),
         \A d \in Crons : rows[d] = cron[d] \/ (timer[d] = Never /\ d \in owed' \cup unseen'),
         cron' = After(rows, fate),
         owed \cup unseen \cup TouchedBy(fate) \subseteq owed' \cup unseen',
         owed' \subseteq Crons, unseen' \subseteq Crons
  PROVE  CronStepOK
<1>1. cron \in [Crons -> Rows] /\ timer \in [Crons -> 0..MaxTime + Period]
  BY DEF CronInv, CronTypeOK
<1>2. ASSUME NEW d \in Crons
      PROVE  Left(d) \/ Unsynced(d)
  <2>1. /\ cron'[d] = Touched(rows[d], fate[d]) /\ Quiet(cron[d], cron'[d])
        /\ fate[d] = "untouched" => cron'[d] = rows[d]
        /\ fate[d] # "untouched" => ~IsIdle(rows[d])
    BY AfterRow
  <2>2. timer'[d] = timer[d]
    OBVIOUS
  <2>3. CASE rows[d] = cron[d] /\ fate[d] = "untouched"
    BY <2>1, <2>2, <2>3 DEF Left
  <2>4. CASE rows[d] = cron[d] /\ fate[d] # "untouched"
    <3>1. ~IsIdle(cron[d]) /\ TimerFits(cron[d], timer[d])
      BY <2>1, <2>4 DEF CronInv, TaskOK
    <3>2. timer[d] = Never
      BY <3>1 DEF TimerFits
    <3>3. d \in owed' \cup unseen'
      BY <2>4 DEF TouchedBy
    <3> QED
      BY <2>1, <2>2, <3>2, <3>3 DEF Unsynced
  <2>5. CASE timer[d] = Never /\ d \in owed' \cup unseen'
    BY <2>1, <2>2, <2>5 DEF Unsynced
  <2> QED
    BY <2>3, <2>4, <2>5
<1>3. cron' = [d \in Crons |-> cron'[d]] /\ timer' = [d \in Crons |-> timer'[d]]
  BY <1>1 DEF After
<1> QED
  BY <1>2, <1>3, StepOK

\* An executor settles the run of c.
LEMMA ExecutorStep ==
  ASSUME CronInv, UNCHANGED <<clock, up>>, NEW c \in Crons, NEW row, Quiet(cron[c], row),
         NEW fate \in Fates, ExecutorSettles(c, row, fate)
  PROVE  CronStepOK
<1> DEFINE rows == [cron EXCEPT ![c] = row]
<1>1. /\ cron \in [Crons -> Rows] /\ owed \subseteq Crons /\ unseen \subseteq Crons
      /\ TaskOK(c) /\ row \in Rows /\ \A d \in Crons : RowOK(cron[d], clock)
  BY DEF CronInv, CronTypeOK, Quiet, TaskOK
<1>2. timer[c] = Never
  BY <1>1 DEF ExecutorSettles, TaskOK, RowOK, TimerFits, IsIdle, Busy
<1>3. /\ MayTouch(rows, fate) /\ cron' = After(rows, fate)
      /\ owed' = owed \cup {c} \cup TouchedBy(fate) /\ UNCHANGED <<timer, unseen>>
  BY DEF ExecutorSettles
<1>4. /\ rows \in [Crons -> Rows] /\ rows[c] = row /\ \A d \in Crons \ {c} : rows[d] = cron[d]
  BY <1>1
<1> HIDE DEF rows
<1>5. TouchedBy(fate) \subseteq Crons
  BY DEF TouchedBy
<1>6. \A d \in Crons : Quiet(cron[d], rows[d])
  BY <1>1, <1>4, QuietSteps
<1>7. \A d \in Crons : rows[d] = cron[d] \/ (timer[d] = Never /\ d \in owed' \cup unseen')
  BY <1>2, <1>3, <1>4
<1>8. /\ owed \cup unseen \cup TouchedBy(fate) \subseteq owed' \cup unseen'
      /\ owed' \subseteq Crons /\ unseen' \subseteq Crons
  BY <1>1, <1>3, <1>5
<1> QED
  BY <1>3, <1>4, <1>6, <1>7, <1>8, SettlesStep

\* A task without a schedule settles, by its run or by a request.
LEMMA OtherStep ==
  ASSUME CronInv, UNCHANGED <<clock, up, timer>>, NEW fate \in Fates, MayTouch(cron, fate),
         cron' = After(cron, fate),
         \/ owed' = owed \cup TouchedBy(fate) /\ unseen' = unseen
         \/ owed' = owed /\ unseen' = unseen \cup TouchedBy(fate)
  PROVE  CronStepOK
<1>1. /\ cron \in [Crons -> Rows] /\ owed \subseteq Crons /\ unseen \subseteq Crons
      /\ \A d \in Crons : RowOK(cron[d], clock)
  BY DEF CronInv, CronTypeOK, TaskOK
<1>2. \A d \in Crons : Quiet(cron[d], cron[d])
  BY <1>1, QuietSteps
<1>3. TouchedBy(fate) \subseteq Crons
  BY DEF TouchedBy
<1>4. /\ owed \cup unseen \cup TouchedBy(fate) \subseteq owed' \cup unseen'
      /\ owed' \subseteq Crons /\ unseen' \subseteq Crons
  BY <1>1, <1>3
<1> QED
  BY <1>1, <1>2, <1>4, SettlesStep

\* A request settles c, and syncs c only.
LEMMA RequestStep ==
  ASSUME CronInv, UNCHANGED <<clock, up>>, NEW c \in Crons, NEW row, Quiet(cron[c], row),
         NEW fate \in Fates, RequestSettles(c, row, fate)
  PROVE  CronStepOK
<1> DEFINE rows   == [cron EXCEPT ![c] = row]
           synced == Synced(Touched(row, fate[c]))
<1>1. /\ cron \in [Crons -> Rows] /\ timer \in [Crons -> 0..MaxTime + Period]
      /\ owed \subseteq Crons /\ unseen \subseteq Crons
      /\ row \in Rows /\ \A d \in Crons : RowOK(cron[d], clock)
  BY DEF CronInv, CronTypeOK, Quiet, TaskOK
<1>2. /\ MayTouch(rows, fate) /\ cron' = [After(rows, fate) EXCEPT ![c] = synced.row]
      /\ timer' = [timer EXCEPT ![c] = synced.timer]
      /\ unseen' = (unseen \cup TouchedBy(fate)) \ {c} /\ owed' = owed
  BY DEF RequestSettles
<1>3. /\ rows \in [Crons -> Rows] /\ rows[c] = row /\ \A d \in Crons \ {c} : rows[d] = cron[d]
  BY <1>1
<1> HIDE DEF rows
<1>4. \A d \in Crons : Quiet(cron[d], rows[d])
  BY <1>1, <1>3, QuietSteps
<1>5. Kept(cron[c], synced)
  <2>1. Quiet(cron[c], Touched(row, fate[c]))
    BY <1>2, <1>3, <1>4, AfterRow
  <2> QED
    BY <1>1, <2>1, SyncAfter DEF CronInv
<1> HIDE DEF synced
<1>6. TouchedBy(fate) \subseteq Crons
  BY DEF TouchedBy
<1>7. ASSUME NEW d \in Crons
      PROVE  Left(d) \/ Saved(d) \/ Unsynced(d)
  <2>1. CASE d = c
    <3>1. cron'[d] = synced.row /\ timer'[d] = synced.timer
      BY <1>1, <1>2, <2>1 DEF After
    <3> QED
      BY <1>5, <2>1, <3>1 DEF Saved, Kept
  <2>2. CASE d # c /\ fate[d] = "untouched"
    <3>1. cron'[d] = rows[d] /\ timer'[d] = timer[d] /\ rows[d] = cron[d]
      BY <1>1, <1>2, <1>3, <1>4, <2>2, AfterRow DEF After
    <3>2. d \in owed \cup unseen => d \in owed' \cup unseen'
      BY <1>2, <2>2
    <3> QED
      BY <3>1, <3>2 DEF Left
  <2>3. CASE d # c /\ fate[d] # "untouched"
    <3>1. rows[d] = cron[d] /\ timer'[d] = timer[d]
      BY <1>1, <1>2, <1>3, <2>3
    <3>2. cron'[d] = After(rows, fate)[d]
      BY <1>2, <2>3 DEF After
    <3>3. Quiet(cron[d], cron'[d]) /\ ~IsIdle(cron[d])
      BY <1>2, <1>3, <1>4, <2>3, <3>1, <3>2, AfterRow
    <3>4. timer[d] = Never
      BY <3>3 DEF CronInv, TaskOK, TimerFits
    <3>5. d \in unseen'
      BY <1>2, <2>3 DEF TouchedBy
    <3> QED
      BY <3>1, <3>3, <3>4, <3>5 DEF Unsynced
  <2> QED
    BY <2>1, <2>2, <2>3
<1>8. cron' = [d \in Crons |-> cron'[d]] /\ timer' = [d \in Crons |-> timer'[d]]
  BY <1>1, <1>2 DEF After
<1> QED
  BY <1>1, <1>2, <1>6, <1>7, <1>8, StepOK

\* A run that starts has no timer to lose.
LEMMA DispatchStep ==
  ASSUME CronInv, UNCHANGED <<clock, up>>, NEW c \in Crons, Dispatch(c)
  PROVE  CronStepOK
<1> DEFINE run == [cron[c].run EXCEPT !.state = "running"]
           row == [cron[c] EXCEPT !.status = "running", !.run = run]
<1>1. /\ cron \in [Crons -> Rows] /\ timer \in [Crons -> 0..MaxTime + Period]
      /\ owed \subseteq Crons /\ unseen \subseteq Crons /\ TaskOK(c)
  BY DEF CronInv, CronTypeOK
<1>2. run \in Runs /\ run.state = "running" /\ run.source = cron[c].run.source
  BY <1>1 DEF Rows, Runs
<1>3. cron' = [cron EXCEPT ![c] = row] /\ UNCHANGED <<timer, owed, unseen>>
  BY <1>1 DEF Dispatch, Rows, Runs
<1> HIDE DEF run
<1>4. Quiet(cron[c], row) /\ ~IsIdle(row)
  <2>1. Quiet(cron[c], row)
    BY <1>1, <1>2, RunRow DEF TaskOK, Busy, IsScheduledRun
  <2>2. row.status = "running"
    BY <1>1 DEF Rows
  <2> QED
    BY <2>1, <2>2 DEF IsIdle
<1> HIDE DEF row
<1>5. timer[c] = Never
  BY <1>1 DEF Dispatch, TaskOK, RowOK, TimerFits, IsIdle, Busy
<1>6. ASSUME NEW d \in Crons
      PROVE  Left(d) \/ Unsynced(d)
  <2>1. CASE d = c
    <3>1. cron'[d] = row /\ timer'[d] = Never
      BY <1>1, <1>3, <1>5, <2>1
    <3> QED
      BY <1>4, <2>1, <3>1 DEF Unsynced
  <2>2. CASE d # c
    BY <1>1, <1>3, <2>2 DEF Left
  <2> QED
    BY <2>1, <2>2
<1>7. cron' = [d \in Crons |-> cron'[d]] /\ timer' = [d \in Crons |-> timer'[d]]
  BY <1>1, <1>3
<1> QED
  BY <1>1, <1>3, <1>6, <1>7, StepOK

\* However a run stops: it settles its task, holds it, hands it off or is parked.
LEMMA RunStopsStep ==
  ASSUME CronInv, UNCHANGED <<clock, up>>, NEW c \in Crons, RunStops(c)
  PROVE  CronStepOK
<1> DEFINE t == cron[c]
<1>0. t \in Rows /\ RowOK(t, clock)
  BY DEF CronInv, CronTypeOK, TaskOK
<1>u. Untouched \in Fates
  BY DEF Untouched, Fates
<1>1. ASSUME NEW outcome \in Outcomes, NEW fate \in Fates, RunEnds(c, outcome, fate)
      PROVE  CronStepOK
  <2>1. Quiet(t, Settled(t, outcome))
    BY <1>0, SettledRow
  <2> QED
    BY <1>1, <2>1, ExecutorStep DEF RunEnds
<1>2. ASSUME NEW outcome \in Outcomes, RunHolds(c, outcome)
      PROVE  CronStepOK
  <2>1. Quiet(t, Held(t, outcome))
    BY <1>0, HeldRow
  <2> QED
    BY <1>2, <1>u, <2>1, ExecutorStep DEF RunHolds
<1>3. CASE RunHandsOff(c)
  <2> DEFINE run == [NoRun EXCEPT !.outcome = "handed_off"]
  <2>1. run \in Runs /\ run.state = "none" /\ ~IsScheduledRun(run)
    BY DEF NoRun, Runs, IsScheduledRun, Outcomes
  <2>2. ExecutorSettles(c, [t EXCEPT !.status = "blocked", !.run = run], Untouched)
    BY <1>3 DEF RunHandsOff
  <2> HIDE DEF run
  <2>3. Quiet(t, [t EXCEPT !.status = "blocked", !.run = run])
    BY <1>0, <2>1, RunRow
  <2> QED
    BY <1>u, <2>2, <2>3, ExecutorStep
<1> DEFINE parked == [t.run EXCEPT !.state = "parked"]
           Row(status) == [t EXCEPT !.status = status, !.run = parked]
<1>4. /\ parked \in Runs /\ parked.state = "parked" /\ parked.source = t.run.source
      /\ [t EXCEPT !.status = "blocked", !.run.state = "parked"] = Row("blocked")
      /\ [t EXCEPT !.status = "waiting_on_user", !.run.state = "parked"] = Row("waiting_on_user")
  BY <1>0 DEF Rows, Runs
<1> HIDE DEF parked
<1>5. Quiet(t, Row("blocked")) /\ Quiet(t, Row("waiting_on_user"))
  BY <1>0, <1>4, RunRow DEF Busy, IsScheduledRun
<1> HIDE DEF Row
<1>6. CASE Asks(c)
  BY <1>u, <1>4, <1>5, <1>6, ExecutorStep DEF Asks
<1>7. ASSUME NEW fate \in Fates, Park(c, fate)
      PROVE  CronStepOK
  BY <1>4, <1>5, <1>7, ExecutorStep DEF Park
<1> QED
  BY <1>1, <1>2, <1>3, <1>6, <1>7 DEF RunStops

\* Each step of a running process, and what it is proved to do.
LEMMA SystemStep ==
  ASSUME CronInv, CronSystem
  PROVE  CronStepOK
<1>0. UNCHANGED <<clock, up>>
  BY DEF CronSystem, Works, serverVars
<1>1. CASE ExecutorResyncs
  <2> DEFINE s == [d \in Crons |-> Synced(cron[d])]
  <2>1. \A d \in Crons : Kept(cron[d], Synced(cron[d]))
    BY SyncedKept DEF CronInv, CronTypeOK, TaskOK
  <2>2. \A d \in Crons : Kept(cron[d], s[d])
    BY <2>1
  <2>3. /\ cron' = [d \in Crons |-> s[d].row] /\ timer' = [d \in Crons |-> s[d].timer]
        /\ owed' = {} /\ unseen' = {}
    BY <1>1 DEF ExecutorResyncs
  <2> HIDE DEF s
  <2>4. \A d \in Crons : Saved(d)
    BY <2>2, <2>3 DEF Saved, Kept
  <2>5. cron' = [d \in Crons |-> cron'[d]] /\ timer' = [d \in Crons |-> timer'[d]]
    BY <2>3
  <2> QED
    BY <1>0, <2>3, <2>4, <2>5, StepOK
<1>2. ASSUME NEW fate \in Fates, OtherRunEnds(fate)
      PROVE  CronStepOK
  BY <1>0, <1>2, OtherStep DEF OtherRunEnds
<1>3. ASSUME NEW c \in Crons,
             TimerWakes(c) \/ Resync(c) \/ Dispatch(c) \/ RunStops(c) \/ DisableRecurrence(c)
      PROVE  CronStepOK
  <2>1. /\ ServerTypeOK /\ cron[c] \in Rows /\ timer[c] \in 0..MaxTime + Period
        /\ RowOK(cron[c], clock) /\ TimerFits(cron[c], timer[c])
    BY DEF CronInv, CronTypeOK, TaskOK
  <2>2. CASE TimerWakes(c)
    <3>1. Kept(cron[c], FiredOrSynced(cron[c], timer[c]))
      BY <2>1, <2>2, WakeKept DEF TimerWakes
    <3> QED
      BY <1>0, <2>2, <3>1, SavesStep DEF TimerWakes
  <2>3. CASE Resync(c)
    <3>1. Kept(cron[c], Synced(cron[c]))
      BY <2>1, SyncedKept
    <3> QED
      BY <1>0, <2>3, <3>1, SavesStep DEF Resync
  <2>4. CASE Dispatch(c)
    BY <1>0, <2>4, DispatchStep
  <2>5. CASE RunStops(c)
    BY <1>0, <2>5, RunStopsStep
  <2>6. CASE DisableRecurrence(c)
    <3> DEFINE u == [cron[c] EXCEPT !.enabled = FALSE]
    <3>1. /\ u \in Rows /\ u.iterations = cron[c].iterations /\ u.run = cron[c].run
          /\ u.lastFiredAt = cron[c].lastFiredAt /\ u.enabledAt = cron[c].enabledAt
          /\ u.status = cron[c].status /\ cron[c].iterations \in Nat
      BY <2>1 DEF Rows
    <3>2. Saves(c, Synced(u))
      BY <2>6 DEF DisableRecurrence
    <3> HIDE DEF u
    <3>3. Quiet(cron[c], u)
      BY <2>1, <3>1 DEF Quiet, RowOK
    <3> QED
      BY <1>0, <3>2, <3>3, SyncStep
  <2> QED
    BY <1>3, <2>2, <2>3, <2>4, <2>5, <2>6
<1> QED
  BY <1>1, <1>2, <1>3 DEF CronSystem

\* What a saved schedule makes of the row of a task, which keeps its stamps
\* unless its time moves.
LEMMA ResolvedRow ==
  ASSUME ServerTypeOK, NEW t \in Rows, RowOK(t, clock),
         NEW enabled \in BOOLEAN, NEW fireAt \in OnceTimes \cup {t.fireAt}
  PROVE  LET u == Resolved(t, enabled, fireAt)
         IN /\ u \in Rows /\ RowOK(u, clock) /\ u.iterations = t.iterations
            /\ u.kind = t.kind /\ u.fireAt = fireAt
            /\ fireAt = t.fireAt => u.lastFiredAt = t.lastFiredAt
<1> DEFINE stamp    == IF enabled /\ ~t.enabled THEN clock ELSE t.enabledAt
           failures == IF enabled /\ ~t.enabled THEN 0 ELSE t.failures
           last     == IF fireAt # t.fireAt THEN Never ELSE t.lastFiredAt
           u == [t EXCEPT !.enabled = enabled, !.fireAt = fireAt, !.enabledAt = stamp,
                          !.failures = failures, !.lastFiredAt = last]
<1>1. /\ stamp \in 0..MaxTime /\ stamp <= clock /\ failures \in Nat
      /\ last \in 0..MaxTime /\ last <= clock /\ (fireAt = t.fireAt => last = t.lastFiredAt)
      /\ fireAt \in OnceTimes \cup {Never}
  BY Matches DEF Rows, RowOK, Never
<1>2. Resolved(t, enabled, fireAt) = u
  BY DEF Resolved, Rows
<1> HIDE DEF stamp, failures, last
<1>3. /\ u \in Rows /\ u.lastFiredAt = last /\ u.enabledAt = stamp /\ u.status = t.status
      /\ u.run = t.run /\ u.iterations = t.iterations /\ u.kind = t.kind /\ u.fireAt = fireAt
  BY <1>1 DEF Rows
<1> HIDE DEF u
<1>4. RowOK(u, clock)
  BY <1>1, <1>3 DEF RowOK
<1> QED
  BY <1>1, <1>2, <1>3, <1>4

\* A one-shot that is moved is armed for its new time: it starts no run.
LEMMA SaveScheduleStep ==
  ASSUME CronInv, UNCHANGED <<clock, up>>, NEW c \in Crons,
         NEW enabled \in BOOLEAN, NEW fireAt \in OnceTimes \cup {cron[c].fireAt},
         SaveSchedule(c, enabled, fireAt)
  PROVE  CronStepOK
<1> DEFINE t == cron[c]
           u == Resolved(t, enabled, fireAt)
           v == Patched(u)
<1>1. ServerTypeOK /\ t \in Rows /\ RowOK(t, clock) /\ t.iterations \in Nat
  BY DEF CronInv, CronTypeOK, TaskOK, Rows
<1>2. /\ u \in Rows /\ RowOK(u, clock) /\ u.iterations = t.iterations
      /\ u.kind = t.kind /\ u.fireAt = fireAt
      /\ fireAt = t.fireAt => u.lastFiredAt = t.lastFiredAt
  BY <1>1, ResolvedRow
<1>3. /\ fireAt # t.fireAt => t.kind = "cron_once" /\ fireAt > clock
      /\ Saves(c, Synced(v))
  BY DEF SaveSchedule
<1> HIDE DEF u
<1>4. Quiet(u, v)
  BY <1>2, PatchedRow
<1>5. v.kind = u.kind /\ v.fireAt = u.fireAt
  BY <1>2 DEF Patched, Rows
<1> HIDE DEF v
<1>6. v \in Rows /\ RowOK(v, clock) /\ v.iterations \in Nat /\ v.iterations <= t.iterations
  BY <1>2, <1>4 DEF Quiet, Rows
<1>7. CASE fireAt = t.fireAt
  <2>1. Quiet(t, v)
    BY <1>2, <1>4, <1>6, <1>7 DEF Quiet
  <2> QED
    BY <1>3, <2>1, SyncStep
<1>8. CASE fireAt # t.fireAt
  <2>1. NextFireAt(v, clock) # Never
    BY <1>1, <1>2, <1>3, <1>5, <1>8, Matches DEF NextFireAt, Never
  <2>2. Synced(v).row = v
    BY <2>1 DEF Synced
  <2>3. Kept(v, Synced(v))
    BY <1>1, <1>6, SyncedKept
  <2>4. Kept(t, Synced(v))
    BY <1>1, <1>6, <2>2, <2>3 DEF Kept, StartsOnTime
  <2> QED
    BY <1>3, <2>4, SavesStep
<1> QED
  BY <1>7, <1>8

\* A run that is taken off the queue: one the schedule started counts no more.
LEMMA DequeuedRow ==
  ASSUME NEW t \in Rows, RowOK(t, clock)
  PROVE  Quiet(t, Dequeued(t)) /\ Dequeued(t).run = NoRun
<1> DEFINE n == IF IsScheduledRun(t.run) THEN t.iterations - 1 ELSE t.iterations
           u == [t EXCEPT !.status = "pending", !.run = NoRun, !.iterations = n]
<1>1. n \in Nat /\ n <= t.iterations
  BY DEF RowOK, Rows
<1>2. Dequeued(t) = u
  BY DEF Dequeued
<1> HIDE DEF n
<1>3. /\ u \in Rows /\ u.status = "pending" /\ u.run = NoRun /\ u.iterations = n
      /\ u.lastFiredAt = t.lastFiredAt /\ u.enabledAt = t.enabledAt
  BY <1>1, NoRunFields DEF Rows
<1> HIDE DEF u
<1>4. Quiet(t, u)
  BY <1>1, <1>3, NoRunFields DEF Quiet, RowOK
<1> QED
  BY <1>2, <1>3, <1>4

\* A task that the board marks done.
LEMMA MarkedDoneRow ==
  ASSUME NEW t \in Rows, RowOK(t, clock)
  PROVE  Quiet(t, MarkedDone(t))
<1> DEFINE off     == IF t.run.state = "queued" THEN Dequeued(t) ELSE t
           enabled == off.enabled /\ t.status # "scheduled"
           u == [off EXCEPT !.status = "done", !.run = NoRun, !.enabled = enabled]
<1>1. Quiet(t, off)
  BY DequeuedRow, QuietSteps
<1>2. MarkedDone(t) = Patched(u)
  BY DEF MarkedDone
<1>3. off \in Rows /\ off.enabled \in BOOLEAN
  BY <1>1 DEF Quiet, Rows
<1> HIDE DEF off
<1>4. enabled \in BOOLEAN
  BY <1>3
<1> HIDE DEF enabled
<1>5. /\ u \in Rows /\ u.status = "done" /\ u.run = NoRun /\ u.iterations = off.iterations
      /\ u.lastFiredAt = off.lastFiredAt /\ u.enabledAt = off.enabledAt
  BY <1>3, <1>4, NoRunFields DEF Rows
<1> HIDE DEF u
<1>6. Quiet(t, u)
  BY <1>1, <1>5, NoRunFields DEF Quiet, RowOK
<1>7. Quiet(u, Patched(u))
  BY <1>6, PatchedRow DEF Quiet
<1>8. u \in Rows /\ Patched(u) \in Rows
  BY <1>6, <1>7 DEF Quiet
<1> QED
  BY <1>2, <1>6, <1>7, <1>8, QuietSteps

\* A deleted task has no run and no timer.
LEMMA DeleteStep ==
  ASSUME CronInv, UNCHANGED <<clock, up>>, NEW c \in Crons, Delete(c)
  PROVE  CronStepOK
<1> DEFINE u == New("cron_once", "deleted", Never, NoLimit)
<1>1. u \in Rows /\ RowOK(u, clock) /\ ~IsIdle(u) /\ u.iterations = 0
  BY ServerAssumption, NoRunFields DEF New, Rows, RowOK, IsIdle, CronInv, ServerTypeOK, Never
<1>2. Saves(c, Synced(u))
  BY DEF Delete
<1> HIDE DEF u
<1>3. Synced(u) = [row |-> u, timer |-> Never]
  BY <1>1 DEF Synced
<1>4. Kept(u, Synced(u))
  BY <1>1, SyncedKept DEF CronInv
<1>5. cron[c].iterations \in Nat
  BY DEF CronInv, CronTypeOK, Rows
<1>6. Kept(cron[c], Synced(u))
  BY <1>1, <1>3, <1>4, <1>5 DEF Kept, StartsOnTime
<1> QED
  BY <1>2, <1>6, SavesStep

\* A request that sets the status of a task, its run, or both.
LEMMA StatusStep ==
  ASSUME CronInv, UNCHANGED <<clock, up>>, NEW c \in Crons,
         \/ RunNow(c) \/ Dequeue(c) \/ Resume(c) \/ TakeOver(c)
         \/ \E status \in {"pending", "done", "failed", "cancelled", "scheduled"} :
              PatchStatus(c, status)
  PROVE  CronStepOK
<1> DEFINE t == cron[c]
<1>1. t \in Rows /\ RowOK(t, clock)
  BY DEF CronInv, CronTypeOK, TaskOK
<1>2. CASE RunNow(c)
  <2> DEFINE run == RunOf("manual")
  <2>1. run \in Runs /\ run.state = "queued" /\ ~IsScheduledRun(run)
    BY NoRunFields
  <2>2. Saves(c, Synced([t EXCEPT !.status = "ready", !.run = run]))
    BY <1>2 DEF RunNow
  <2> HIDE DEF run
  <2>3. Quiet(t, [t EXCEPT !.status = "ready", !.run = run])
    BY <1>1, <2>1, RunRow DEF Busy
  <2> QED
    BY <2>2, <2>3, SyncStep
<1>3. CASE Dequeue(c)
  BY <1>1, <1>3, DequeuedRow, SyncStep DEF Dequeue
<1>4. CASE Resume(c)
  <2> DEFINE run == [t.run EXCEPT !.state = "queued"]
  <2>1. run \in Runs /\ run.state = "queued" /\ run.source = t.run.source
    BY <1>1 DEF Rows, Runs
  <2>2. [t EXCEPT !.run.state = "queued", !.status = "ready"]
        = [t EXCEPT !.status = "ready", !.run = run]
    BY <1>1 DEF Rows, Runs
  <2> HIDE DEF run
  <2>3. Quiet(t, [t EXCEPT !.status = "ready", !.run = run])
    BY <1>1, <2>1, RunRow DEF Busy, IsScheduledRun
  <2> QED
    BY <1>4, <2>2, <2>3, SyncStep DEF Resume
<1>5. CASE TakeOver(c)
  <2>1. Quiet(t, [t EXCEPT !.status = "pending", !.run = NoRun])
    BY <1>1, NoRunFields, RunRow
  <2> QED
    BY <1>5, <2>1, SyncStep DEF TakeOver
<1>6. ASSUME NEW status \in {"pending", "done", "failed", "cancelled", "scheduled"},
             PatchStatus(c, status)
      PROVE  CronStepOK
  <2> DEFINE u == [t EXCEPT !.status = status, !.run = NoRun]
  <2>1. Quiet(t, u)
    BY <1>1, NoRunFields, RunRow
  <2>2. Saves(c, Synced(Patched(u)))
    BY <1>6 DEF PatchStatus
  <2> HIDE DEF u
  <2>3. Quiet(u, Patched(u))
    BY <2>1, PatchedRow DEF Quiet
  <2>4. u \in Rows /\ Patched(u) \in Rows
    BY <2>1, <2>3 DEF Quiet
  <2>5. Quiet(t, Patched(u))
    BY <1>1, <2>1, <2>3, <2>4, QuietSteps
  <2> QED
    BY <2>2, <2>5, SyncStep
<1> QED
  BY <1>2, <1>3, <1>4, <1>5, <1>6

\* Each step of a user.
LEMMA UserStep ==
  ASSUME CronInv, CronUser
  PROVE  CronStepOK
<1>0. UNCHANGED <<clock, up>>
  BY DEF CronUser, Asked
<1>1. ASSUME NEW fate \in Fates, OtherIsSettled(fate)
      PROVE  CronStepOK
  BY <1>0, <1>1, OtherStep DEF OtherIsSettled
<1>2. ASSUME NEW c \in Crons,
             \/ RunNow(c) \/ Dequeue(c) \/ Resume(c) \/ TakeOver(c)
             \/ \E status \in {"pending", "done", "failed", "cancelled", "scheduled"} :
                  PatchStatus(c, status)
      PROVE  CronStepOK
  BY <1>0, <1>2, StatusStep
<1>3. ASSUME NEW c \in Crons, Delete(c)
      PROVE  CronStepOK
  BY <1>0, <1>3, DeleteStep
<1>4. ASSUME NEW c \in Crons, NEW fate \in Fates, Cancel(c, fate) \/ MarkDone(c, fate)
      PROVE  CronStepOK
  <2>1. cron[c] \in Rows /\ RowOK(cron[c], clock)
    BY DEF CronInv, CronTypeOK, TaskOK
  <2>2. /\ Quiet(cron[c], Settled(cron[c], "cancelled"))
        /\ Quiet(cron[c], MarkedDone(cron[c]))
    BY <2>1, SettledRow, MarkedDoneRow DEF Outcomes
  <2>3. \/ RequestSettles(c, Settled(cron[c], "cancelled"), fate)
        \/ RequestSettles(c, MarkedDone(cron[c]), fate)
    BY <1>4 DEF Cancel, MarkDone
  <2> QED
    BY <1>0, <2>2, <2>3, RequestStep
<1>5. ASSUME NEW c \in Crons, NEW enabled \in BOOLEAN,
             NEW fireAt \in OnceTimes \cup {cron[c].fireAt}, SaveSchedule(c, enabled, fireAt)
      PROVE  CronStepOK
  BY <1>0, <1>5, SaveScheduleStep
<1> QED
  BY <1>1, <1>2, <1>3, <1>4, <1>5 DEF CronUser

\* The tasks of a new process: nothing is due yet.
LEMMA CronStarts ==
  ASSUME ServerInit, CronInit
  PROVE  CronInv
<1>1. ServerTypeOK
  BY ServerAssumption DEF ServerInit, ServerTypeOK
<1>2. ASSUME NEW c \in Crons
      PROVE  /\ cron[c] \in Rows /\ RowOK(cron[c], clock) /\ Synced(cron[c]).row = cron[c]
  <2>1. Never \in 0..MaxTime /\ clock = Never /\ Never = 0 /\ 0 \in 0..MaxTime
    BY ServerAssumption DEF Never, ServerInit
  <2>2. CASE \E status \in {"scheduled", "pending"}, fireAt \in OnceTimes :
               cron[c] = New("cron_once", status, fireAt, NoLimit)
    <3> PICK status \in {"scheduled", "pending"}, fireAt \in OnceTimes :
               cron[c] = New("cron_once", status, fireAt, NoLimit)
      BY <2>2
    <3>1. cron[c] \in Rows /\ RowOK(cron[c], clock)
      BY <2>1, NoRunFields DEF New, Rows, RowOK
    <3>2. cron[c].kind = "cron_once" /\ cron[c].fireAt = fireAt /\ fireAt > clock
      BY <2>1, FireTimes DEF New, Never
    <3>3. NextFireAt(cron[c], clock) # Never
      BY <3>2, <2>1, FireTimes DEF NextFireAt, Never
    <3> QED
      BY <3>1, <3>3 DEF Synced
  <2>3. CASE \E status \in {"scheduled", "pending"}, limit \in Limits :
               cron[c] = New("cron_repeat", status, Never, limit)
    <3> PICK status \in {"scheduled", "pending"}, limit \in Limits :
               cron[c] = New("cron_repeat", status, Never, limit)
      BY <2>3
    <3>1. cron[c] \in Rows /\ RowOK(cron[c], clock)
      BY <2>1, NoRunFields DEF New, Rows, RowOK
    <3>2. cron[c].kind = "cron_repeat"
      BY DEF New
    <3> QED
      BY <3>1, <3>2 DEF Synced
  <2> QED
    BY <2>2, <2>3 DEF CronInit
<1>3. ASSUME NEW c \in Crons
      PROVE  Kept(cron[c], Synced(cron[c]))
  BY <1>1, <1>2, SyncedKept
<1>4. ASSUME NEW c \in Crons
      PROVE  /\ timer[c] \in 0..MaxTime + Period
             /\ TaskOK(c) /\ Armed(cron[c], timer[c], clock)
  <2>1. timer[c] = Synced(cron[c]).timer
    BY DEF CronInit
  <2> QED
    BY <1>2, <1>3, <2>1 DEF Kept, TaskOK
<1>5. CronTypeOK
  <2>1. /\ cron = [c \in Crons |-> cron[c]] /\ timer = [c \in Crons |-> timer[c]]
        /\ owed = {} /\ unseen = {}
    BY DEF CronInit
  <2> QED
    BY <1>2, <1>4, <2>1 DEF CronTypeOK
<1> QED
  BY <1>1, <1>4, <1>5 DEF CronInv, IdleIsArmed

\* Every step of the two registries, as the tasks see it.
LEMMA CronNext ==
  ASSUME CronInv, [Next]_vars
  PROVE  CronInv' /\ \A c \in Crons : StartsOnTime(cron[c], cron'[c])
<1>0. ServerTypeOK'
  <2>1. ServerTypeOK /\ MaxTime \in Nat /\ MaxCrashes \in Nat /\ MaxEdits \in Nat
    BY ServerAssumption DEF CronInv
  <2>2. Tick \/ Die \/ Start \/ Works \/ Asked \/ UNCHANGED serverVars
    BY DEF Next, vars, TimePasses, Crash, Boot, CronSystem, CronUser, WakeNext
  <2> QED
    <3>1. CASE Tick
      BY <2>1, <3>1 DEF ServerTypeOK, Tick
    <3>2. CASE Die
      <4>1. crashes' \in 0..MaxCrashes /\ clock' = clock /\ edits' = edits
        BY <2>1, <3>2, SMT DEF ServerTypeOK, Die
      <4>2. up' = FALSE
        BY <3>2, Zenon DEF Die
      <4> QED
        BY <2>1, <4>1, <4>2 DEF ServerTypeOK
    <3>3. CASE Start
      BY <2>1, <3>3 DEF ServerTypeOK, Start
    <3>4. CASE Works \/ UNCHANGED serverVars
      BY <2>1, <3>4 DEF ServerTypeOK, Works, serverVars
    <3>5. CASE Asked
      BY <2>1, <3>5 DEF ServerTypeOK, Asked
    <3> QED
      BY <2>2, <3>1, <3>2, <3>3, <3>4, <3>5
<1>1. SUFFICES CronStepOK
  BY <1>0 DEF CronInv, CronStepOK
<1>2. ASSUME UNCHANGED <<cronVars, clock, up>>
      PROVE  CronStepOK
  <2>1. \A c \in Crons : StartsOnTime(cron[c], cron[c])
    BY DEF StartsOnTime, CronInv, CronTypeOK, Rows
  <2> QED
    BY <1>2, <2>1 DEF CronInv, CronStepOK, CronTypeOK, TaskOK, IdleIsArmed, cronVars
<1>3. CASE TimePasses
  <2>1. clock' = clock + 1 /\ UNCHANGED <<up, cron, timer, owed, unseen>>
    BY <1>3 DEF TimePasses, Tick, cronVars
  <2>2. ASSUME NEW c \in Crons
        PROVE  /\ TaskOK(c)' /\ StartsOnTime(cron[c], cron'[c])
               /\ (up' /\ c \notin owed' \cup unseen' => Armed(cron'[c], timer'[c], clock'))
    <3>1. /\ ServerTypeOK /\ cron[c] \in Rows /\ timer[c] \in 0..MaxTime + Period
          /\ RowOK(cron[c], clock) /\ TimerFits(cron[c], timer[c])
          /\ (up /\ c \notin owed \cup unseen => Armed(cron[c], timer[c], clock))
      BY DEF CronInv, CronTypeOK, TaskOK, IdleIsArmed
    <3>2. RowOK(cron[c], clock + 1)
      BY <3>1, Matches DEF RowOK, Rows
    <3>3. up /\ c \notin owed \cup unseen => Armed(cron[c], timer[c], clock + 1)
      BY <3>1, TickKeeps
    <3> QED
      BY <2>1, <3>1, <3>2, <3>3 DEF TaskOK, StartsOnTime, Rows
  <2> QED
    BY <2>1, <2>2 DEF CronStepOK, CronInv, CronTypeOK, IdleIsArmed
<1>4. CASE Crash
  <2>1. /\ ~up' /\ UNCHANGED <<clock, cron>> /\ timer' = [c \in Crons |-> Never]
        /\ owed' = {} /\ unseen' = {}
    BY <1>4 DEF Crash, Die, CronDies
  <2>2. Never \in 0..MaxTime + Period
    BY ServerAssumption, CronAssumption DEF Never
  <2>3. \A c \in Crons : StartsOnTime(cron[c], cron[c])
    BY DEF StartsOnTime, CronInv, CronTypeOK, Rows
  <2> QED
    BY <2>1, <2>2, <2>3 DEF CronStepOK, CronInv, CronTypeOK, TaskOK, TimerFits, IdleIsArmed
<1>5. CASE Boot
  <2>1. PICK opened \in SUBSET Crons, fate \in Fates :
          LET rows   == [c \in Crons |-> Recovered(cron[c], c \in opened)]
              booted == [c \in Crons |-> Booted(After(rows, fate)[c])]
          IN /\ MayTouch(rows, fate)
             /\ cron' = [c \in Crons |-> booted[c].row]
             /\ timer' = [c \in Crons |-> booted[c].timer]
             /\ UNCHANGED <<owed, unseen>>
    BY <1>5 DEF Boot, CronBoots
  <2>2. UNCHANGED clock
    BY <1>5 DEF Boot, Start
  <2> DEFINE rows   == [c \in Crons |-> Recovered(cron[c], c \in opened)]
             booted == [c \in Crons |-> Booted(After(rows, fate)[c])]
  <2>3. /\ MayTouch(rows, fate) /\ cron' = [c \in Crons |-> booted[c].row]
        /\ timer' = [c \in Crons |-> booted[c].timer] /\ UNCHANGED <<owed, unseen>>
    BY <2>1
  <2>4. ASSUME NEW c \in Crons
        PROVE  Quiet(cron[c], Recovered(cron[c], c \in opened))
    <3>1. cron[c] \in Rows /\ RowOK(cron[c], clock) /\ (c \in opened) \in BOOLEAN
      BY DEF CronInv, CronTypeOK, TaskOK
    <3> QED
      BY <3>1, RecoveredRow
  <2>5. rows \in [Crons -> Rows] /\ \A c \in Crons : Quiet(cron[c], rows[c])
    BY <2>4 DEF Quiet
  <2> HIDE DEF rows
  <2>6. ASSUME NEW c \in Crons
        PROVE  Kept(cron[c], booted[c])
    <3>1. Quiet(cron[c], After(rows, fate)[c])
      BY <2>3, <2>5, AfterRow
    <3>2. ServerTypeOK /\ cron[c] \in Rows
      BY DEF CronInv, CronTypeOK
    <3> QED
      BY <3>1, <3>2, BootedKept
  <2> HIDE DEF booted
  <2>7. \A c \in Crons : Saved(c)
    BY <2>3, <2>6 DEF Saved, Kept
  <2>8. cron' = [c \in Crons |-> cron'[c]] /\ timer' = [c \in Crons |-> timer'[c]]
    BY <2>3
  <2>9. owed' \subseteq Crons /\ unseen' \subseteq Crons
    BY <2>3 DEF CronInv, CronTypeOK
  <2> QED
    BY <2>2, <2>7, <2>8, <2>9, StepOK
<1>6. CASE CronSystem
  BY <1>6, SystemStep
<1>7. CASE CronUser
  BY <1>7, UserStep
<1>8. CASE WakeNext /\ UNCHANGED cronVars
  <2>1. UNCHANGED <<clock, up>>
    BY <1>8 DEF WakeNext, Works, Asked, serverVars
  <2> QED
    BY <1>2, <1>8, <2>1
<1>9. CASE UNCHANGED vars
  BY <1>2, <1>9 DEF vars, serverVars
<1> QED
  BY <1>3, <1>4, <1>5, <1>6, <1>7, <1>8, <1>9 DEF Next
-----------------------------------------------------------------------------
(* The invariant of the wake-up registry                                   *)

WakeInv ==
  /\ ServerTypeOK /\ WakeTypeOK
  /\ \A th \in Threads : IsPending(th) => wakeup[th].depth \in 1..MaxChain
  /\ PendingIsArmed

\* The same of one thread, whose row, alarm, deliveries and turn are these.
ThreadOK(row, time, deliveries, t, running) ==
  /\ row \in [fireAt: 0..2 * MaxTime, depth: 0..MaxChain]
  /\ row # NoWakeup => row.depth \in 1..MaxChain
  /\ time \in 0..2 * MaxTime /\ deliveries \in Seq(1..MaxChain) /\ t \in -2..MaxChain
  /\ running /\ t # NotThere => time = row.fireAt

Becomes(th, row, time, deliveries, t) ==
  /\ wakeup' = [wakeup EXCEPT ![th] = row] /\ alarm' = [alarm EXCEPT ![th] = time]
  /\ fired' = [fired EXCEPT ![th] = deliveries] /\ turn' = [turn EXCEPT ![th] = t]

\* A step for one thread leaves the invariant of the others alone.
LEMMA ThreadStep ==
  ASSUME WakeInv, ServerTypeOK', UNCHANGED up, NEW th \in Threads,
         NEW row, NEW time, NEW deliveries, NEW t,
         ThreadOK(row, time, deliveries, t, up), Becomes(th, row, time, deliveries, t)
  PROVE  WakeInv'
<1>1. WakeTypeOK'
  BY DEF WakeInv, WakeTypeOK, ThreadOK, Becomes
<1>2. ASSUME NEW x \in Threads
      PROVE  /\ IsPending(x)' => wakeup'[x].depth \in 1..MaxChain
             /\ up' /\ turn'[x] # NotThere => alarm'[x] = wakeup'[x].fireAt
  <2>1. CASE x = th
    <3>1. wakeup'[x] = row /\ alarm'[x] = time /\ turn'[x] = t
      BY <2>1 DEF WakeInv, WakeTypeOK, Becomes
    <3> QED
      BY <3>1 DEF ThreadOK, IsPending
  <2>2. CASE x # th
    <3>1. wakeup'[x] = wakeup[x] /\ alarm'[x] = alarm[x] /\ turn'[x] = turn[x]
      BY <2>2 DEF WakeInv, WakeTypeOK, Becomes
    <3> QED
      BY <3>1 DEF WakeInv, PendingIsArmed, IsPending
  <2> QED
    BY <2>1, <2>2
<1> QED
  BY <1>1, <1>2 DEF WakeInv, PendingIsArmed

\* Every step of the wake-up registry.
LEMMA WakeStep ==
  ASSUME WakeInv, ServerTypeOK', WakeNext
  PROVE  WakeInv'
<1> PICK th \in Threads :
    \/ /\ Works
       /\ \/ AlarmRings(th) \/ TurnStarts(th) \/ WakeupTurnStarts(th) \/ TurnEnds(th)
          \/ \E delay \in Delays : ScheduleWakeup(th, delay)
          \/ turn[th] >= 0 /\ CancelWakeup(th)
          \/ ClearThread(th)
    \/ Asked /\ (CancelWakeup(th) \/ TriggerNow(th) \/ DeleteThread(th))
  BY DEF WakeNext
<1>0. /\ MaxTime \in Nat /\ MaxChain \in Nat /\ Never = 0 /\ NoTurn = -1 /\ NotThere = -2
      /\ clock \in 0..MaxTime
  BY ServerAssumption, WakeupAssumption DEF Never, NoTurn, NotThere, WakeInv, ServerTypeOK
<1>1. UNCHANGED up
  BY DEF Works, Asked, serverVars
<1>t. ThreadOK(wakeup[th], alarm[th], fired[th], turn[th], up)
  BY DEF WakeInv, WakeTypeOK, ThreadOK, PendingIsArmed, IsPending
<1>f. /\ wakeup = [wakeup EXCEPT ![th] = wakeup[th]] /\ alarm = [alarm EXCEPT ![th] = alarm[th]]
      /\ fired = [fired EXCEPT ![th] = fired[th]] /\ turn = [turn EXCEPT ![th] = turn[th]]
  BY DEF WakeInv, WakeTypeOK
<1>n. /\ NoWakeup \in [fireAt: 0..2 * MaxTime, depth: 0..MaxChain] /\ NoWakeup.fireAt = Never
      /\ Never \in 0..2 * MaxTime
  BY <1>0 DEF NoWakeup
<1> USE <1>1
<1>2. CASE AlarmRings(th)
  <2>1. CASE IsPending(th) /\ clock < wakeup[th].fireAt
    <3>1. Becomes(th, wakeup[th], alarm[th], fired[th], turn[th])
      BY <1>2, <1>f, <2>1 DEF AlarmRings, Becomes
    <3> QED
      BY <1>t, <3>1, ThreadStep
  <2>2. CASE IsPending(th) /\ ~(clock < wakeup[th].fireAt)
    <3>1. ThreadOK(NoWakeup, Never, Append(fired[th], wakeup[th].depth), turn[th], up)
      BY <1>n, <1>t, <2>2 DEF ThreadOK, IsPending
    <3>2. Becomes(th, NoWakeup, Never, Append(fired[th], wakeup[th].depth), turn[th])
      BY <1>2, <1>f, <2>2 DEF AlarmRings, Fires, Becomes
    <3> QED
      BY <3>1, <3>2, ThreadStep
  <2>3. CASE ~IsPending(th)
    <3>1. ThreadOK(wakeup[th], Never, fired[th], turn[th], up)
      BY <1>n, <1>t, <2>3 DEF ThreadOK, IsPending
    <3>2. Becomes(th, wakeup[th], Never, fired[th], turn[th])
      BY <1>2, <1>f, <2>3 DEF AlarmRings, Fires, Becomes
    <3> QED
      BY <3>1, <3>2, ThreadStep
  <2> QED
    BY <2>1, <2>2, <2>3
<1>3. CASE TurnStarts(th)
  <2>1. ThreadOK(wakeup[th], alarm[th], fired[th], 0, up)
    BY <1>0, <1>3, <1>t DEF ThreadOK, TurnStarts
  <2>2. Becomes(th, wakeup[th], alarm[th], fired[th], 0)
    BY <1>3, <1>f DEF TurnStarts, Becomes
  <2> QED
    BY <2>1, <2>2, ThreadStep
<1>4. CASE WakeupTurnStarts(th)
  <2> DEFINE depth == Head(fired[th])
             rest  == Tail(fired[th])
  <2>1. depth \in 1..MaxChain /\ rest \in Seq(1..MaxChain)
    <3> DEFINE Depths == 1..MaxChain
    <3>1. fired[th] \in Seq(Depths) /\ fired[th] # <<>>
      BY <1>4, <1>t DEF WakeupTurnStarts, ThreadOK
    <3> HIDE DEF Depths
    <3>2. depth \in Depths /\ rest \in Seq(Depths)
      BY <3>1
    <3> QED
      BY <3>2 DEF Depths
  <2>2. /\ turn[th] = NoTurn /\ turn' \in {turn, [turn EXCEPT ![th] = depth]}
        /\ fired' = [fired EXCEPT ![th] = rest] /\ UNCHANGED <<wakeup, alarm>>
    BY <1>4 DEF WakeupTurnStarts
  <2> HIDE DEF depth, rest
  <2>3. /\ ThreadOK(wakeup[th], alarm[th], rest, depth, up)
        /\ ThreadOK(wakeup[th], alarm[th], rest, turn[th], up)
    BY <1>0, <1>t, <2>1, <2>2 DEF ThreadOK
  <2>4. \/ Becomes(th, wakeup[th], alarm[th], rest, depth)
        \/ Becomes(th, wakeup[th], alarm[th], rest, turn[th])
    BY <1>f, <2>2 DEF Becomes
  <2> QED
    BY <2>3, <2>4, ThreadStep
<1>5. CASE TurnEnds(th)
  <2>1. ThreadOK(wakeup[th], alarm[th], fired[th], NoTurn, up)
    BY <1>0, <1>5, <1>t DEF ThreadOK, TurnEnds
  <2>2. Becomes(th, wakeup[th], alarm[th], fired[th], NoTurn)
    BY <1>5, <1>f DEF TurnEnds, Becomes
  <2> QED
    BY <2>1, <2>2, ThreadStep
<1>6. ASSUME NEW delay \in Delays, ScheduleWakeup(th, delay)
      PROVE  WakeInv'
  <2> DEFINE row == [fireAt |-> clock + delay, depth |-> turn[th] + 1]
  <2>1. delay \in 1..MaxTime /\ turn[th] \in 0..MaxChain - 1
    BY <1>6, WakeupAssumption DEF Times, ScheduleWakeup
  <2>2. ThreadOK(row, clock + delay, fired[th], turn[th], up)
    <3> DEFINE time  == clock + delay
               depth == turn[th] + 1
    <3>1. time \in 0..2 * MaxTime
      BY <1>0, <2>1
    <3>2. depth \in 1..MaxChain /\ depth \in 0..MaxChain
      BY <1>0, <2>1
    <3> HIDE DEF time, depth
    <3>3. ThreadOK([fireAt |-> time, depth |-> depth], time, fired[th], turn[th], up)
      BY <1>t, <3>1, <3>2 DEF ThreadOK
    <3> QED
      BY <3>3 DEF time, depth
  <2>3. Becomes(th, row, clock + delay, fired[th], turn[th])
    BY <1>6, <1>f DEF ScheduleWakeup, Becomes
  <2> HIDE DEF row
  <2> QED
    BY <2>2, <2>3, ThreadStep
<1>7. CASE CancelWakeup(th)
  <2>1. ThreadOK(NoWakeup, Never, fired[th], turn[th], up)
    BY <1>n, <1>t DEF ThreadOK
  <2>2. Becomes(th, NoWakeup, Never, fired[th], turn[th])
    BY <1>7, <1>f DEF CancelWakeup, Becomes
  <2> QED
    BY <2>1, <2>2, ThreadStep
<1>8. CASE ClearThread(th)
  <2>1. ThreadOK(wakeup[th], Never, fired[th], turn[th], up)
    BY <1>8, <1>n, <1>t DEF ThreadOK, ClearThread
  <2>2. Becomes(th, wakeup[th], Never, fired[th], turn[th])
    BY <1>8, <1>f DEF ClearThread, Becomes
  <2> QED
    BY <2>1, <2>2, ThreadStep
<1>9. CASE TriggerNow(th)
  <2>1. IsPending(th)
    BY <1>9 DEF TriggerNow
  <2>2. ThreadOK(NoWakeup, Never, Append(fired[th], wakeup[th].depth), turn[th], up)
    BY <1>n, <1>t, <2>1 DEF ThreadOK, IsPending
  <2>3. Becomes(th, NoWakeup, Never, Append(fired[th], wakeup[th].depth), turn[th])
    BY <1>9, <1>f, <2>1 DEF TriggerNow, Fires, Becomes
  <2> QED
    BY <2>2, <2>3, ThreadStep
<1>10. CASE DeleteThread(th)
  <2>1. ThreadOK(NoWakeup, alarm[th], <<>>, NotThere, up)
    BY <1>0, <1>n, <1>t DEF ThreadOK
  <2>2. Becomes(th, NoWakeup, alarm[th], <<>>, NotThere)
    BY <1>10, <1>f DEF DeleteThread, Becomes
  <2> QED
    BY <2>1, <2>2, ThreadStep
<1> QED
  BY <1>2, <1>3, <1>4, <1>5, <1>6, <1>7, <1>8, <1>9, <1>10

\* No alarm and no delivery outlives the process, and its boot arms or fires
\* every pending row.
LEMMA WakeNextStep ==
  ASSUME WakeInv, ServerTypeOK', [Next]_vars
  PROVE  WakeInv'
<1>0. MaxTime \in Nat /\ MaxChain \in Nat /\ Never = 0 /\ NoTurn = -1 /\ NotThere = -2
  BY ServerAssumption, WakeupAssumption DEF Never, NoTurn, NotThere
<1>1. /\ wakeup \in [Threads -> [fireAt: 0..2 * MaxTime, depth: 0..MaxChain]]
      /\ alarm \in [Threads -> 0..2 * MaxTime] /\ fired \in [Threads -> Seq(1..MaxChain)]
      /\ turn \in [Threads -> -2..MaxChain]
  BY DEF WakeInv, WakeTypeOK
<1>2. ASSUME UNCHANGED <<wakeVars, up>>
      PROVE  WakeInv'
  BY <1>2 DEF WakeInv, WakeTypeOK, PendingIsArmed, IsPending, wakeVars
<1>3. CASE Crash
  <2>1. ~up' /\ WakeDies
    BY <1>3 DEF Crash, Die
  <2>2. WakeTypeOK'
    BY <1>0, <1>1, <2>1 DEF WakeDies, WakeTypeOK
  <2>3. \A th \in Threads : IsPending(th)' => wakeup'[th].depth \in 1..MaxChain
    BY <2>1 DEF WakeInv, WakeDies, IsPending
  <2> QED
    BY <2>1, <2>2, <2>3 DEF WakeInv, PendingIsArmed
<1>4. CASE Boot
  <2> DEFINE due == {th \in Threads : IsPending(th) /\ wakeup[th].fireAt <= clock}
  <2>1. /\ wakeup' = [th \in Threads |-> IF th \in due THEN NoWakeup ELSE wakeup[th]]
        /\ alarm' = [th \in Threads |-> IF th \in due THEN Never ELSE wakeup[th].fireAt]
        /\ fired' = [th \in Threads |-> IF th \in due THEN <<wakeup[th].depth>> ELSE <<>>]
        /\ UNCHANGED turn
    BY <1>4 DEF Boot, WakeBoots
  <2>2. \A th \in due : wakeup[th].depth \in 1..MaxChain
    BY DEF WakeInv
  <2> HIDE DEF due
  <2>3. NoWakeup \in [fireAt: 0..2 * MaxTime, depth: 0..MaxChain] /\ NoWakeup.fireAt = Never
    BY <1>0 DEF NoWakeup
  <2>4. WakeTypeOK'
    <3>1. wakeup' \in [Threads -> [fireAt: 0..2 * MaxTime, depth: 0..MaxChain]]
      BY <1>1, <2>1, <2>3
    <3>2. alarm' \in [Threads -> 0..2 * MaxTime]
      BY <1>0, <1>1, <2>1
    <3>3. fired' \in [Threads -> Seq(1..MaxChain)]
      <4> DEFINE Depths == 1..MaxChain
      <4>1. \A th \in due : wakeup[th].depth \in Depths
        BY <2>2
      <4> HIDE DEF Depths
      <4>2. fired' \in [Threads -> Seq(Depths)]
        BY <2>1, <4>1
      <4> QED
        BY <4>2 DEF Depths
    <3> QED
      BY <1>1, <2>1, <3>1, <3>2, <3>3 DEF WakeTypeOK
  <2>5. ASSUME NEW th \in Threads
        PROVE  /\ IsPending(th)' => wakeup'[th].depth \in 1..MaxChain
               /\ alarm'[th] = wakeup'[th].fireAt
    BY <2>1, <2>3 DEF WakeInv, IsPending
  <2> QED
    BY <2>4, <2>5 DEF WakeInv, PendingIsArmed
<1>5. CASE WakeNext
  BY <1>5, WakeStep
<1>6. CASE TimePasses
  BY <1>2, <1>6 DEF TimePasses, Tick
<1>7. CASE (CronSystem \/ CronUser) /\ UNCHANGED wakeVars
  BY <1>2, <1>7 DEF CronSystem, CronUser, Works, Asked, serverVars
<1>8. CASE UNCHANGED vars
  BY <1>2, <1>8 DEF vars, serverVars
<1> QED
  BY <1>3, <1>4, <1>5, <1>6, <1>7, <1>8 DEF Next

\* The wake-ups of a new process: none.
LEMMA WakeStarts ==
  ASSUME ServerTypeOK, WakeInit
  PROVE  WakeInv
<1>1. MaxTime \in Nat /\ MaxChain \in Nat /\ Never = 0 /\ NoTurn = -1
  BY ServerAssumption, WakeupAssumption DEF Never, NoTurn
<1>2. NoWakeup \in [fireAt: 0..2 * MaxTime, depth: 0..MaxChain] /\ NoWakeup.fireAt = Never
  BY <1>1 DEF NoWakeup
<1>3. WakeTypeOK
  BY <1>1, <1>2 DEF WakeInit, WakeTypeOK
<1> QED
  BY <1>2, <1>3 DEF WakeInit, WakeInv, PendingIsArmed, IsPending
-----------------------------------------------------------------------------
(* The theorems                                                            *)

\* All that the invariants of both registries say holds in every state.
LEMMA Invariants == Spec => [](CronInv /\ WakeInv)
<1>1. Init => CronInv /\ WakeInv
  BY CronStarts, WakeStarts DEF Init, CronInv
<1>2. CronInv /\ WakeInv /\ [Next]_vars => (CronInv /\ WakeInv)'
  <2> SUFFICES ASSUME CronInv, WakeInv, [Next]_vars
               PROVE  CronInv' /\ WakeInv'
    OBVIOUS
  <2>1. CronInv'
    BY CronNext
  <2>2. ServerTypeOK'
    BY <2>1 DEF CronInv
  <2> QED
    BY <2>1, <2>2, WakeNextStep
<1> QED
  BY <1>1, <1>2, PTL DEF Spec

\* The rows, timers, wake-ups and turns are of their types: a wake-up is never
\* deeper than the chain, a timer never later than one period past the clock.
THEOREM TypesCorrect == Spec => []TypeOK
<1>1. CronInv /\ WakeInv => TypeOK
  BY DEF CronInv, WakeInv, TypeOK
<1> QED
  BY <1>1, Invariants, PTL

\* While the process runs, a task that waits for a time has the timer that
\* brings it, and a busy one has none: unless its executor has yet to resync, or
\* a request for another task put it there and the registry has not looked since
\* (each handler changes the row of a task with a timer only where it syncs it).
THEOREM IdleTasksAreArmed == Spec => []IdleIsArmed
<1>1. CronInv => IdleIsArmed
  BY DEF CronInv
<1> QED
  BY <1>1, Invariants, PTL

\* While the process runs, a wake-up is pending just when it is armed.
THEOREM PendingWakeupsAreArmed == Spec => []PendingIsArmed
<1>1. WakeInv => PendingIsArmed
  BY DEF WakeInv
<1> QED
  BY <1>1, Invariants, PTL

\* The schedule starts no run but for a time of its own, once, within its
\* limits, and one that passed while it was on.
THEOREM RunsAreOnSchedule == Spec => FiresOnItsSchedule
<1>1. CronInv /\ [Next]_vars => [\A c \in Crons : StartsOnTime(cron[c], cron'[c])]_cronVars
  BY CronNext
<1> QED
  BY <1>1, Invariants, PTL DEF Spec, FiresOnItsSchedule
=============================================================================
