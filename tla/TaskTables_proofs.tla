------------------------- MODULE TaskTables_proofs -------------------------
(***************************************************************************)
(* What the writes of TaskDependencies make of its tables: a release of    *)
(* the dependents of a task, an answer, the settlement of a run and of the *)
(* cohort it is counted in.  TaskMoves_proofs goes on with the moves of    *)
(* the board, and TaskWaiters_proofs has the invariant and its theorems.   *)
(***************************************************************************)
EXTENDS TaskDependencies_proofs, FiniteSetTheorems

-----------------------------------------------------------------------------
(* Loops: a release and a move go through a sequence, one element after    *)
(* the other.                                                              *)

\* f is a loop of n rounds over S: it starts at d, and round i is next[., i].
IsLoop(f, n, d, next) ==
  /\ f[0] = d
  /\ \A i \in 1..n : f[i] = next[<<f[i - 1], i>>]

\* There is such a loop, of any number of rounds.
LEMMA LoopExists ==
  ASSUME NEW S, NEW d \in S, NEW n \in Nat, NEW next \in [S \X (1..n) -> S]
  PROVE  \E f \in [0..n -> S] : IsLoop(f, n, d, next)
<1> DEFINE Bad == {m \in 0..n : ~\E f \in [0..m -> S] : IsLoop(f, m, d, next)}
<1>1. SUFFICES ASSUME n \in Bad PROVE FALSE
  OBVIOUS
<1>2. Bad \in SUBSET Nat /\ Bad # {}
  BY <1>1
<1>3. PICK m \in Bad : \A i \in Bad : m <= i
  BY <1>2, FirstPosition
<1>4. m # 0
  <2>1. [i \in 0..0 |-> d] \in [0..0 -> S] /\ IsLoop([i \in 0..0 |-> d], 0, d, next)
    BY DEF IsLoop
  <2> QED
    BY <2>1
<1>5. m - 1 \in 0..n /\ m \in 1..n /\ m - 1 \notin Bad
  BY <1>3, <1>4
<1>6. PICK f \in [0..(m - 1) -> S] : IsLoop(f, m - 1, d, next)
  BY <1>5
<1> DEFINE g == [i \in 0..m |-> IF i = m THEN next[<<f[m - 1], m>>] ELSE f[i]]
<1>7. next[<<f[m - 1], m>>] \in S
  BY <1>5
<1>8. g \in [0..m -> S]
  BY <1>5, <1>7
<1>9. IsLoop(g, m, d, next)
  <2>1. g[0] = d
    BY <1>5, <1>6 DEF IsLoop
  <2>2. ASSUME NEW i \in 1..m PROVE g[i] = next[<<g[i - 1], i>>]
    <3>1. CASE i = m
      BY <1>5, <3>1
    <3>2. CASE i # m
      <4>1. i \in 1..(m - 1) /\ i \in 0..m /\ i - 1 \in 0..m /\ i - 1 # m
        BY <1>5, <3>2
      <4>2. f[i] = next[<<f[i - 1], i>>]
        BY <1>6, <4>1 DEF IsLoop
      <4> QED
        BY <3>2, <4>1, <4>2
    <3> QED
      BY <3>1, <3>2
  <2> HIDE DEF g
  <2> QED
    BY <2>1, <2>2 DEF IsLoop
<1> QED
  BY <1>3, <1>8, <1>9

\* What holds after round k, and is kept by every later round, holds at the end.
LEMMA LoopKeeps ==
  ASSUME NEW n \in Nat, NEW k \in 0..n, NEW f, NEW P, f[k] \in P,
         \A i \in (k + 1)..n : f[i - 1] \in P => f[i] \in P
  PROVE  f[n] \in P
<1> DEFINE Bad == {m \in k..n : f[m] \notin P}
<1>1. SUFFICES ASSUME n \in Bad PROVE FALSE
  OBVIOUS
<1>2. Bad \in SUBSET Nat /\ Bad # {}
  BY <1>1
<1>3. PICK m \in Bad : \A i \in Bad : m <= i
  BY <1>2, FirstPosition
<1>4. m # k
  OBVIOUS
<1>5. m \in (k + 1)..n /\ m - 1 \in k..n /\ m - 1 \notin Bad
  BY <1>3, <1>4
<1> QED
  BY <1>3, <1>5

\* The tables, without the bound on rows.
Cohorts == [open: BOOLEAN, total: Nat, settled: Nat, frozen: Outcomes \cup {"none"}]
DbType == [task: [Tasks -> CardTypes],
           of: [Tasks -> Tasks],
           rows: [Tasks -> [RowStates -> Nat]],
           cohort: [Tasks -> Cohorts]]

-----------------------------------------------------------------------------
(* Rows of the tables.                                                     *)

WithTask(d, t, new) == [d EXCEPT !.task[t] = new]
WithRows(d, t, rows) == [d EXCEPT !.rows[t] = rows]
WithCohort(d, t, c) == [d EXCEPT !.cohort[t] = c]

\* What a write to one task's row leaves of the tables.
LEMMA WithTaskFacts ==
  ASSUME NEW d \in DbType, NEW t \in Tasks, NEW new \in CardTypes
  PROVE  LET d2 == WithTask(d, t, new) IN
         /\ d2 \in DbType
         /\ d2.task[t] = new /\ \A x \in Tasks : x # t => d2.task[x] = d.task[x]
         /\ d2.rows = d.rows /\ d2.of = d.of /\ d2.cohort = d.cohort
BY DEF WithTask, DbType

\* The same for its rows of the queue.
LEMMA WithRowsFacts ==
  ASSUME NEW d \in DbType, NEW t \in Tasks, NEW rows \in [RowStates -> Nat]
  PROVE  LET d2 == WithRows(d, t, rows) IN
         /\ d2 \in DbType
         /\ d2.rows[t] = rows /\ \A x \in Tasks : x # t => d2.rows[x] = d.rows[x]
         /\ d2.task = d.task /\ d2.of = d.of /\ d2.cohort = d.cohort
BY DEF WithRows, DbType

\* The same for its cohort.
LEMMA WithCohortFacts ==
  ASSUME NEW d \in DbType, NEW t \in Tasks, NEW c \in Cohorts
  PROVE  LET d2 == WithCohort(d, t, c) IN
         /\ d2 \in DbType
         /\ d2.cohort[t] = c /\ \A x \in Tasks : x # t => d2.cohort[x] = d.cohort[x]
         /\ d2.task = d.task /\ d2.of = d.of /\ d2.rows = d.rows
BY DEF WithCohort, DbType

\* What the tables hold of one task.
LEMMA DbFields ==
  ASSUME NEW d \in DbType, NEW t \in Tasks
  PROVE  /\ d.task[t] \in CardTypes /\ d.rows[t] \in [RowStates -> Nat]
         /\ d.cohort[t] \in Cohorts /\ d.of[t] \in Tasks
BY DEF DbType

\* The columns of a task.
LEMMA CardFields ==
  ASSUME NEW c \in CardTypes
  PROVE  /\ c.status \in Statuses /\ c.by \in {"user", "agent"}
         /\ c.reason \in {"none", "dependency_failed", "awaiting_children"}
         /\ c.trigger \in {"manual", "cron_once", "cron_repeat"}
         /\ c.config \in Configs
BY DEF CardTypes

\* A write to the status column.
LEMMA StatusColumn ==
  ASSUME NEW c \in CardTypes, NEW s \in Statuses
  PROVE  LET n == [c EXCEPT !.status = s] IN
         /\ n \in CardTypes /\ n.status = s /\ n.reason = c.reason
         /\ n.by = c.by /\ n.trigger = c.trigger /\ n.config = c.config
BY DEF CardTypes

\* A write to the status and the reason.
LEMMA StatusReasonColumns ==
  ASSUME NEW c \in CardTypes, NEW s \in Statuses,
         NEW r \in {"none", "dependency_failed", "awaiting_children"}
  PROVE  LET n == [c EXCEPT !.status = s, !.reason = r] IN
         /\ n \in CardTypes /\ n.status = s /\ n.reason = r
         /\ n.by = c.by /\ n.trigger = c.trigger /\ n.config = c.config
BY DEF CardTypes

\* A write to the status and the assignee.
LEMMA StatusByColumns ==
  ASSUME NEW c \in CardTypes, NEW s \in Statuses, NEW b \in {"user", "agent"}
  PROVE  LET n == [c EXCEPT !.status = s, !.by = b] IN
         /\ n \in CardTypes /\ n.status = s /\ n.by = b
         /\ n.reason = c.reason /\ n.trigger = c.trigger /\ n.config = c.config
BY DEF CardTypes

\* enqueueTask adds a pending row.
LEMMA EnqueuedFacts ==
  ASSUME NEW d \in DbType, NEW t \in Tasks
  PROVE  LET rows == [d.rows[t] EXCEPT !["pending"] = @ + 1] IN
         /\ rows \in [RowStates -> Nat]
         /\ Enqueued(d, t) = WithRows(d, t, rows)
<1>1. d.rows[t] \in [RowStates -> Nat]
  BY DbFields
<1>2. [d.rows[t] EXCEPT !["pending"] = @ + 1] \in [RowStates -> Nat]
  BY <1>1 DEF RowStates
<1> QED
  BY <1>2 DEF Enqueued, WithRows, DbType

\* statusAfterTriggerSave, case by case.
LEMMA StatusAfterTriggerSaveFacts ==
  ASSUME NEW c \in CardTypes
  PROVE  LET s == StatusAfterTriggerSave(c) IN
         /\ s \in Statuses
         /\ c.status \notin Busy /\ WillFire(c) => s = "scheduled"
         /\ c.status = "scheduled" /\ ~WillFire(c) => s = "pending"
         /\ c.status # "scheduled" /\ ~WillFire(c) => s = c.status
         /\ c.status \in Busy => s = c.status
BY CardFields DEF StatusAfterTriggerSave, Statuses, Busy

-----------------------------------------------------------------------------
(* Releases.                                                               *)

\* What a release may do to one task: nothing, or if it was pending it is
\* flagged, queued or handed to its schedule.
ReleaseOf(d, d2, x) ==
  \/ d2.task[x] = d.task[x] /\ d2.rows[x] = d.rows[x]
  \/ /\ d.task[x].status = "pending"
     /\ d2.task[x].trigger = d.task[x].trigger
     /\ \/ /\ d2.task[x].status = "blocked" /\ d2.task[x].reason = "dependency_failed"
           /\ d2.rows[x] = d.rows[x]
        \/ /\ ~IsCron(d.task[x])
           /\ d2.task[x].status = "ready" /\ d2.task[x].reason = d.task[x].reason
           /\ d2.rows[x] = [d.rows[x] EXCEPT !["pending"] = @ + 1]
        \/ /\ IsCron(d.task[x])
           /\ d2.task[x].status = "scheduled" /\ d2.task[x].reason = d.task[x].reason
           /\ d2.rows[x] = d.rows[x]

Releases(d, d2) ==
  /\ d2 \in DbType /\ d2.of = d.of /\ d2.cohort = d.cohort
  /\ \A x \in Tasks : ReleaseOf(d, d2, x)

\* Nothing but the rows of one task changes.
OnlyTouches(d, d2, t) ==
  /\ d2 \in DbType /\ d2.of = d.of /\ d2.cohort = d.cohort
  /\ \A x \in Tasks : x # t => d2.task[x] = d.task[x] /\ d2.rows[x] = d.rows[x]

\* A release that touches one task.
LEMMA ReleasesOfOne ==
  ASSUME NEW d, NEW d2, NEW t, OnlyTouches(d, d2, t), ReleaseOf(d, d2, t)
  PROVE  Releases(d, d2)
<1>1. ASSUME NEW x \in Tasks, x # t PROVE ReleaseOf(d, d2, x)
  BY <1>1 DEF ReleaseOf, OnlyTouches
<1> QED
  BY <1>1 DEF Releases, OnlyTouches

\* One dependent of a release.
LEMMA ReleasedOneReleases ==
  ASSUME NEW d \in DbType, NEW E, NEW t \in Tasks
  PROVE  Releases(d, ReleasedOne(d, E, t)) /\ OnlyTouches(d, ReleasedOne(d, E, t), t)
<1> DEFINE task == d.task[t]
           d2 == ReleasedOne(d, E, t)
<1> SUFFICES OnlyTouches(d, d2, t) /\ ReleaseOf(d, d2, t)
  BY ReleasesOfOne
<1>1. task \in CardTypes /\ d.rows[t] \in [RowStates -> Nat]
  BY DbFields
<1>2. ASSUME d2 = d PROVE OnlyTouches(d, d2, t) /\ ReleaseOf(d, d2, t)
  <2> HIDE DEF d2
  <2> QED
    BY <1>2 DEF OnlyTouches, ReleaseOf
<1>3. CASE task.status = "pending" /\ HasBrokenDependency(d, E, t)
  <2> DEFINE new == [task EXCEPT !.status = "blocked", !.reason = "dependency_failed"]
  <2>1. new \in CardTypes /\ new.status = "blocked" /\ new.reason = "dependency_failed"
        /\ new.trigger = task.trigger
    <3>1. "blocked" \in Statuses
          /\ "dependency_failed" \in {"none", "dependency_failed", "awaiting_children"}
      BY DEF Statuses
    <3> QED
      BY <1>1, <3>1 DEF CardTypes
  <2>2. d2 = WithTask(d, t, new)
    <3>1. d2 = [d EXCEPT !.task[t].status = "blocked", !.task[t].reason = "dependency_failed"]
      BY <1>3 DEF ReleasedOne
    <3> QED
      BY <3>1 DEF WithTask, DbType
  <2> HIDE DEF new, d2
  <2>3. /\ d2 \in DbType /\ d2.task[t] = new /\ d2.rows = d.rows
        /\ d2.of = d.of /\ d2.cohort = d.cohort
        /\ \A x \in Tasks : x # t => d2.task[x] = d.task[x]
    BY <2>1, <2>2, WithTaskFacts
  <2>4. ReleaseOf(d, d2, t)
    BY <1>3, <2>1, <2>3 DEF ReleaseOf
  <2> QED
    <3>1. OnlyTouches(d, d2, t)
      BY <2>3, <2>4 DEF OnlyTouches
    <3> QED
      BY <2>4, <3>1
<1>4. CASE /\ task.status = "pending" /\ ~HasBrokenDependency(d, E, t)
           /\ IsTaskReady(d, E, t) /\ IsCron(task)
  <2> DEFINE s == StatusAfterTriggerSave(task)
             new == [task EXCEPT !.status = s]
  <2>1. s \in Statuses /\ (s = "scheduled" \/ s = "pending")
    BY <1>1, <1>4, StatusAfterTriggerSaveFacts DEF Busy
  <2>2. new \in CardTypes /\ new.status = s /\ new.reason = task.reason
        /\ new.trigger = task.trigger /\ (s = "pending" => new = task)
    <3> HIDE DEF s
    <3>1. s = "pending" => new = task
      BY <1>1, <1>4 DEF CardTypes
    <3> QED
      BY <1>1, <2>1, <3>1, StatusColumn
  <2>3. d2 = WithTask(d, t, new)
    <3>1. d2 = [d EXCEPT !.task[t].status = s]
      <4> HIDE DEF s
      <4>1. d2 = [d EXCEPT !.task[t].status = StatusAfterTriggerSave(task)]
        BY <1>4 DEF ReleasedOne
      <4> QED
        BY <4>1 DEF s
    <3> HIDE DEF s
    <3> QED
      BY <3>1 DEF WithTask, DbType
  <2> HIDE DEF new, d2, s
  <2>4. /\ d2 \in DbType /\ d2.task[t] = new /\ d2.rows = d.rows
        /\ d2.of = d.of /\ d2.cohort = d.cohort
        /\ \A x \in Tasks : x # t => d2.task[x] = d.task[x]
    BY <2>2, <2>3, WithTaskFacts
  <2>5. ReleaseOf(d, d2, t)
    BY <1>4, <2>1, <2>2, <2>4 DEF ReleaseOf
  <2> QED
    <3>1. OnlyTouches(d, d2, t)
      BY <2>4, <2>5 DEF OnlyTouches
    <3> QED
      BY <2>5, <3>1
<1>5. CASE /\ task.status = "pending" /\ ~HasBrokenDependency(d, E, t)
           /\ IsTaskReady(d, E, t) /\ ~IsCron(task)
  <2> DEFINE new == [task EXCEPT !.status = "ready", !.by = "agent"]
             e == WithTask(d, t, new)
             rows == [e.rows[t] EXCEPT !["pending"] = @ + 1]
  <2>1. /\ new \in CardTypes /\ new.status = "ready" /\ new.reason = task.reason
        /\ new.trigger = task.trigger
    <3>1. "ready" \in Statuses
      BY DEF Statuses
    <3> QED
      BY <1>1, <3>1, StatusByColumns
  <2>2. d2 = Enqueued(e, t)
    <3>1. d2 = Enqueued([d EXCEPT !.task[t].status = "ready", !.task[t].by = "agent"], t)
      BY <1>5 DEF ReleasedOne
    <3>2. [d EXCEPT !.task[t].status = "ready", !.task[t].by = "agent"] = e
      BY DEF WithTask, DbType
    <3> QED
      BY <3>1, <3>2
  <2> HIDE DEF new, d2
  <2>3. /\ e \in DbType /\ e.task[t] = new /\ \A x \in Tasks : x # t => e.task[x] = d.task[x]
        /\ e.rows = d.rows /\ e.of = d.of /\ e.cohort = d.cohort
    BY <2>1, WithTaskFacts
  <2> HIDE DEF e
  <2>4. d2 = WithRows(e, t, rows) /\ rows \in [RowStates -> Nat]
    BY <2>2, <2>3, EnqueuedFacts
  <2>5. rows = [d.rows[t] EXCEPT !["pending"] = @ + 1]
    BY <2>3
  <2> HIDE DEF rows
  <2>6. /\ d2 \in DbType /\ d2.task = e.task /\ d2.rows[t] = rows
        /\ d2.of = d.of /\ d2.cohort = d.cohort
        /\ \A x \in Tasks : x # t => d2.rows[x] = d.rows[x]
    BY <2>3, <2>4, WithRowsFacts
  <2>7. ReleaseOf(d, d2, t)
    BY <1>5, <2>1, <2>3, <2>5, <2>6 DEF ReleaseOf
  <2> QED
    <3>1. OnlyTouches(d, d2, t)
      BY <2>3, <2>6, <2>7 DEF OnlyTouches
    <3> QED
      BY <2>7, <3>1
<1>6. CASE \/ task.status # "pending"
           \/ /\ task.status = "pending" /\ ~HasBrokenDependency(d, E, t)
              /\ ~IsTaskReady(d, E, t)
  <2>1. d2 = d
    BY <1>6 DEF ReleasedOne
  <2> QED
    BY <2>1, <1>2
<1> QED
  <2> HIDE DEF d2
  <2> QED
    BY <1>3, <1>4, <1>5, <1>6

\* Releases one after the other are a release: who is no longer pending is
\* not touched again.
LEMMA ReleasesCompose ==
  ASSUME NEW d \in DbType, NEW a, NEW b, Releases(d, a), Releases(a, b)
  PROVE  Releases(d, b)
<1>1. ASSUME NEW x \in Tasks PROVE ReleaseOf(d, b, x)
  <2>1. ReleaseOf(d, a, x) /\ ReleaseOf(a, b, x)
    BY DEF Releases
  <2>2. CASE a.task[x] = d.task[x] /\ a.rows[x] = d.rows[x]
    BY <2>1, <2>2 DEF ReleaseOf
  <2>3. CASE a.task[x].status # "pending"
    <3>1. b.task[x] = a.task[x] /\ b.rows[x] = a.rows[x]
      BY <2>1, <2>3 DEF ReleaseOf
    <3> QED
      BY <2>1, <3>1 DEF ReleaseOf
  <2> QED
    BY <2>1, <2>2, <2>3 DEF ReleaseOf
<1> QED
  BY <1>1 DEF Releases

Count == Cardinality(Tasks)

\* f[i] is what a release has made of the tables after i rounds.
IsRelease(f, d, E, t, order) ==
  /\ f[0] = d
  /\ \A i \in 1..Count :
       f[i] = IF order[i] \in Dependents(E, t)
              THEN ReleasedOne(f[i - 1], E, order[i]) ELSE f[i - 1]
  /\ Released(d, E, t, order) = f[Count]

\* The order of a query has every task.
LEMMA OrderCovers ==
  ASSUME NEW order \in Orders
  PROVE  /\ Count \in Nat /\ order \in [1..Count -> Tasks]
         /\ \A x \in Tasks : \E i \in 1..Count : order[i] = x
<1>1. Count \in Nat
  BY DependencyAssumption, FS_CardinalityType DEF Count
<1>2. order \in [1..Count -> Tasks] /\ {order[i] : i \in DOMAIN order} = Tasks
  BY DependencyAssumption DEF Count
<1> QED
  BY <1>1, <1>2

\* What a loop of the release's rounds makes of the tables is what the release
\* makes of them.
LEMMA ReleaseIsLoop ==
  ASSUME NEW d \in DbType, NEW E, NEW t, NEW order \in Orders
  PROVE  \E f \in [0..Count -> DbType] : IsRelease(f, d, E, t, order)
<1> DEFINE next == [x \in DbType \X (1..Count) |->
                      IF order[x[2]] \in Dependents(E, t)
                      THEN ReleasedOne(x[1], E, order[x[2]]) ELSE x[1]]
           Body(f) == [i \in 0..Count |->
                        IF i = 0 THEN d
                        ELSE IF order[i] \in Dependents(E, t)
                        THEN ReleasedOne(f[i - 1], E, order[i]) ELSE f[i - 1]]
           after == CHOOSE f : f = Body(f)
<1>1. Count \in Nat /\ \A i \in 1..Count : order[i] \in Tasks
  BY OrderCovers
<1>2. next \in [DbType \X (1..Count) -> DbType]
  BY <1>1, ReleasedOneReleases DEF Releases
<1>3. PICK f \in [0..Count -> DbType] : IsLoop(f, Count, d, next)
  BY <1>1, <1>2, LoopExists
<1>4. f[0] = d /\ \A i \in 1..Count :
        f[i] = IF order[i] \in Dependents(E, t)
               THEN ReleasedOne(f[i - 1], E, order[i]) ELSE f[i - 1]
  <2>1. ASSUME NEW a \in DbType, NEW i \in 1..Count
        PROVE  next[<<a, i>>] = IF order[i] \in Dependents(E, t)
                                THEN ReleasedOne(a, E, order[i]) ELSE a
    OBVIOUS
  <2>2. \A i \in 1..Count : f[i - 1] \in DbType
    BY <1>1
  <2> HIDE DEF next
  <2> QED
    BY <1>3, <2>1, <2>2 DEF IsLoop
<1>5. f = Body(f)
  BY <1>1, <1>4
<1>6. after = Body(after)
  BY <1>5
<1>7. Released(d, E, t, order) = after[Count]
  BY DEF Released, Count
<1> HIDE DEF after
<1>8. after[0] = d
  BY <1>1, <1>6
<1>9. ASSUME NEW i \in 1..Count
      PROVE  after[i] = IF order[i] \in Dependents(E, t)
                        THEN ReleasedOne(after[i - 1], E, order[i]) ELSE after[i - 1]
  <2>1. i \in 0..Count /\ i # 0
    BY <1>1
  <2> QED
    BY <1>6, <2>1
<1>10. ASSUME NEW i \in 1..Count, after[i - 1] \in DbType PROVE after[i] \in DbType
  BY <1>1, <1>9, <1>10, ReleasedOneReleases DEF Releases
<1>11. ASSUME NEW m \in 0..Count PROVE after[m] \in DbType
  <2>1. m \in Nat /\ 0 \in 0..m /\ \A i \in (0 + 1)..m : i \in 1..Count
    BY <1>1
  <2>2. \A i \in (0 + 1)..m : after[i - 1] \in DbType => after[i] \in DbType
    BY <1>10, <2>1
  <2> QED
    BY <1>8, <2>1, <2>2, LoopKeeps
<1>12. after \in [0..Count -> DbType]
  BY <1>6, <1>11
<1>13. IsRelease(after, d, E, t, order)
  BY <1>7, <1>8, <1>9 DEF IsRelease
<1> QED
  BY <1>12, <1>13

\* The rounds of a release: each is a release, of what the rounds before it left.
AreRounds(f, d, E, t, order) ==
  /\ f[0] = d /\ f[Count] = Released(d, E, t, order)
  /\ \A i \in 1..Count :
       order[i] \in Dependents(E, t) => f[i] = ReleasedOne(f[i - 1], E, order[i])
  /\ \A i \in 1..Count : order[i] \notin Dependents(E, t) => f[i] = f[i - 1]
  /\ \A i \in 0..Count : Releases(d, f[i]) /\ Releases(f[i], f[Count])

\* Every release has its rounds.
LEMMA ReleaseRounds ==
  ASSUME NEW d \in DbType, NEW E, NEW t, NEW order \in Orders
  PROVE  \E f \in [0..Count -> DbType] : AreRounds(f, d, E, t, order)
<1>1. order \in [1..Count -> Tasks] /\ Count \in Nat
  BY OrderCovers
<1>0. PICK f \in [0..Count -> DbType] : IsRelease(f, d, E, t, order)
  BY <1>1, ReleaseIsLoop
<1>2. /\ f[0] = d
      /\ \A i \in 1..Count :
           f[i] = IF order[i] \in Dependents(E, t)
                  THEN ReleasedOne(f[i - 1], E, order[i]) ELSE f[i - 1]
      /\ Released(d, E, t, order) = f[Count]
  BY <1>0 DEF IsRelease
<1>3. ASSUME NEW a \in DbType PROVE Releases(a, a)
  BY DEF Releases, ReleaseOf
<1>4. ASSUME NEW i \in 1..Count
      PROVE  f[i - 1] \in DbType /\ f[i] \in DbType /\ Releases(f[i - 1], f[i])
  <2>1. f[i - 1] \in DbType /\ order[i] \in Tasks /\ f[i] \in DbType
    BY <1>1, <1>2
  <2>2. CASE order[i] \in Dependents(E, t)
    BY <1>2, <2>1, <2>2, ReleasedOneReleases
  <2>3. CASE order[i] \notin Dependents(E, t)
    BY <1>2, <1>3, <2>1, <2>3
  <2> QED
    BY <2>1, <2>2, <2>3
<1>5. ASSUME NEW k \in 0..Count, NEW m \in k..Count PROVE Releases(f[k], f[m])
  <2> DEFINE P == {x \in DbType : Releases(f[k], x)}
  <2>1. k \in 0..m /\ m \in Nat /\ f[k] \in DbType /\ f[k] \in P
    BY <1>1, <1>3
  <2>2. ASSUME NEW i \in (k + 1)..m, f[i - 1] \in P PROVE f[i] \in P
    <3>1. i \in 1..Count
      BY <1>1, <2>1
    <3>2. f[i - 1] \in DbType /\ f[i] \in DbType /\ Releases(f[i - 1], f[i])
      BY <1>4, <3>1
    <3>3. Releases(f[k], f[i])
      BY <2>1, <2>2, <3>2, ReleasesCompose
    <3> QED
      BY <3>2, <3>3
  <2>3. \A i \in (k + 1)..m : f[i - 1] \in P => f[i] \in P
    BY <2>2
  <2> HIDE DEF P
  <2>4. f[m] \in P
    BY <2>1, <2>3, LoopKeeps
  <2> QED
    BY <2>4 DEF P
<1>6. ASSUME NEW i \in 0..Count PROVE Releases(d, f[i]) /\ Releases(f[i], f[Count])
  BY <1>1, <1>2, <1>5
<1> QED
  <2>1. AreRounds(f, d, E, t, order)
    <3>1. /\ \A i \in 1..Count :
               order[i] \in Dependents(E, t) => f[i] = ReleasedOne(f[i - 1], E, order[i])
          /\ \A i \in 1..Count : order[i] \notin Dependents(E, t) => f[i] = f[i - 1]
      BY <1>2
    <3> QED
      BY <1>0, <1>2, <1>6, <3>1 DEF AreRounds
  <2> QED
    BY <2>1

\* A release leaves every task either as it is, or no longer pending: the frame
\* of releaseEligibleDependents.
LEMMA ReleaseReleases ==
  ASSUME NEW d \in DbType, NEW E, NEW t, NEW order \in Orders
  PROVE  Releases(d, Released(d, E, t, order))
<1>1. Count \in Nat
  BY OrderCovers
<1> QED
  BY <1>1, ReleaseRounds DEF AreRounds

\* A release touches dependents only.
LEMMA ReleaseTouches ==
  ASSUME NEW d \in DbType, NEW E, NEW t, NEW order \in Orders,
         NEW x \in Tasks, x \notin Dependents(E, t)
  PROVE  /\ Released(d, E, t, order).task[x] = d.task[x]
         /\ Released(d, E, t, order).rows[x] = d.rows[x]
<1>0. PICK f \in [0..Count -> DbType] : AreRounds(f, d, E, t, order)
  BY ReleaseRounds
<1>1. /\ f[0] = d /\ f[Count] = Released(d, E, t, order)
      /\ \A i \in 1..Count :
           order[i] \in Dependents(E, t) => f[i] = ReleasedOne(f[i - 1], E, order[i])
      /\ \A i \in 1..Count : order[i] \notin Dependents(E, t) => f[i] = f[i - 1]
      /\ \A i \in 0..Count : Releases(d, f[i]) /\ Releases(f[i], f[Count])
  BY <1>0 DEF AreRounds
<1>2. order \in [1..Count -> Tasks] /\ Count \in Nat
  BY OrderCovers
<1> DEFINE P == {a \in DbType : a.task[x] = d.task[x] /\ a.rows[x] = d.rows[x]}
<1>3. ASSUME NEW i \in 1..Count, f[i - 1] \in P PROVE f[i] \in P
  <2>1. f[i] \in DbType /\ order[i] \in Tasks
    BY <1>2
  <2>2. CASE order[i] \in Dependents(E, t)
    <3> DEFINE a == f[i - 1]
    <3>1. f[i] = ReleasedOne(a, E, order[i]) /\ a \in P /\ order[i] # x
      BY <1>1, <1>3, <2>2
    <3> HIDE DEF a
    <3> QED
      BY <2>1, <3>1, ReleasedOneReleases DEF OnlyTouches
  <2>3. CASE order[i] \notin Dependents(E, t)
    BY <1>1, <1>3, <2>3
  <2> QED
    BY <2>2, <2>3
<1>4. 0 \in 0..Count /\ f[0] \in P /\ \A i \in (0 + 1)..Count : f[i - 1] \in P => f[i] \in P
  BY <1>1, <1>2, <1>3
<1> HIDE DEF P
<1>5. f[Count] \in P
  BY <1>2, <1>4, LoopKeeps
<1> QED
  BY <1>1, <1>5 DEF P

-----------------------------------------------------------------------------
(* What a release leaves waiting, and what it queues.                      *)

\* The edges of t are those create_tasks makes, between tasks of the table.
PlainEdges(E, t) ==
  \A e \in EdgesOf(E, t) : e.on \in Tasks /\ e.requireSuccess /\ ~e.whileBlocked

\* t has something to wait for, and nothing it waits for in vain.
Waits(d, E, t) ==
  /\ \E e \in EdgesOf(E, t) : d.task[e.on].status # "done"
  /\ \A e \in EdgesOf(E, t) : d.task[e.on].status \notin {"failed", "cancelled"}

\* A release answers no task, and takes no task's answer back.
LEMMA ReleaseAnswersNothing ==
  ASSUME NEW d \in DbType, NEW d2 \in DbType, Releases(d, d2), NEW x \in Tasks
  PROVE  /\ d2.task[x].status \in Outcomes <=> d.task[x].status \in Outcomes
         /\ d.task[x].status # "pending" => d2.task[x] = d.task[x]
         /\ d2.task[x].status = "pending" => d2.task[x] = d.task[x]
         /\ d2.task[x].trigger = d.task[x].trigger
<1>1. ReleaseOf(d, d2, x)
  BY DEF Releases
<1> QED
  BY <1>1 DEF ReleaseOf, Outcomes

\* Nor does it leave a waiting task without something to wait for.
LEMMA ReleaseKeepsWaits ==
  ASSUME NEW d \in DbType, NEW d2 \in DbType, Releases(d, d2),
         NEW E, NEW x \in Tasks, PlainEdges(E, x), Waits(d, E, x)
  PROVE  Waits(d2, E, x)
<1>1. ASSUME NEW e \in EdgesOf(E, x)
      PROVE  /\ e.on \in Tasks
             /\ d.task[e.on].status # "done" => d2.task[e.on].status # "done"
             /\ d2.task[e.on].status \notin {"failed", "cancelled"}
  <2>1. e.on \in Tasks /\ d.task[e.on].status \notin {"failed", "cancelled"}
    BY DEF PlainEdges, Waits
  <2>2. ReleaseOf(d, d2, e.on)
    BY <2>1 DEF Releases
  <2> QED
    BY <2>1, <2>2 DEF ReleaseOf
<1> QED
  BY <1>1 DEF Waits

\* A dependent that its release looked at and left pending still waits.
LEMMA ReleaseLooksAt ==
  ASSUME NEW d \in DbType, NEW E, NEW x \in Tasks, PlainEdges(E, x),
         ~IsCron(d.task[x]),
         ReleasedOne(d, E, x).task[x].status = "pending"
  PROVE  Waits(ReleasedOne(d, E, x), E, x)
<1> DEFINE task == d.task[x]
           d2 == ReleasedOne(d, E, x)
<1>1. d2 \in DbType /\ Releases(d, d2)
  BY ReleasedOneReleases DEF Releases
<1>2. d2.task[x] = task /\ task.status = "pending"
  <2> HIDE DEF d2
  <2> QED
    BY <1>1, ReleaseAnswersNothing DEF d2
<1>3. ~HasBrokenDependency(d, E, x)
  <2>1. SUFFICES ASSUME HasBrokenDependency(d, E, x) PROVE FALSE
    OBVIOUS
  <2>2. d2 = [d EXCEPT !.task[x].status = "blocked", !.task[x].reason = "dependency_failed"]
    BY <1>2, <2>1 DEF ReleasedOne
  <2>3. task \in CardTypes
    BY DbFields
  <2>4. d2.task[x].status = "blocked"
    BY <2>2, <2>3 DEF DbType, CardTypes
  <2> QED
    BY <1>2, <2>4
<1>4. ~IsTaskReady(d, E, x)
  <2>1. SUFFICES ASSUME IsTaskReady(d, E, x) PROVE FALSE
    OBVIOUS
  <2>2. d2 = Enqueued([d EXCEPT !.task[x].status = "ready", !.task[x].by = "agent"], x)
    BY <1>2, <1>3, <2>1 DEF ReleasedOne
  <2>3. task \in CardTypes
    BY DbFields
  <2>4. d2.task[x].status = "ready"
    BY <2>2, <2>3 DEF DbType, CardTypes, Enqueued
  <2> QED
    BY <1>2, <2>4
<1>5. d2 = d
  BY <1>2, <1>3, <1>4 DEF ReleasedOne
<1>6. ASSUME NEW e \in EdgesOf(E, x)
      PROVE  d.task[e.on].status \notin {"failed", "cancelled"}
  BY <1>3, <1>6 DEF HasBrokenDependency, IsBroken, PlainEdges
<1>7. PICK e \in EdgesOf(E, x) : ~IsEdgeSatisfied(d, e)
  BY <1>4 DEF IsTaskReady
<1>8. d.task[e.on].status # "done"
  BY <1>7 DEF IsEdgeSatisfied
<1> HIDE DEF d2
<1> QED
  BY <1>5, <1>6, <1>7, <1>8 DEF Waits, d2

\* So every dependent that a release leaves pending still waits.
LEMMA ReleaseLeavesWaiters ==
  ASSUME NEW d \in DbType, NEW E, NEW t, NEW order \in Orders, NEW x \in Tasks,
         PlainEdges(E, x), ~IsCron(d.task[x]),
         x \in Dependents(E, t) \/ Waits(d, E, x),
         Released(d, E, t, order).task[x].status = "pending"
  PROVE  Waits(Released(d, E, t, order), E, x)
<1> DEFINE d2 == Released(d, E, t, order)
<1>1. d2 \in DbType /\ Releases(d, d2)
  BY ReleaseReleases DEF Releases
<1>2. CASE Waits(d, E, x)
  <2> HIDE DEF d2
  <2> QED
    BY <1>1, <1>2, ReleaseKeepsWaits DEF d2
<1>3. CASE x \in Dependents(E, t)
  <2>0. PICK f \in [0..Count -> DbType] : AreRounds(f, d, E, t, order)
    BY ReleaseRounds
  <2>1. /\ f[0] = d /\ f[Count] = Released(d, E, t, order)
        /\ \A i \in 1..Count :
             order[i] \in Dependents(E, t) => f[i] = ReleasedOne(f[i - 1], E, order[i])
        /\ \A i \in 1..Count : order[i] \notin Dependents(E, t) => f[i] = f[i - 1]
        /\ \A i \in 0..Count : Releases(d, f[i]) /\ Releases(f[i], f[Count])
    BY <2>0 DEF AreRounds
  <2>2. Count \in Nat /\ \E i \in 1..Count : order[i] = x
    BY OrderCovers
  <2>3. PICK i \in 1..Count : order[i] = x
    BY <2>2
  <2>4. i \in 0..Count /\ i - 1 \in 0..Count
    BY <2>2
  <2> DEFINE a == f[i - 1]
             b == f[i]
  <2>5. /\ a \in DbType /\ b \in DbType /\ b = ReleasedOne(a, E, x)
        /\ Releases(d, a) /\ Releases(b, d2)
    BY <1>3, <2>1, <2>3, <2>4
  <2> HIDE DEF a, b, d2
  <2>6. ~IsCron(a.task[x])
    BY <2>5, ReleaseAnswersNothing DEF IsCron
  <2>7. b.task[x].status = "pending"
    BY <1>1, <2>5, ReleaseAnswersNothing DEF d2
  <2>8. Waits(b, E, x)
    BY <2>5, <2>6, <2>7, ReleaseLooksAt
  <2>9. Waits(d2, E, x)
    BY <1>1, <2>5, <2>8, ReleaseKeepsWaits
  <2> QED
    BY <2>9 DEF d2
<1> QED
  BY <1>2, <1>3

\* A release takes no answer back that an edge is satisfied with.
LEMMA ReleaseKeepsSatisfied ==
  ASSUME NEW d \in DbType, NEW d2 \in DbType, Releases(d, d2),
         NEW e, e.on \in Tasks, IsEdgeSatisfied(d, e)
  PROVE  IsEdgeSatisfied(d2, e)
<1>1. ReleaseOf(d, d2, e.on)
  BY DEF Releases
<1> QED
  BY <1>1 DEF ReleaseOf, IsEdgeSatisfied

\* A dependent that its release queues has all its dependencies satisfied.
LEMMA ReleaseQueuesOne ==
  ASSUME NEW d \in DbType, NEW E, NEW x \in Tasks,
         d.task[x].status = "pending",
         ReleasedOne(d, E, x).task[x].status = "ready"
  PROVE  IsTaskReady(d, E, x)
<1> DEFINE task == d.task[x]
           d2 == ReleasedOne(d, E, x)
<1> SUFFICES ASSUME ~IsTaskReady(d, E, x) PROVE FALSE
  OBVIOUS
<1>1. CASE HasBrokenDependency(d, E, x)
  <2>1. d2 = [d EXCEPT !.task[x].status = "blocked", !.task[x].reason = "dependency_failed"]
    BY <1>1 DEF ReleasedOne
  <2>2. task \in CardTypes
    BY DbFields
  <2>3. d2.task[x].status = "blocked"
    BY <2>1, <2>2 DEF DbType, CardTypes
  <2> QED
    BY <2>3
<1>2. CASE ~HasBrokenDependency(d, E, x)
  <2>1. d2 = d
    BY <1>2 DEF ReleasedOne
  <2> QED
    BY <2>1
<1> QED
  BY <1>1, <1>2

\* What a release queues has all its dependencies satisfied, still when it ends.
LEMMA ReleaseQueuesMet ==
  ASSUME NEW d \in DbType, NEW E, NEW t, NEW order \in Orders, NEW x \in Tasks,
         \A e \in EdgesOf(E, x) : e.on \in Tasks,
         d.task[x].status = "pending",
         Released(d, E, t, order).task[x].status = "ready"
  PROVE  IsTaskReady(Released(d, E, t, order), E, x)
<1> DEFINE d2 == Released(d, E, t, order)
<1>1. d2 \in DbType /\ Releases(d, d2)
  BY ReleaseReleases DEF Releases
<1>0. PICK f \in [0..Count -> DbType] : AreRounds(f, d, E, t, order)
  BY ReleaseRounds
<1>2. /\ f[0] = d /\ f[Count] = Released(d, E, t, order)
      /\ \A i \in 1..Count :
           order[i] \in Dependents(E, t) => f[i] = ReleasedOne(f[i - 1], E, order[i])
      /\ \A i \in 1..Count : order[i] \notin Dependents(E, t) => f[i] = f[i - 1]
      /\ \A i \in 0..Count : Releases(d, f[i]) /\ Releases(f[i], f[Count])
  BY <1>0 DEF AreRounds
<1>3. Count \in Nat /\ \E i \in 1..Count : order[i] = x
  BY OrderCovers
<1> DEFINE Bad == {i \in 0..Count : f[i].task[x].status # "pending"}
<1>4. Bad \in SUBSET Nat /\ Bad # {}
  BY <1>2, <1>3
<1>5. PICK i \in Bad : \A m \in Bad : i <= m
  BY <1>4, FirstPosition
<1> DEFINE a == f[i - 1]
           b == f[i]
<1>6. i \in 1..Count /\ i \in 0..Count /\ i - 1 \in 0..Count /\ i - 1 \notin Bad
  BY <1>2, <1>3, <1>5
<1>7. a \in DbType /\ b \in DbType /\ order[i] \in Tasks /\ Releases(b, d2)
  BY <1>2, <1>6, OrderCovers
<1>8. a.task[x].status = "pending" /\ b.task[x].status # "pending"
  BY <1>5, <1>6
<1>9. b = ReleasedOne(a, E, order[i])
  BY <1>2, <1>6, <1>8
<1> HIDE DEF a, b, d2, Bad
<1>10. order[i] = x
  BY <1>7, <1>8, <1>9, ReleasedOneReleases DEF OnlyTouches
<1>11. b.task[x].status = "ready"
  BY <1>1, <1>7, <1>8, ReleaseAnswersNothing DEF d2
<1>12. IsTaskReady(a, E, x) /\ Releases(a, b)
  BY <1>7, <1>8, <1>9, <1>10, <1>11, ReleaseQueuesOne, ReleasedOneReleases
<1>13. ASSUME NEW e \in EdgesOf(E, x) PROVE IsEdgeSatisfied(d2, e)
  <2>1. e.on \in Tasks /\ IsEdgeSatisfied(a, e)
    BY <1>12 DEF IsTaskReady
  <2>2. IsEdgeSatisfied(b, e)
    BY <1>7, <1>12, <2>1, ReleaseKeepsSatisfied
  <2> QED
    BY <1>1, <1>7, <2>1, <2>2, ReleaseKeepsSatisfied
<1> QED
  BY <1>13 DEF IsTaskReady, d2

-----------------------------------------------------------------------------
(* What every write to the tables keeps, for sets of tasks that the writer *)
(* leaves alone.                                                           *)

\* A holder that waits for its children has a cohort that will release it: all
\* but those of U, and those whose trigger is gone.
HeldIn(d, U) ==
  \A x \in Tasks \ U :
    IsCron(d.task[x]) /\ d.task[x].reason = "awaiting_children"
      => d.cohort[x].open /\ d.cohort[x].frozen # "none"

\* The tasks of W are not scheduled, and wait while they are pending.
WaitsIn(d, E, W) ==
  \A x \in W : /\ x \in Tasks /\ ~IsCron(d.task[x]) /\ PlainEdges(E, x)
               /\ d.task[x].status = "pending" => Waits(d, E, x)

\* A task that was never on a schedule and the rows it has.
PlainTask(d, x) ==
  /\ ~IsCron(d.task[x])
  /\ d.task[x].status # "scheduled" /\ d.task[x].reason # "awaiting_children"
  /\ ~d.cohort[x].open
  /\ d.rows[x]["pending"] <= 1 /\ d.rows[x]["running"] <= 1
  /\ d.rows[x]["pending"] > 0 => d.task[x].status = "ready"
  /\ d.rows[x]["running"] > 0 => d.task[x].status = "running"

PlainIn(d, N) == \A x \in N : x \in Tasks /\ PlainTask(d, x)

Sound(d, E, W, U, N) == HeldIn(d, U) /\ WaitsIn(d, E, W) /\ PlainIn(d, N)

\* A release keeps them.
LEMMA ReleaseSound ==
  ASSUME NEW d \in DbType, NEW d2 \in DbType, Releases(d, d2),
         NEW E, NEW W, NEW U, NEW N, Sound(d, E, W, U, N)
  PROVE  Sound(d2, E, W, U, N)
<1>1. HeldIn(d2, U)
  <2> SUFFICES ASSUME NEW x \in Tasks \ U, IsCron(d2.task[x]),
                      d2.task[x].reason = "awaiting_children"
               PROVE  d2.cohort[x].open /\ d2.cohort[x].frozen # "none"
    BY DEF HeldIn
  <2>1. ReleaseOf(d, d2, x) /\ d2.cohort = d.cohort
    BY DEF Releases
  <2>2. IsCron(d.task[x]) /\ d.task[x].reason = "awaiting_children"
    BY <2>1 DEF ReleaseOf, IsCron
  <2> QED
    BY <2>1, <2>2 DEF Sound, HeldIn
<1>2. WaitsIn(d2, E, W)
  <2> SUFFICES ASSUME NEW x \in W
               PROVE  /\ x \in Tasks /\ ~IsCron(d2.task[x]) /\ PlainEdges(E, x)
                      /\ d2.task[x].status = "pending" => Waits(d2, E, x)
    BY DEF WaitsIn
  <2>1. /\ x \in Tasks /\ ~IsCron(d.task[x]) /\ PlainEdges(E, x)
        /\ d.task[x].status = "pending" => Waits(d, E, x)
    BY DEF Sound, WaitsIn
  <2>2. /\ d2.task[x].status = "pending" => d2.task[x] = d.task[x]
        /\ d2.task[x].trigger = d.task[x].trigger
    BY <2>1, ReleaseAnswersNothing
  <2>3. d2.task[x].status = "pending" => Waits(d2, E, x)
    BY <2>1, <2>2, ReleaseKeepsWaits
  <2> QED
    BY <2>1, <2>2, <2>3 DEF IsCron
<1>3. PlainIn(d2, N)
  <2> SUFFICES ASSUME NEW x \in N PROVE x \in Tasks /\ PlainTask(d2, x)
    BY DEF PlainIn
  <2>1. x \in Tasks /\ PlainTask(d, x)
    BY DEF Sound, PlainIn
  <2>2. ReleaseOf(d, d2, x) /\ d2.cohort = d.cohort
    BY <2>1 DEF Releases
  <2>3. d.rows[x] \in [RowStates -> Nat]
    BY <2>1, DbFields
  <2>4. CASE d2.task[x] = d.task[x] /\ d2.rows[x] = d.rows[x]
    BY <2>1, <2>2, <2>4 DEF PlainTask
  <2>5. CASE d.task[x].status = "pending" /\ d2.task[x].status = "blocked"
    BY <2>1, <2>2, <2>3, <2>5 DEF PlainTask, ReleaseOf, RowStates, IsCron
  <2>6. CASE d.task[x].status = "pending" /\ d2.task[x].status = "ready"
    <3>1. /\ d2.rows[x] = [d.rows[x] EXCEPT !["pending"] = @ + 1]
          /\ d2.task[x].trigger = d.task[x].trigger
          /\ d2.task[x].reason = d.task[x].reason
      BY <2>2, <2>6 DEF ReleaseOf
    <3>2. d.rows[x]["pending"] = 0 /\ d.rows[x]["running"] = 0
      BY <2>1, <2>3, <2>6 DEF PlainTask, RowStates
    <3>3. d2.rows[x]["pending"] = 1 /\ d2.rows[x]["running"] = 0
      BY <2>3, <3>1, <3>2 DEF RowStates
    <3> QED
      BY <2>1, <2>2, <2>6, <3>1, <3>3 DEF PlainTask, IsCron
  <2>7. CASE d.task[x].status = "pending" /\ d2.task[x].status = "scheduled"
    BY <2>1, <2>2, <2>7 DEF PlainTask, ReleaseOf
  <2> QED
    BY <2>1, <2>2, <2>4, <2>5, <2>6, <2>7 DEF ReleaseOf
<1> QED
  BY <1>1, <1>2, <1>3 DEF Sound

\* All edges lead from a task to a task.
GraphType(E) ==
  E \subseteq [task: Tasks, on: Tasks, requireSuccess: BOOLEAN, whileBlocked: BOOLEAN]

-----------------------------------------------------------------------------
(* A task is given an answer, or another state, and its dependents are     *)
(* looked at.                                                              *)

\* What such a write may make of a task: the trigger stays, it is not queued
\* and it does not start to wait for children.
MayBecome(old, new) ==
  /\ new \in CardTypes /\ new.trigger = old.trigger
  /\ new.status # "ready" /\ (new.status = "pending" => IsCron(new))
  /\ new.reason = "awaiting_children" => old.reason = "awaiting_children"
  /\ ~IsCron(old) => new.status # "scheduled"

\* The write leaves the other tasks as they are, and a release then restores
\* what the write took from those that wait for the task.
LEMMA AnswerSound ==
  ASSUME NEW d \in DbType, NEW E, NEW W, NEW U, NEW N, NEW t \in Tasks,
         NEW order \in Orders, NEW new,
         MayBecome(d.task[t], new), Sound(d, E, W, U, N),
         t \in N => d.rows[t]["pending"] = 0 /\ d.rows[t]["running"] = 0
  PROVE  Sound(Released(WithTask(d, t, new), E, t, order), E, W, U, N)
<1> DEFINE a == WithTask(d, t, new)
           d2 == Released(a, E, t, order)
<1>1. /\ a \in DbType /\ a.task[t] = new
      /\ \A x \in Tasks : x # t => a.task[x] = d.task[x]
      /\ a.rows = d.rows /\ a.of = d.of /\ a.cohort = d.cohort
  BY WithTaskFacts DEF MayBecome
<1> HIDE DEF a
<1>2. d2 \in DbType /\ Releases(a, d2)
  BY <1>1, ReleaseReleases DEF Releases
<1>3. HeldIn(a, U)
  BY <1>1 DEF Sound, HeldIn, MayBecome, IsCron
<1>4. PlainIn(a, N)
  <2> SUFFICES ASSUME NEW x \in N PROVE x \in Tasks /\ PlainTask(a, x)
    BY DEF PlainIn
  <2>1. x \in Tasks /\ PlainTask(d, x) /\ d.rows[x] \in [RowStates -> Nat]
    BY DbFields DEF Sound, PlainIn
  <2>2. CASE x = t
    BY <1>1, <2>1, <2>2 DEF PlainTask, MayBecome, IsCron
  <2>3. CASE x # t
    BY <1>1, <2>1, <2>3 DEF PlainTask
  <2> QED
    BY <2>2, <2>3
<1>5. Sound(d2, E, {}, U, N)
  <2>1. Sound(a, E, {}, U, N)
    BY <1>3, <1>4 DEF Sound, WaitsIn
  <2> QED
    BY <1>1, <1>2, <2>1, ReleaseSound
<1>6. WaitsIn(d2, E, W)
  <2> SUFFICES ASSUME NEW x \in W
               PROVE  /\ x \in Tasks /\ ~IsCron(d2.task[x]) /\ PlainEdges(E, x)
                      /\ d2.task[x].status = "pending" => Waits(d2, E, x)
    BY DEF WaitsIn
  <2>1. /\ x \in Tasks /\ ~IsCron(d.task[x]) /\ PlainEdges(E, x)
        /\ d.task[x].status = "pending" => Waits(d, E, x)
    BY DEF Sound, WaitsIn
  <2>2. ~IsCron(a.task[x])
    BY <1>1, <2>1 DEF MayBecome, IsCron
  <2>3. /\ d2.task[x].status = "pending" => d2.task[x] = a.task[x]
        /\ d2.task[x].trigger = a.task[x].trigger
    BY <1>1, <1>2, <2>1, ReleaseAnswersNothing
  <2>4. ASSUME d2.task[x].status = "pending" PROVE Waits(d2, E, x)
    <3>1. a.task[x].status = "pending" /\ x # t
      BY <1>1, <2>2, <2>3, <2>4 DEF MayBecome
    <3>2. Waits(d, E, x)
      BY <1>1, <2>1, <3>1
    <3>3. x \in Dependents(E, t) \/ Waits(a, E, x)
      <4>1. SUFFICES ASSUME x \notin Dependents(E, t) PROVE Waits(a, E, x)
        OBVIOUS
      <4>2. ASSUME NEW e \in EdgesOf(E, x) PROVE e.on \in Tasks /\ e.on # t
        BY <2>1, <4>1 DEF PlainEdges, EdgesOf, Dependents
      <4>3. ASSUME NEW e \in EdgesOf(E, x) PROVE a.task[e.on] = d.task[e.on]
        BY <1>1, <4>2
      <4> QED
        BY <3>2, <4>3 DEF Waits
    <3> QED
      BY <1>1, <2>1, <2>2, <2>4, <3>3, ReleaseLeavesWaiters
  <2> QED
    BY <2>1, <2>2, <2>3, <2>4 DEF IsCron
<1> QED
  BY <1>5, <1>6 DEF Sound, a

\* What a settlement may do to the tasks.  Whom it queues has answers to wait
\* for no longer, from all but the tasks of O; whatever answers it takes back
\* are those of K.
Settles(d, d2, E, O, K) ==
  /\ d2 \in DbType /\ d2.of = d.of
  /\ \A x \in Tasks : d2.task[x].trigger = d.task[x].trigger
  /\ \A x \in Tasks :
       ~IsCron(d.task[x]) /\ d2.task[x].status = "pending" => d2.task[x] = d.task[x]
  /\ \A x \in Tasks : d2.task[x].status = "ready" =>
       \/ d.task[x].status = "ready"
       \/ /\ d.task[x].status = "pending" /\ ~IsCron(d.task[x])
          /\ \A e \in EdgesOf(E, x) : e.on \in O \/ IsEdgeSatisfied(d2, e)
  /\ \A e \in E : e.on \notin K /\ IsEdgeSatisfied(d, e) => IsEdgeSatisfied(d2, e)
  /\ \A x \in Tasks \ K : d.task[x].status # "pending" => d2.task[x] = d.task[x]
  /\ \A x \in Tasks \ K :
       EdgesOf(E, x) = {} => d2.task[x] = d.task[x] /\ d2.rows[x] = d.rows[x]

\* One settlement after the other.
LEMMA SettlesCompose ==
  ASSUME NEW E, NEW d, NEW a, NEW b, NEW O1, NEW O2, NEW K1, NEW K2,
         Settles(d, a, E, O1, K1), Settles(a, b, E, O2, K2)
  PROVE  Settles(d, b, E, O1 \cup O2 \cup K2, K1 \cup K2)
<1>1. ASSUME NEW x \in Tasks
      PROVE  b.task[x].trigger = d.task[x].trigger
  BY DEF Settles
<1>2. ASSUME NEW x \in Tasks, ~IsCron(d.task[x]), b.task[x].status = "pending"
      PROVE  b.task[x] = d.task[x]
  <2>1. ~IsCron(a.task[x])
    BY <1>2 DEF Settles, IsCron
  <2>2. b.task[x] = a.task[x]
    BY <1>2, <2>1 DEF Settles
  <2> QED
    BY <1>2, <2>2 DEF Settles
<1>3. ASSUME NEW x \in Tasks, b.task[x].status = "ready", d.task[x].status # "ready"
      PROVE  /\ d.task[x].status = "pending" /\ ~IsCron(d.task[x])
             /\ \A e \in EdgesOf(E, x) : e.on \in O1 \cup O2 \cup K2 \/ IsEdgeSatisfied(b, e)
  <2>1. CASE a.task[x].status = "ready"
    <3>1. /\ d.task[x].status = "pending" /\ ~IsCron(d.task[x])
          /\ \A e \in EdgesOf(E, x) : e.on \in O1 \/ IsEdgeSatisfied(a, e)
      BY <1>3, <2>1 DEF Settles
    <3>2. ASSUME NEW e \in EdgesOf(E, x), e.on \notin O1, e.on \notin K2
          PROVE  IsEdgeSatisfied(b, e)
      <4>1. e \in E /\ IsEdgeSatisfied(a, e)
        BY <3>1, <3>2 DEF EdgesOf
      <4> QED
        BY <3>2, <4>1 DEF Settles
    <3> QED
      BY <3>1, <3>2
  <2>2. CASE a.task[x].status # "ready"
    <3>1. /\ a.task[x].status = "pending" /\ ~IsCron(a.task[x])
          /\ \A e \in EdgesOf(E, x) : e.on \in O2 \/ IsEdgeSatisfied(b, e)
      BY <1>3, <2>2 DEF Settles
    <3>2. ~IsCron(d.task[x])
      BY <3>1 DEF Settles, IsCron
    <3>3. a.task[x] = d.task[x]
      BY <3>1, <3>2 DEF Settles
    <3> QED
      BY <3>1, <3>2, <3>3
  <2> QED
    BY <2>1, <2>2
<1>4. ASSUME NEW e \in E, e.on \notin K1 \cup K2, IsEdgeSatisfied(d, e)
      PROVE  IsEdgeSatisfied(b, e)
  BY <1>4 DEF Settles
<1>5. ASSUME NEW x \in Tasks \ (K1 \cup K2), d.task[x].status # "pending"
      PROVE  b.task[x] = d.task[x]
  <2>1. a.task[x] = d.task[x]
    BY <1>5 DEF Settles
  <2> QED
    BY <1>5, <2>1 DEF Settles
<1>6. ASSUME NEW x \in Tasks \ (K1 \cup K2), EdgesOf(E, x) = {}
      PROVE  b.task[x] = d.task[x] /\ b.rows[x] = d.rows[x]
  BY <1>6 DEF Settles
<1> QED
  BY <1>1, <1>2, <1>3, <1>4, <1>5, <1>6 DEF Settles

\* An answer and its release settle.
LEMMA AnswerSettles ==
  ASSUME NEW d \in DbType, NEW E, GraphType(E), NEW t \in Tasks,
         NEW order \in Orders, NEW new, MayBecome(d.task[t], new)
  PROVE  Settles(d, Released(WithTask(d, t, new), E, t, order), E, {}, {t})
<1> DEFINE a == WithTask(d, t, new)
           d2 == Released(a, E, t, order)
<1>1. /\ a \in DbType /\ a.task[t] = new
      /\ \A x \in Tasks : x # t => a.task[x] = d.task[x]
      /\ a.rows = d.rows /\ a.of = d.of /\ a.cohort = d.cohort
  BY WithTaskFacts DEF MayBecome
<1> HIDE DEF a
<1>2. d2 \in DbType /\ Releases(a, d2)
  BY <1>1, ReleaseReleases DEF Releases
<1>3. ASSUME NEW x \in Tasks
      PROVE  /\ d2.task[x].trigger = d.task[x].trigger
             /\ ~IsCron(d.task[x]) /\ d2.task[x].status = "pending" => d2.task[x] = d.task[x]
  <2>1. /\ d2.task[x].status = "pending" => d2.task[x] = a.task[x]
        /\ d2.task[x].trigger = a.task[x].trigger
    BY <1>1, <1>2, ReleaseAnswersNothing
  <2> QED
    BY <1>1, <2>1 DEF MayBecome, IsCron
<1>4. ASSUME NEW x \in Tasks, d2.task[x].status = "ready", d.task[x].status # "ready"
      PROVE  /\ d.task[x].status = "pending" /\ ~IsCron(d.task[x])
             /\ \A e \in EdgesOf(E, x) : IsEdgeSatisfied(d2, e)
  <2>1. a.task[x].status # "ready"
    BY <1>1, <1>4 DEF MayBecome
  <2>2. a.task[x].status = "pending" /\ ~IsCron(a.task[x])
    BY <1>2, <1>4, <2>1 DEF Releases, ReleaseOf
  <2>3. x # t
    BY <1>1, <2>2 DEF MayBecome
  <2>4. \A e \in EdgesOf(E, x) : e.on \in Tasks
    BY DEF GraphType, EdgesOf
  <2>5. IsTaskReady(d2, E, x)
    BY <1>1, <1>4, <2>2, <2>4, ReleaseQueuesMet
  <2> QED
    BY <1>1, <2>2, <2>3, <2>5 DEF IsTaskReady
<1>5. ASSUME NEW e \in E, e.on # t, IsEdgeSatisfied(d, e) PROVE IsEdgeSatisfied(d2, e)
  <2>1. e.on \in Tasks
    BY DEF GraphType
  <2>2. IsEdgeSatisfied(a, e)
    BY <1>1, <1>5, <2>1 DEF IsEdgeSatisfied
  <2> QED
    BY <1>1, <1>2, <2>1, <2>2, ReleaseKeepsSatisfied
<1>6. d2.of = d.of
  BY <1>1, <1>2 DEF Releases
<1>7. ASSUME NEW x \in Tasks \ {t}, d.task[x].status # "pending"
      PROVE  d2.task[x] = d.task[x]
  <2>1. a.task[x] = d.task[x]
    BY <1>1
  <2> QED
    BY <1>1, <1>2, <1>7, <2>1, ReleaseAnswersNothing
<1>8. ASSUME NEW x \in Tasks \ {t}, EdgesOf(E, x) = {}
      PROVE  d2.task[x] = d.task[x] /\ d2.rows[x] = d.rows[x]
  <2>1. x \notin Dependents(E, t)
    BY <1>8 DEF EdgesOf, Dependents
  <2> QED
    BY <1>1, <2>1, ReleaseTouches
<1> QED
  BY <1>2, <1>3, <1>4, <1>5, <1>6, <1>7, <1>8 DEF Settles, a

-----------------------------------------------------------------------------
(* The settlement of a run.                                                *)

\* settleCronRun takes a scheduled task off its run.
LEMMA CronSettlementFacts ==
  ASSUME NEW task \in CardTypes, IsCron(task),
         NEW outcome \in Outcomes, NEW ends \in Endings
  PROVE  LET new == [CronSettlement(task, outcome, ends) EXCEPT !.reason = "none"]
         IN MayBecome(task, new) /\ new.reason = "none"
<1> DEFINE cs == CronSettlement(task, outcome, ends)
<1>1. task.trigger \in {"cron_once", "cron_repeat"} /\ outcome \in Statuses
  BY CardFields DEF IsCron, Outcomes, Statuses
<1>2. /\ cs \in CardTypes /\ cs.trigger = task.trigger
      /\ cs.status \in Outcomes \cup {"scheduled", "pending"}
  <2>1. CASE task.trigger = "cron_once" /\ task.config.ended = "no"
    <3>1. cs = [task EXCEPT !.status = IF task.config.enabled THEN "scheduled" ELSE "pending"]
      BY <2>1 DEF CronSettlement
    <3> QED
      BY <3>1 DEF CardTypes, Statuses
  <2>2. CASE task.trigger = "cron_once" /\ task.config.ended # "no"
    <3>1. cs = [task EXCEPT !.status = outcome]
      BY <2>2 DEF CronSettlement
    <3> QED
      BY <1>1, <3>1 DEF CardTypes
  <2>3. CASE task.trigger = "cron_repeat" /\ outcome = "failed" /\ ends = "failures"
    <3>1. cs = [task EXCEPT !.status = "pending",
                            !.config = [enabled |-> FALSE, ended |-> ends]]
      BY <2>3 DEF CronSettlement
    <3>2. [enabled |-> FALSE, ended |-> ends] \in Configs
      BY DEF Configs, Endings
    <3> QED
      BY <3>1, <3>2 DEF CardTypes, Statuses
  <2>4. CASE task.trigger = "cron_repeat" /\ ~(outcome = "failed" /\ ends = "failures")
    <3>1. cs = IF ~task.config.enabled THEN [task EXCEPT !.status = "pending"]
               ELSE IF ends = "over"
               THEN [task EXCEPT !.status = "done", !.config.ended = "over"]
               ELSE [task EXCEPT !.status = "scheduled"]
      BY <2>4 DEF CronSettlement
    <3>2. [task.config EXCEPT !.ended = "over"] \in Configs
      BY CardFields DEF Configs
    <3>3. [task EXCEPT !.status = "done", !.config.ended = "over"]
             = [task EXCEPT !.status = "done", !.config = [task.config EXCEPT !.ended = "over"]]
      BY DEF CardTypes
    <3> DEFINE over == [task.config EXCEPT !.ended = "over"]
    <3> HIDE DEF over
    <3>4. [task EXCEPT !.status = "done", !.config = over] \in CardTypes
          /\ [task EXCEPT !.status = "done", !.config = over].trigger = task.trigger
          /\ [task EXCEPT !.status = "done", !.config = over].status = "done"
      BY <3>2 DEF CardTypes, Statuses, over
    <3>5. [task EXCEPT !.status = "pending"] \in CardTypes
          /\ [task EXCEPT !.status = "scheduled"] \in CardTypes
      BY DEF CardTypes, Statuses
    <3>6. CASE ~task.config.enabled
      BY <3>1, <3>5, <3>6 DEF CardTypes
    <3>7. CASE task.config.enabled /\ ends = "over"
      BY <3>1, <3>3, <3>4, <3>7 DEF over, Outcomes
    <3>8. CASE task.config.enabled /\ ends # "over"
      BY <3>1, <3>5, <3>8 DEF CardTypes
    <3> QED
      BY <3>6, <3>7, <3>8
  <2> QED
    BY <1>1, <2>1, <2>2, <2>3, <2>4
<1> HIDE DEF cs
<1> DEFINE new == [cs EXCEPT !.reason = "none"]
<1>3. /\ new \in CardTypes /\ new.trigger = task.trigger /\ new.reason = "none"
      /\ new.status \in Outcomes \cup {"scheduled", "pending"}
  BY <1>2 DEF CardTypes
<1> HIDE DEF new
<1>4. MayBecome(task, new)
  BY <1>3 DEF MayBecome, IsCron, Outcomes
<1> QED
  BY <1>3, <1>4 DEF new, cs

\* A run's own outcome.
LEMMA OutcomeFacts ==
  ASSUME NEW task \in CardTypes, NEW s \in Outcomes \cup {"blocked"}
  PROVE  MayBecome(task, [task EXCEPT !.status = s])
<1>1. s \in Statuses /\ s \notin {"ready", "pending", "scheduled"}
  BY DEF Outcomes, Statuses
<1> DEFINE new == [task EXCEPT !.status = s]
<1>2. /\ new \in CardTypes /\ new.trigger = task.trigger /\ new.reason = task.reason
      /\ new.status = s
  BY <1>1, StatusColumn
<1> HIDE DEF new
<1>3. MayBecome(task, new)
  BY <1>1, <1>2 DEF MayBecome
<1> QED
  BY <1>3 DEF new

\* Neither an answer nor its release touches a cohort, and a reason to wait for
\* children is not made by a release.
LEMMA AnswerFrame ==
  ASSUME NEW d \in DbType, NEW E, NEW t \in Tasks, NEW order \in Orders, NEW new,
         MayBecome(d.task[t], new)
  PROVE  LET d2 == Released(WithTask(d, t, new), E, t, order) IN
         /\ d2 \in DbType /\ d2.of = d.of /\ d2.cohort = d.cohort
         /\ new.reason # "awaiting_children" => d2.task[t].reason # "awaiting_children"
         /\ new.status # "pending" => d2.task[t] = new
<1> DEFINE a == WithTask(d, t, new)
           d2 == Released(a, E, t, order)
<1>1. /\ a \in DbType /\ a.task[t] = new /\ a.of = d.of /\ a.cohort = d.cohort
  BY WithTaskFacts DEF MayBecome
<1> HIDE DEF a
<1>2. d2 \in DbType /\ Releases(a, d2)
  BY <1>1, ReleaseReleases DEF Releases
<1> HIDE DEF d2
<1>3. new.reason # "awaiting_children" => d2.task[t].reason # "awaiting_children"
  <2>1. ReleaseOf(a, d2, t)
    BY <1>2 DEF Releases
  <2> QED
    BY <1>1, <2>1 DEF ReleaseOf
<1>4. d2.of = d.of /\ d2.cohort = d.cohort
  BY <1>1, <1>2 DEF Releases
<1>5. new.status # "pending" => d2.task[t] = new
  BY <1>1, <1>2, ReleaseAnswersNothing
<1> QED
  BY <1>2, <1>3, <1>4, <1>5 DEF d2, a

\* The tasks of N have no run.
NoRunIn(d, t, N) == t \in N => d.rows[t]["pending"] = 0 /\ d.rows[t]["running"] = 0

\* applyCronSettlement
LEMMA AppliedFacts ==
  ASSUME NEW d \in DbType, NEW E, GraphType(E), NEW W, NEW U, NEW N, NEW t \in Tasks,
         NEW outcome \in Outcomes, NEW ends \in Endings, NEW order \in Orders,
         IsCron(d.task[t]), Sound(d, E, W, U, N)
  PROVE  LET d2 == Applied(d, E, t, outcome, ends, order) IN
         /\ Sound(d2, E, W, U, N) /\ Settles(d, d2, E, {}, {t})
         /\ d2 \in DbType /\ d2.of = d.of /\ d2.cohort = d.cohort
         /\ d2.task[t].reason # "awaiting_children"
<1> DEFINE new == [CronSettlement(d.task[t], outcome, ends) EXCEPT !.reason = "none"]
           d2 == Applied(d, E, t, outcome, ends, order)
<1>1. MayBecome(d.task[t], new) /\ new.reason = "none"
  BY DbFields, CronSettlementFacts
<1>2. d2 = Released(WithTask(d, t, new), E, t, order)
  BY DEF Applied, WithTask
<1>3. t \notin N
  BY DEF Sound, PlainIn, PlainTask
<1> HIDE DEF new, d2
<1>4. Sound(d2, E, W, U, N)
  BY <1>1, <1>2, <1>3, AnswerSound
<1>5. Settles(d, d2, E, {}, {t})
  BY <1>1, <1>2, AnswerSettles
<1>6. /\ d2 \in DbType /\ d2.of = d.of /\ d2.cohort = d.cohort
      /\ d2.task[t].reason # "awaiting_children"
  BY <1>1, <1>2, AnswerFrame
<1> QED
  BY <1>4, <1>5, <1>6 DEF d2

\* Two cohorts that count the same.
SameCount(c, c2) == (c.open <=> c2.open) /\ c.total = c2.total /\ c.settled = c2.settled

\* A holder's settlement is kept for later; any other is the task's own.
LEMMA SettledSelfFacts ==
  ASSUME NEW d \in DbType, NEW E, GraphType(E), NEW W, NEW U, NEW N, NEW t \in Tasks,
         NEW outcome \in Outcomes, NEW ends \in Endings, NEW order \in Orders,
         Sound(d, E, W, U, N), NoRunIn(d, t, N)
  PROVE  LET d2 == SettledSelf(d, E, t, outcome, ends, order) IN
         /\ Sound(d2, E, W, U, N) /\ Settles(d, d2, E, {}, {t})
         /\ \A x \in Tasks : SameCount(d.cohort[x], d2.cohort[x])
<1> DEFINE d2 == SettledSelf(d, E, t, outcome, ends, order)
<1>1. CASE d.cohort[t].open
  <2> DEFINE new == [d.task[t] EXCEPT !.status = "blocked", !.reason = "awaiting_children"]
             c == [d.cohort[t] EXCEPT !.frozen = outcome]
             a == WithCohort(d, t, c)
  <2>1. d2 = WithTask(a, t, new)
    <3>1. d2 = [d EXCEPT !.cohort[t].frozen = outcome,
                         !.task[t].status = "blocked", !.task[t].reason = "awaiting_children"]
      BY <1>1 DEF SettledSelf
    <3> QED
      BY <3>1 DEF WithTask, WithCohort, DbType
  <2>2. /\ new \in CardTypes /\ new.status = "blocked" /\ new.reason = "awaiting_children"
        /\ new.trigger = d.task[t].trigger
    <3>1. d.task[t] \in CardTypes
      BY DbFields
    <3> QED
      BY <3>1 DEF CardTypes, Statuses
  <2>3. c \in Cohorts /\ c.frozen = outcome /\ c.open /\ SameCount(d.cohort[t], c)
        /\ outcome # "none"
    BY <1>1, DbFields DEF Cohorts, Outcomes, SameCount
  <2> HIDE DEF new, c
  <2>4. /\ a \in DbType /\ a.cohort[t] = c
        /\ \A x \in Tasks : x # t => a.cohort[x] = d.cohort[x]
        /\ a.task = d.task /\ a.of = d.of /\ a.rows = d.rows
    BY <2>3, WithCohortFacts
  <2> HIDE DEF a, d2
  <2>5. /\ d2 \in DbType /\ d2.task[t] = new
        /\ \A x \in Tasks : x # t => d2.task[x] = d.task[x]
        /\ d2.rows = d.rows /\ d2.of = d.of /\ d2.cohort = a.cohort
    BY <2>1, <2>2, <2>4, WithTaskFacts
  <2>6. \A x \in Tasks : SameCount(d.cohort[x], d2.cohort[x])
    BY <2>3, <2>4, <2>5 DEF SameCount
  <2>7. HeldIn(d2, U)
    BY <2>2, <2>3, <2>4, <2>5 DEF HeldIn, Sound, IsCron
  <2>8. PlainIn(d2, N)
    <3>1. t \notin N
      BY <1>1 DEF Sound, PlainIn, PlainTask
    <3>2. ASSUME NEW x \in N PROVE x \in Tasks /\ PlainTask(d2, x)
      BY <2>4, <2>5, <3>1 DEF Sound, PlainIn, PlainTask
    <3> QED
      BY <3>2 DEF PlainIn
  <2>9. WaitsIn(d2, E, W)
    <3> SUFFICES ASSUME NEW x \in W
                 PROVE  /\ x \in Tasks /\ ~IsCron(d2.task[x]) /\ PlainEdges(E, x)
                        /\ d2.task[x].status = "pending" => Waits(d2, E, x)
      BY DEF WaitsIn
    <3>1. /\ x \in Tasks /\ ~IsCron(d.task[x]) /\ PlainEdges(E, x)
          /\ d.task[x].status = "pending" => Waits(d, E, x)
      BY DEF Sound, WaitsIn
    <3>2. ~IsCron(d2.task[x])
      BY <2>2, <2>5, <3>1 DEF IsCron
    <3>3. ASSUME d2.task[x].status = "pending" PROVE Waits(d2, E, x)
      <4>1. Waits(d, E, x)
        BY <2>2, <2>5, <3>1, <3>3
      <4>2. ASSUME NEW e \in EdgesOf(E, x)
            PROVE  \/ d2.task[e.on] = d.task[e.on]
                   \/ d2.task[e.on].status = "blocked"
        BY <2>2, <2>5, <3>1 DEF PlainEdges
      <4> QED
        BY <4>1, <4>2 DEF Waits
    <3> QED
      BY <3>1, <3>2, <3>3
  <2>10. Settles(d, d2, E, {}, {t})
    <3>1. \A x \in Tasks : d2.task[x].trigger = d.task[x].trigger
      BY <2>2, <2>5
    <3>2. \A x \in Tasks : d2.task[x] = d.task[x] \/ d2.task[x].status = "blocked"
      BY <2>2, <2>5
    <3>3. \A e \in E : e.on # t /\ IsEdgeSatisfied(d, e) => IsEdgeSatisfied(d2, e)
      BY <2>5 DEF IsEdgeSatisfied, GraphType
    <3> QED
      BY <2>5, <3>1, <3>2, <3>3 DEF Settles
  <2> QED
    BY <2>6, <2>7, <2>8, <2>9, <2>10 DEF Sound, d2
<1>2. CASE ~d.cohort[t].open /\ IsCron(d.task[t])
  <2>1. d2 = Applied(d, E, t, outcome, ends, order)
    BY <1>2 DEF SettledSelf
  <2> HIDE DEF d2
  <2>2. Sound(d2, E, W, U, N) /\ Settles(d, d2, E, {}, {t}) /\ d2.cohort = d.cohort
    BY <1>2, <2>1, AppliedFacts
  <2> QED
    BY <2>2 DEF SameCount, d2
<1>3. CASE ~d.cohort[t].open /\ ~IsCron(d.task[t])
  <2> DEFINE new == [d.task[t] EXCEPT !.status = outcome]
  <2>1. d2 = Released(WithTask(d, t, new), E, t, order)
    <3>1. d2 = Released([d EXCEPT !.task[t].status = outcome], E, t, order)
      BY <1>3 DEF SettledSelf
    <3>2. [d EXCEPT !.task[t].status = outcome] = WithTask(d, t, new)
      BY DEF WithTask, DbType
    <3> QED
      BY <3>1, <3>2
  <2>2. MayBecome(d.task[t], new)
    BY DbFields, OutcomeFacts
  <2> HIDE DEF new, d2
  <2>3. Sound(d2, E, W, U, N)
    BY <2>1, <2>2, AnswerSound DEF NoRunIn
  <2>4. Settles(d, d2, E, {}, {t}) /\ d2.cohort = d.cohort
    BY <2>1, <2>2, AnswerSettles, AnswerFrame
  <2> QED
    BY <2>3, <2>4 DEF SameCount, d2
<1> QED
  BY <1>1, <1>2, <1>3

\* A task of its own has its run's outcome then.
LEMMA SettledSelfStatus ==
  ASSUME NEW d \in DbType, NEW E, NEW t \in Tasks,
         NEW outcome \in Outcomes, NEW ends \in Endings, NEW order \in Orders,
         ~d.cohort[t].open, ~IsCron(d.task[t])
  PROVE  SettledSelf(d, E, t, outcome, ends, order).task[t].status = outcome
<1> DEFINE new == [d.task[t] EXCEPT !.status = outcome]
           d2 == SettledSelf(d, E, t, outcome, ends, order)
<1>1. d2 = Released(WithTask(d, t, new), E, t, order)
  <2>1. d2 = Released([d EXCEPT !.task[t].status = outcome], E, t, order)
    BY DEF SettledSelf
  <2>2. [d EXCEPT !.task[t].status = outcome] = WithTask(d, t, new)
    BY DEF WithTask, DbType
  <2> QED
    BY <2>1, <2>2
<1>2. MayBecome(d.task[t], new) /\ new.status = outcome /\ outcome # "pending"
  <2>1. d.task[t] \in CardTypes /\ outcome \in Statuses /\ outcome # "pending"
    BY DbFields DEF Outcomes, Statuses
  <2> QED
    BY <2>1, OutcomeFacts, StatusColumn
<1> HIDE DEF new, d2
<1>3. d2.task[t] = new
  BY <1>1, <1>2, AnswerFrame
<1> QED
  BY <1>2, <1>3 DEF d2

\* settleCohortMember, and the settlement of the holder it resolves.
LEMMA SettledMemberFacts ==
  ASSUME NEW d \in DbType, NEW E, GraphType(E), NEW W, NEW U, NEW N, NEW h \in Tasks,
         NEW ends \in Endings, NEW order \in Orders,
         Sound(d, E, W, U, N), d.cohort[h].open
  PROVE  LET d2 == SettledMember(d, E, h, ends, order)
             c == d.cohort[h]
             c2 == d2.cohort[h]
         IN
         /\ Sound(d2, E, W, U, N) /\ Settles(d, d2, E, {}, {h})
         /\ c.settled + 1 < c.total =>
              c2.open /\ c2.total = c.total /\ c2.settled = c.settled + 1
         /\ ~(c.settled + 1 < c.total) => ~c2.open
         /\ \A x \in Tasks : x # h => d2.cohort[x] = d.cohort[x]
<1> DEFINE d2 == SettledMember(d, E, h, ends, order)
<1>1. d.cohort[h] \in Cohorts /\ h \notin N
  BY DbFields DEF Sound, PlainIn, PlainTask
<1>2. CASE d.cohort[h].settled + 1 < d.cohort[h].total
  <2> DEFINE c == [d.cohort[h] EXCEPT !.settled = @ + 1]
  <2>1. d2 = WithCohort(d, h, c)
    <3>1. d2 = [d EXCEPT !.cohort[h].settled = @ + 1]
      BY <1>2 DEF SettledMember
    <3> QED
      BY <3>1 DEF WithCohort, DbType
  <2>2. /\ c \in Cohorts /\ c.open /\ c.total = d.cohort[h].total
        /\ c.settled = d.cohort[h].settled + 1 /\ c.frozen = d.cohort[h].frozen
    BY <1>1 DEF Cohorts
  <2> HIDE DEF c, d2
  <2>3. /\ d2 \in DbType /\ d2.cohort[h] = c
        /\ \A x \in Tasks : x # h => d2.cohort[x] = d.cohort[x]
        /\ d2.task = d.task /\ d2.of = d.of /\ d2.rows = d.rows
    BY <2>1, <2>2, WithCohortFacts
  <2>4. Sound(d2, E, W, U, N)
    <3>1. HeldIn(d2, U)
      BY <2>2, <2>3 DEF Sound, HeldIn
    <3>2. WaitsIn(d2, E, W)
      BY <2>3 DEF Sound, WaitsIn, Waits
    <3>3. PlainIn(d2, N)
      BY <1>1, <2>3 DEF Sound, PlainIn, PlainTask
    <3> QED
      BY <3>1, <3>2, <3>3 DEF Sound
  <2>5. Settles(d, d2, E, {}, {h})
    BY <2>3 DEF Settles, IsEdgeSatisfied
  <2> QED
    BY <1>2, <2>2, <2>3, <2>4, <2>5 DEF d2
<1>3. CASE ~(d.cohort[h].settled + 1 < d.cohort[h].total)
  <2> DEFINE closed == WithCohort(d, h, NoCohort)
  <2>1. d2 = IF d.cohort[h].frozen # "none" /\ IsCron(d.task[h])
             THEN Applied(closed, E, h, d.cohort[h].frozen, ends, order) ELSE closed
    BY <1>3 DEF SettledMember, WithCohort
  <2>2. NoCohort \in Cohorts /\ ~NoCohort.open
    BY DEF NoCohort, Cohorts
  <2>3. /\ closed \in DbType /\ closed.cohort[h] = NoCohort
        /\ \A x \in Tasks : x # h => closed.cohort[x] = d.cohort[x]
        /\ closed.task = d.task /\ closed.of = d.of /\ closed.rows = d.rows
    BY <2>2, WithCohortFacts
  <2> HIDE DEF closed, d2
  <2>4. Settles(d, closed, E, {}, {})
    BY <2>3 DEF Settles, IsEdgeSatisfied
  <2>5. WaitsIn(closed, E, W)
    BY <2>3 DEF Sound, WaitsIn, Waits
  <2>6. PlainIn(closed, N)
    BY <1>1, <2>3 DEF Sound, PlainIn, PlainTask
  <2>7. HeldIn(closed, U \cup {h})
    BY <2>3 DEF Sound, HeldIn
  <2>8. CASE d.cohort[h].frozen # "none" /\ IsCron(d.task[h])
    <3> DEFINE outcome == d.cohort[h].frozen
    <3>1. outcome \in Outcomes
      BY <1>1, <2>8 DEF Cohorts
    <3>2. d2 = Applied(closed, E, h, outcome, ends, order) /\ IsCron(closed.task[h])
      BY <2>1, <2>3, <2>8
    <3> HIDE DEF outcome
    <3>3. Sound(closed, E, W, U \cup {h}, N)
      BY <2>5, <2>6, <2>7 DEF Sound
    <3>4. /\ Sound(d2, E, W, U \cup {h}, N) /\ Settles(closed, d2, E, {}, {h})
          /\ d2.cohort = closed.cohort /\ d2.task[h].reason # "awaiting_children"
      BY <2>3, <3>1, <3>2, <3>3, AppliedFacts
    <3>5. HeldIn(d2, U)
      BY <3>4 DEF Sound, HeldIn
    <3>6. Sound(d2, E, W, U, N)
      BY <3>4, <3>5 DEF Sound
    <3>7. Settles(d, d2, E, {}, {h})
      <4>1. Settles(d, d2, E, {} \cup {} \cup {h}, {} \cup {h})
        BY <2>4, <3>4, SettlesCompose
      <4>2. \A x \in Tasks : closed.task[x] = d.task[x]
        BY <2>3
      <4> QED
        BY <2>3, <3>4, <4>1, <4>2 DEF Settles, IsEdgeSatisfied
    <3> QED
      BY <1>3, <2>2, <2>3, <3>4, <3>6, <3>7 DEF d2
  <2>9. CASE ~(d.cohort[h].frozen # "none" /\ IsCron(d.task[h]))
    <3>1. d2 = closed
      BY <2>1, <2>9
    <3>2. HeldIn(closed, U)
      BY <2>3, <2>9 DEF Sound, HeldIn
    <3>3. Sound(d2, E, W, U, N) /\ Settles(d, d2, E, {}, {h})
      BY <2>4, <2>5, <2>6, <3>1, <3>2 DEF Sound, Settles
    <3> QED
      BY <1>3, <2>2, <2>3, <3>1, <3>3 DEF d2
  <2> QED
    BY <2>8, <2>9
<1> QED
  BY <1>2, <1>3

\* The holder whose cohort a settlement of t counts in.
IsHolder(d, t, h) == h = d.of[t] /\ h # t /\ d.cohort[h].open

\* What the settlement of t counts: one more child, or the last, in the cohort
\* of its holder, and nothing anywhere else.
CountsAs(d, d2, t, outcome) ==
  \A x \in Tasks :
    /\ IsHolder(d, t, x) /\ outcome # "handed_off" =>
         LET c == d.cohort[x]
             c2 == d2.cohort[x]
         IN IF c.settled + 1 < c.total
            THEN c2.open /\ c2.total = c.total /\ c2.settled = c.settled + 1
            ELSE ~c2.open
    /\ ~(IsHolder(d, t, x) /\ outcome # "handed_off") => SameCount(d.cohort[x], d2.cohort[x])

HolderOf(d, t) == {h \in Tasks : IsHolder(d, t, h)}

\* settleTaskAfterRun
LEMMA SettledFacts ==
  ASSUME NEW d \in DbType, NEW E, GraphType(E), NEW W, NEW U, NEW N, NEW t \in Tasks,
         NEW outcome \in Outcomes \cup {"handed_off"}, NEW ends \in Endings,
         NEW order \in Orders, Sound(d, E, W, U, N), NoRunIn(d, t, N)
  PROVE  LET d2 == Settled(d, E, t, outcome, ends, order) IN
         /\ Sound(d2, E, W, U, N)
         /\ Settles(d, d2, E, HolderOf(d, t), {t} \cup HolderOf(d, t))
         /\ CountsAs(d, d2, t, outcome)
         /\ t \in N /\ outcome # "handed_off" => d2.task[t].status = outcome
<1> DEFINE self == SettledSelf(d, E, t, outcome, ends, order)
           h == d.of[t]
           d2 == Settled(d, E, t, outcome, ends, order)
<1>1. CASE outcome = "handed_off"
  <2> DEFINE new == [d.task[t] EXCEPT !.status = "blocked"]
  <2>1. d2 = WithTask(d, t, new)
    <3>1. d2 = [d EXCEPT !.task[t].status = "blocked"]
      BY <1>1 DEF Settled
    <3> QED
      BY <3>1 DEF WithTask, DbType
  <2>2. /\ new \in CardTypes /\ new.status = "blocked"
        /\ new.reason = d.task[t].reason /\ new.trigger = d.task[t].trigger
    <3>1. d.task[t] \in CardTypes /\ "blocked" \in Statuses
      BY DbFields DEF Statuses
    <3> QED
      BY <3>1, StatusColumn
  <2> HIDE DEF new, d2
  <2>3. /\ d2 \in DbType /\ d2.task[t] = new
        /\ \A x \in Tasks : x # t => d2.task[x] = d.task[x]
        /\ d2.rows = d.rows /\ d2.of = d.of /\ d2.cohort = d.cohort
    BY <2>1, <2>2, WithTaskFacts
  <2>4. HeldIn(d2, U)
    BY <2>2, <2>3 DEF Sound, HeldIn, IsCron
  <2>5. PlainIn(d2, N)
    <3> SUFFICES ASSUME NEW x \in N PROVE x \in Tasks /\ PlainTask(d2, x)
      BY DEF PlainIn
    <3>1. x \in Tasks /\ PlainTask(d, x)
      BY DEF Sound, PlainIn
    <3>2. CASE x = t
      BY <2>2, <2>3, <3>1, <3>2 DEF PlainTask, NoRunIn, IsCron
    <3>3. CASE x # t
      BY <2>3, <3>1, <3>3 DEF PlainTask
    <3> QED
      BY <3>2, <3>3
  <2>6. WaitsIn(d2, E, W)
    <3> SUFFICES ASSUME NEW x \in W
                 PROVE  /\ x \in Tasks /\ ~IsCron(d2.task[x]) /\ PlainEdges(E, x)
                        /\ d2.task[x].status = "pending" => Waits(d2, E, x)
      BY DEF WaitsIn
    <3>1. /\ x \in Tasks /\ ~IsCron(d.task[x]) /\ PlainEdges(E, x)
          /\ d.task[x].status = "pending" => Waits(d, E, x)
      BY DEF Sound, WaitsIn
    <3>2. ~IsCron(d2.task[x])
      BY <2>2, <2>3, <3>1 DEF IsCron
    <3>3. ASSUME d2.task[x].status = "pending" PROVE Waits(d2, E, x)
      <4>1. Waits(d, E, x)
        BY <2>2, <2>3, <3>1, <3>3
      <4>2. ASSUME NEW e \in EdgesOf(E, x)
            PROVE  \/ d2.task[e.on] = d.task[e.on]
                   \/ d2.task[e.on].status = "blocked"
        BY <2>2, <2>3, <3>1 DEF PlainEdges
      <4> QED
        BY <4>1, <4>2 DEF Waits
    <3> QED
      BY <3>1, <3>2, <3>3
  <2>7. Settles(d, d2, E, HolderOf(d, t), {t} \cup HolderOf(d, t))
    <3>1. \A x \in Tasks : d2.task[x].trigger = d.task[x].trigger
      BY <2>2, <2>3
    <3>2. \A x \in Tasks : d2.task[x] = d.task[x] \/ d2.task[x].status = "blocked"
      BY <2>2, <2>3
    <3>3. \A e \in E : e.on # t /\ IsEdgeSatisfied(d, e) => IsEdgeSatisfied(d2, e)
      BY <2>3 DEF IsEdgeSatisfied, GraphType
    <3> QED
      BY <2>3, <3>1, <3>2, <3>3 DEF Settles
  <2>8. CountsAs(d, d2, t, outcome)
    BY <1>1, <2>3 DEF CountsAs, SameCount
  <2> QED
    BY <1>1, <2>4, <2>5, <2>6, <2>7, <2>8 DEF Sound, d2
<1>2. CASE outcome # "handed_off"
  <2>1. outcome \in Outcomes
    BY <1>2
  <2>2. /\ Sound(self, E, W, U, N) /\ Settles(d, self, E, {}, {t})
        /\ \A x \in Tasks : SameCount(d.cohort[x], self.cohort[x])
        /\ t \in N => self.task[t].status = outcome
    <3>1. /\ Sound(self, E, W, U, N) /\ Settles(d, self, E, {}, {t})
          /\ \A x \in Tasks : SameCount(d.cohort[x], self.cohort[x])
      BY <2>1, SettledSelfFacts
    <3>2. t \in N => self.task[t].status = outcome
      <4>1. SUFFICES ASSUME t \in N PROVE self.task[t].status = outcome
        OBVIOUS
      <4>2. ~d.cohort[t].open /\ ~IsCron(d.task[t])
        BY <4>1 DEF Sound, PlainIn, PlainTask
      <4> QED
        BY <2>1, <4>2, SettledSelfStatus
    <3> QED
      BY <3>1, <3>2
  <2>3. self \in DbType /\ h \in Tasks
    BY <2>2, DbFields DEF Settles
  <2>4. self.cohort[h].open <=> d.cohort[h].open
    BY <2>2, <2>3 DEF SameCount
  <2>5. CASE h # t /\ d.cohort[h].open
    <3>1. d2 = SettledMember(self, E, h, ends, order)
      BY <1>2, <2>4, <2>5 DEF Settled
    <3> HIDE DEF self, h, d2
    <3> DEFINE c == self.cohort[h]
               c2 == d2.cohort[h]
    <3>2. /\ Sound(d2, E, W, U, N) /\ Settles(self, d2, E, {}, {h})
          /\ c.settled + 1 < c.total =>
               c2.open /\ c2.total = c.total /\ c2.settled = c.settled + 1
          /\ ~(c.settled + 1 < c.total) => ~c2.open
          /\ \A x \in Tasks : x # h => d2.cohort[x] = self.cohort[x]
      <4>1. h \in Tasks /\ self \in DbType /\ Sound(self, E, W, U, N) /\ self.cohort[h].open
        BY <2>2, <2>3, <2>4, <2>5
      <4> QED
        BY ONLY <4>1, <3>1, SettledMemberFacts, GraphType(E)
    <3>3. HolderOf(d, t) = {h}
      BY <2>3, <2>5 DEF HolderOf, IsHolder, h
    <3>4. Settles(d, d2, E, {h}, {t} \cup {h})
      <4>1. Settles(d, d2, E, {} \cup {} \cup {h}, {t} \cup {h})
        BY <2>2, <3>2, SettlesCompose
      <4>2. {} \cup {} \cup {h} = {h}
        OBVIOUS
      <4> QED
        BY <4>1, <4>2
    <3>5. CountsAs(d, d2, t, outcome)
      <4> SUFFICES ASSUME NEW x \in Tasks
                   PROVE  /\ IsHolder(d, t, x) =>
                               IF d.cohort[x].settled + 1 < d.cohort[x].total
                               THEN /\ d2.cohort[x].open
                                    /\ d2.cohort[x].total = d.cohort[x].total
                                    /\ d2.cohort[x].settled = d.cohort[x].settled + 1
                               ELSE ~d2.cohort[x].open
                          /\ ~IsHolder(d, t, x) => SameCount(d.cohort[x], d2.cohort[x])
        BY <1>2 DEF CountsAs
      <4>1. IsHolder(d, t, x) <=> x = h
        BY <2>5 DEF IsHolder, h
      <4>2. SameCount(d.cohort[x], self.cohort[x])
        BY <2>2
      <4>3. CASE x = h
        BY <3>2, <4>1, <4>2, <4>3 DEF SameCount
      <4>4. CASE x # h
        BY <3>2, <4>1, <4>2, <4>4
      <4> QED
        BY <4>3, <4>4
    <3>6. t \in N => d2.task[t].status = outcome
      <4>1. outcome # "pending" /\ t \in Tasks \ {h}
        BY <2>1, <2>5 DEF Outcomes
      <4> QED
        BY <2>2, <3>2, <4>1 DEF Settles
    <3> QED
      BY <3>2, <3>3, <3>4, <3>5, <3>6 DEF d2
  <2>6. CASE ~(h # t /\ d.cohort[h].open)
    <3>1. d2 = self
      BY <1>2, <2>4, <2>6 DEF Settled
    <3> HIDE DEF self, h, d2
    <3>2. HolderOf(d, t) = {} /\ \A x \in Tasks : ~IsHolder(d, t, x)
      BY <2>6 DEF HolderOf, IsHolder, h
    <3>3. CountsAs(d, d2, t, outcome)
      BY <2>2, <3>1, <3>2 DEF CountsAs
    <3>4. Settles(d, d2, E, HolderOf(d, t), {t} \cup HolderOf(d, t))
      BY <2>2, <3>1, <3>2
    <3> QED
      BY <2>2, <3>1, <3>3, <3>4 DEF d2
  <2> QED
    BY <2>5, <2>6
<1> QED
  BY <1>1, <1>2

\* A settlement that throws is made again, as that of a failed run.
TwiceBy(d, t, outcome) == {x \in {t} : Throws(d, t, outcome) /\ outcome = "done"}

\* The executor's completion of a run.
LEMMA SettledByExecutorFacts ==
  ASSUME NEW d \in DbType, NEW E, GraphType(E), NEW W, NEW U, NEW N, NEW t \in Tasks,
         NEW outcome \in Outcomes \cup {"handed_off"}, NEW ends \in Endings,
         NEW order \in Orders, Sound(d, E, W, U, N), NoRunIn(d, t, N)
  PROVE  LET d2 == SettledByExecutor(d, E, t, outcome, ends, order) IN
         /\ Sound(d2, E, W, U, N)
         /\ Settles(d, d2, E, HolderOf(d, t) \cup TwiceBy(d, t, outcome),
                    {t} \cup HolderOf(d, t))
         /\ CountsAs(d, d2, t, outcome)
<1> DEFINE first == Settled(d, E, t, outcome, ends, order)
           d2 == SettledByExecutor(d, E, t, outcome, ends, order)
<1>1. /\ Sound(first, E, W, U, N)
      /\ Settles(d, first, E, HolderOf(d, t), {t} \cup HolderOf(d, t))
      /\ CountsAs(d, first, t, outcome)
      /\ t \in N /\ outcome # "handed_off" => first.task[t].status = outcome
  BY SettledFacts
<1>2. first \in DbType /\ first.of = d.of
  BY <1>1 DEF Settles
<1>3. CASE Throws(d, t, outcome) /\ outcome = "done"
  <2> DEFINE failed == "failed"
  <2>1. d2 = Settled(first, E, t, failed, ends, order)
    BY <1>3 DEF SettledByExecutor
  <2> HIDE DEF first, d2
  <2>2. NoRunIn(first, t, N)
    <3>1. SUFFICES ASSUME t \in N
                   PROVE  first.rows[t]["pending"] = 0 /\ first.rows[t]["running"] = 0
      BY DEF NoRunIn
    <3>2. first.task[t].status = "done" /\ PlainTask(first, t)
      BY <1>1, <1>3, <3>1 DEF Sound, PlainIn
    <3>3. first.rows[t] \in [RowStates -> Nat]
      BY <1>2, DbFields
    <3> QED
      BY <3>2, <3>3 DEF PlainTask, RowStates
  <2>3. IsHolder(d, t, d.of[t]) /\ d.of[t] \in Tasks /\ ~first.cohort[d.of[t]].open
    <3>1. IsHolder(d, t, d.of[t]) /\ d.of[t] \in Tasks
      BY <1>3, DbFields DEF Throws, IsHolder
    <3>2. d.cohort[d.of[t]] \in Cohorts
      BY <3>1, DbFields
    <3>3. ~(d.cohort[d.of[t]].settled + 1 < d.cohort[d.of[t]].total)
      BY <1>3, <3>2 DEF Throws, Cohorts
    <3> QED
      BY <1>1, <1>3, <3>1, <3>3 DEF CountsAs
  <2>4. HolderOf(first, t) = {} /\ \A x \in Tasks : ~IsHolder(first, t, x)
    BY <1>2, <2>3 DEF HolderOf, IsHolder
  <2>5. failed \in Outcomes \cup {"handed_off"} /\ failed # "handed_off"
    BY DEF Outcomes
  <2>6. /\ Sound(d2, E, W, U, N)
        /\ Settles(first, d2, E, HolderOf(first, t), {t} \cup HolderOf(first, t))
        /\ CountsAs(first, d2, t, failed)
    <3> HIDE DEF failed
    <3> QED
      BY <1>1, <1>2, <2>1, <2>2, <2>5, SettledFacts
  <2>7. Settles(d, d2, E, HolderOf(d, t) \cup TwiceBy(d, t, outcome), {t} \cup HolderOf(d, t))
    <3>1. Settles(d, d2, E, HolderOf(d, t) \cup {} \cup {t}, {t} \cup HolderOf(d, t) \cup {t})
      <4>1. Settles(first, d2, E, {}, {t})
        BY <2>4, <2>6
      <4> QED
        BY <1>1, <4>1, SettlesCompose
    <3>2. /\ TwiceBy(d, t, outcome) = {t}
          /\ {t} \cup HolderOf(d, t) \cup {t} = {t} \cup HolderOf(d, t)
          /\ HolderOf(d, t) \cup {} \cup {t} = HolderOf(d, t) \cup {t}
      BY <1>3 DEF TwiceBy
    <3> QED
      BY <3>1, <3>2
  <2>8. CountsAs(d, d2, t, outcome)
    <3>1. \A x \in Tasks : SameCount(first.cohort[x], d2.cohort[x])
      BY <2>4, <2>6 DEF CountsAs
    <3> QED
      BY <1>1, <3>1 DEF CountsAs, SameCount
  <2> QED
    BY <2>6, <2>7, <2>8 DEF d2
<1>4. CASE ~(Throws(d, t, outcome) /\ outcome = "done")
  <2>1. d2 = first
    BY <1>4 DEF SettledByExecutor
  <2>2. TwiceBy(d, t, outcome) = {}
    BY <1>4 DEF TwiceBy
  <2> HIDE DEF first, d2
  <2>3. HolderOf(d, t) \cup {} = HolderOf(d, t)
    OBVIOUS
  <2> QED
    BY <1>1, <2>1, <2>2, <2>3 DEF d2
<1> QED
  BY <1>3, <1>4
=============================================================================
