------------------------- MODULE TaskWaiters_proofs -------------------------
(***************************************************************************)
(* The invariant of TaskDependencies' tables, for any tasks and however    *)
(* often users step in: who waits for whom, what a holder of a cohort is   *)
(* released by and what it counts, and which rows a task made without a    *)
(* schedule has.  One lemma per handler shows that it is kept; the         *)
(* properties follow from it and from those lemmas.                        *)
(***************************************************************************)
EXTENDS TaskMoves_proofs

-----------------------------------------------------------------------------
(* The invariant.                                                          *)

\* There is nothing of a task that is not made.
Gone(d, M) ==
  \A x \in Tasks \ M : d.task[x] = NewTask /\ d.rows[x] = NoRows /\ ~d.cohort[x].open

\* The tasks that are left to the release are made, and the agent's.
LeftIn(d, W, M) ==
  \A x \in W : x \in M /\ d.task[x].status = "pending" /\ d.task[x].by = "agent"

\* A cohort counts those of its children that have not settled, but for the
\* cohorts that went astray.
Counts(d, u, a) ==
  \A h \in Tasks : d.cohort[h].open /\ h \notin a =>
    /\ d.cohort[h].settled < d.cohort[h].total
    /\ d.cohort[h].settled + Cardinality(u[h]) = d.cohort[h].total

\* The tables but db, and the histories.
RestOK(M, E, r, W, u, a) ==
  /\ M \subseteq Tasks
  /\ E \subseteq [task: M, on: M, requireSuccess: BOOLEAN, whileBlocked: BOOLEAN]
  /\ r \subseteq M /\ W \subseteq Tasks
  /\ u \in [Tasks -> SUBSET Tasks] /\ a \subseteq Tasks

Rest == RestOK(made, edges, reused, waiting, unsettled, astray)

\* A holder that waits for its children without a schedule is recorded.
HeldByCron ==
  \A x \in Tasks \ unplanned : db.task[x].reason = "awaiting_children" => IsCron(db.task[x])

TablesInv ==
  /\ db \in DbType /\ \A t \in Tasks, s \in RowStates : db.rows[t][s] <= MaxRows
  /\ Rest /\ edits \in 0..MaxEdits
  /\ planned \subseteq made /\ unplanned \subseteq Tasks
  /\ Sound(db, edges, waiting, unplanned, Tasks \ planned)
  /\ HeldByCron
  /\ LeftIn(db, waiting, made)
  /\ Gone(db, made)
  /\ Counts(db, unsettled, astray)

\* The tasks that are still made without a schedule.
Unplanned(d) == {x \in Tasks \ planned : ~IsCron(d.task[x])}

\* What every action makes of the tables, whatever the histories of schedules
\* and the bounds then say of it.
StepOK ==
  /\ db' \in DbType
  /\ RestOK(made', edges', reused', waiting', unsettled', astray')
  /\ Sound(db', edges', waiting', unplanned, Unplanned(db'))
  /\ LeftIn(db', waiting', made')
  /\ Gone(db', made')
  /\ Counts(db', unsettled', astray')

\* The tables' type is TypeOK's.
LEMMA TablesTyped == TablesInv => TypeOK
<1> SUFFICES ASSUME TablesInv PROVE TypeOK
  OBVIOUS
<1>1. \A t \in Tasks : db.rows[t] \in [RowStates -> 0..MaxRows]
  BY DependencyAssumption DEF TablesInv, DbType
<1>2. db \in [task: [Tasks -> CardTypes], of: [Tasks -> Tasks],
              rows: [Tasks -> [RowStates -> 0..MaxRows]], cohort: [Tasks -> Cohorts]]
  BY <1>1 DEF TablesInv, DbType
<1> QED
  BY <1>2 DEF TablesInv, TypeOK, Rest, RestOK, Cohorts

\* An action's step, with the histories of schedules and the bounds.
LEMMA StepKeepsInv ==
  ASSUME TablesInv, StepOK, FewRows, edits' \in 0..MaxEdits,
         planned' = {t \in made' : t \in planned \/ IsCron(db'.task[t])},
         unplanned' = {t \in {t \in Tasks : db'.task[t].reason = "awaiting_children"} :
                         t \in unplanned \/ ~IsCron(db'.task[t])}
  PROVE  TablesInv'
<1>1. db' \in DbType /\ \A t \in Tasks, s \in RowStates : db'.rows[t][s] <= MaxRows
  BY DEF StepOK, FewRows
<1>2. planned' \subseteq made' /\ unplanned' \subseteq Tasks
  OBVIOUS
<1>3. HeldIn(db', unplanned')
  BY DEF StepOK, Sound, HeldIn
<1>4. WaitsIn(db', edges', waiting')
  BY DEF StepOK, Sound
<1>5. PlainIn(db', Tasks \ planned')
  <2> SUFFICES ASSUME NEW x \in Tasks \ planned' PROVE PlainTask(db', x)
    BY DEF PlainIn
  <2>1. CASE x \in made'
    <3>1. x \in Unplanned(db')
      BY <2>1 DEF Unplanned
    <3> QED
      BY <3>1 DEF StepOK, Sound, PlainIn
  <2>2. CASE x \notin made'
    <3>1. db'.task[x] = NewTask /\ db'.rows[x] = NoRows /\ ~db'.cohort[x].open
      BY <2>2 DEF StepOK, Gone
    <3> QED
      BY <3>1 DEF PlainTask, NewTask, NoRows, RowStates, IsCron
  <2> QED
    BY <2>1, <2>2
<1>6. \A x \in Tasks \ unplanned' :
        db'.task[x].reason = "awaiting_children" => IsCron(db'.task[x])
  OBVIOUS
<1> QED
  BY <1>1, <1>2, <1>3, <1>4, <1>5, <1>6
     DEF TablesInv, StepOK, Rest, HeldByCron, Sound

\* The server starts with the tasks that are on a schedule.
LEMMA InitInv == Init => TablesInv
<1> SUFFICES ASSUME Init PROVE TablesInv
  OBVIOUS
<1>1. PICK trigger \in [Scheduled -> {"cron_once", "cron_repeat"}] :
        db = [task |-> [t \in Tasks |->
                         IF t \in Scheduled
                         THEN [NewTask EXCEPT !.status = "scheduled", !.trigger = trigger[t],
                                             !.config.enabled = TRUE]
                         ELSE NewTask],
             of |-> [t \in Tasks |-> t],
             rows |-> [t \in Tasks |-> NoRows],
             cohort |-> [t \in Tasks |-> NoCohort]]
  BY DEF Init
<1>2. NewTask \in CardTypes /\ NewTask.status = "pending" /\ NewTask.reason = "none"
      /\ ~IsCron(NewTask)
  BY DEF NewTask, NoSchedule, CardTypes, Statuses, Configs, IsCron
<1> DEFINE On(t) == [NewTask EXCEPT !.status = "scheduled", !.trigger = trigger[t],
                                    !.config.enabled = TRUE]
<1>3. ASSUME NEW t \in Scheduled PROVE On(t) \in CardTypes /\ On(t).reason = "none"
  <2>1. trigger[t] \in {"cron_once", "cron_repeat"}
    OBVIOUS
  <2> QED
    BY <2>1 DEF NewTask, NoSchedule, CardTypes, Statuses, Configs
<1> HIDE DEF On
<1>4. /\ db.task = [t \in Tasks |-> IF t \in Scheduled THEN On(t) ELSE NewTask]
      /\ db.of = [t \in Tasks |-> t] /\ db.rows = [t \in Tasks |-> NoRows]
      /\ db.cohort = [t \in Tasks |-> NoCohort]
  BY <1>1 DEF On
<1>5. NoRows \in [RowStates -> Nat] /\ NoCohort \in Cohorts /\ ~NoCohort.open
  BY DEF NoRows, NoCohort, Cohorts
<1>6. db \in DbType
  <2>1. db.task \in [Tasks -> CardTypes]
    BY <1>2, <1>3, <1>4
  <2>2. /\ db.of \in [Tasks -> Tasks] /\ db.rows \in [Tasks -> [RowStates -> Nat]]
        /\ db.cohort \in [Tasks -> Cohorts]
    BY <1>4, <1>5
  <2>3. db = [task |-> db.task, of |-> db.of, rows |-> db.rows, cohort |-> db.cohort]
    BY <1>1
  <2> HIDE <1>1
  <2> QED
    BY <2>1, <2>2, <2>3 DEF DbType
<1>7. \A t \in Tasks, s \in RowStates : db.rows[t][s] <= MaxRows
  BY <1>4, DependencyAssumption DEF NoRows
<1>8. Rest /\ edits \in 0..MaxEdits
  <2>1. /\ made = Scheduled /\ edges = {} /\ reused = {} /\ waiting = {} /\ astray = {}
        /\ unsettled = [t \in Tasks |-> {}] /\ edits = 0
    BY DEF Init
  <2>2. Scheduled \subseteq Tasks /\ MaxEdits \in Nat
    BY DependencyAssumption
  <2> QED
    BY ONLY <2>1, <2>2 DEF Rest, RestOK
<1>9. planned = Scheduled /\ planned \subseteq made /\ unplanned \subseteq Tasks
  BY DEF Init
<1>10. \A x \in Tasks : db.task[x].reason = "none" /\ ~db.cohort[x].open
  BY <1>2, <1>3, <1>4, <1>5
<1>11. HeldIn(db, unplanned) /\ HeldByCron
  BY <1>10 DEF HeldIn, HeldByCron
<1>12. WaitsIn(db, edges, waiting) /\ LeftIn(db, waiting, made)
  BY DEF Init, WaitsIn, LeftIn
<1>13. ASSUME NEW x \in Tasks \ planned
       PROVE  db.task[x] = NewTask /\ db.rows[x] = NoRows /\ ~db.cohort[x].open
  BY <1>4, <1>9, <1>10
<1>14. PlainIn(db, Tasks \ planned)
  BY <1>2, <1>13 DEF PlainIn, PlainTask, NoRows, RowStates
<1>15. Gone(db, made)
  BY <1>13 DEF Gone, Init
<1>16. Counts(db, unsettled, astray)
  BY <1>10 DEF Counts
<1> QED
  BY <1>6, <1>7, <1>8, <1>9, <1>11, <1>12, <1>14, <1>15, <1>16 DEF TablesInv, Sound

-----------------------------------------------------------------------------
(* Settlements.                                                            *)

\* Closing a row of a task takes nothing from what the tables keep.
LEMMA CloseRowSound ==
  ASSUME NEW d \in DbType, NEW E, NEW W, NEW U, NEW N, NEW t \in Tasks,
         NEW rows \in [RowStates -> Nat], Sound(d, E, W, U, N),
         rows["pending"] <= d.rows[t]["pending"], rows["running"] <= d.rows[t]["running"]
  PROVE  Sound(WithRows(d, t, rows), E, W, U, N)
<1> DEFINE d2 == WithRows(d, t, rows)
<1>1. /\ d2 \in DbType /\ d2.rows[t] = rows
      /\ \A x \in Tasks : x # t => d2.rows[x] = d.rows[x]
      /\ d2.task = d.task /\ d2.of = d.of /\ d2.cohort = d.cohort
  BY WithRowsFacts
<1> HIDE DEF d2
<1>2. HeldIn(d2, U)
  BY <1>1 DEF Sound, HeldIn
<1>3. WaitsIn(d2, E, W)
  BY <1>1 DEF Sound, WaitsIn, Waits
<1>4. ASSUME NEW x \in N PROVE x \in Tasks /\ PlainTask(d2, x)
  <2>1. x \in Tasks /\ PlainTask(d, x)
    BY DEF Sound, PlainIn
  <2>2. CASE x # t
    BY <1>1, <2>1, <2>2 DEF PlainTask
  <2>3. CASE x = t
    <3>1. /\ d.rows[t]["pending"] \in Nat /\ d.rows[t]["running"] \in Nat
          /\ rows["pending"] \in Nat /\ rows["running"] \in Nat
      BY DbFields DEF RowStates
    <3> QED
      BY <1>1, <2>1, <2>3, <3>1 DEF PlainTask
  <2> QED
    BY <2>2, <2>3
<1> QED
  BY <1>2, <1>3, <1>4 DEF Sound, PlainIn, d2

\* What a settlement of t leaves of the tables, when it ends a run of t.
SettlementOK(d2, t, outcome) ==
  /\ Sound(d2, edges, waiting, unplanned, Tasks \ planned)
  /\ Settles(db, d2, edges, HolderOf(db, t) \cup TwiceBy(db, t, outcome),
             {t} \cup HolderOf(db, t))
  /\ CountsAs(db, d2, t, outcome)

\* It reads of the tables nothing but what the close of its row left.
LEMMA SettlesAfterClose ==
  ASSUME NEW d, NEW rows, NEW t \in Tasks, NEW d2, NEW E, NEW O, NEW K, t \in K,
         NEW d1, d1.task = d.task, d1.of = d.of,
         \A x \in Tasks : x # t => d1.rows[x] = d.rows[x],
         Settles(d1, d2, E, O, K)
  PROVE  Settles(d, d2, E, O, K)
<1>1. \A e \in E : IsEdgeSatisfied(d1, e) <=> IsEdgeSatisfied(d, e)
  BY DEF IsEdgeSatisfied
<1> QED
  BY <1>1 DEF Settles

\* Closing a row leaves who holds whom, and what an edge is satisfied with.
LEMMA CloseRowFrame ==
  ASSUME NEW d \in DbType, NEW E, NEW t \in Tasks, NEW rows \in [RowStates -> Nat],
         NEW outcome, NEW d2, NEW O, NEW K, t \in K
  PROVE  LET d1 == WithRows(d, t, rows) IN
         /\ HolderOf(d1, t) = HolderOf(d, t)
         /\ TwiceBy(d1, t, outcome) = TwiceBy(d, t, outcome)
         /\ CountsAs(d1, d2, t, outcome) <=> CountsAs(d, d2, t, outcome)
         /\ Settles(d1, d2, E, O, K) => Settles(d, d2, E, O, K)
<1> DEFINE d1 == WithRows(d, t, rows)
<1>1. /\ \A x \in Tasks : x # t => d1.rows[x] = d.rows[x]
      /\ d1.task = d.task /\ d1.of = d.of /\ d1.cohort = d.cohort
  BY WithRowsFacts
<1> HIDE DEF d1
<1>2. HolderOf(d1, t) = HolderOf(d, t)
  BY <1>1 DEF HolderOf, IsHolder
<1>3. TwiceBy(d1, t, outcome) = TwiceBy(d, t, outcome)
  BY <1>1 DEF TwiceBy, Throws
<1>4. CountsAs(d1, d2, t, outcome) <=> CountsAs(d, d2, t, outcome)
  BY <1>1 DEF CountsAs, IsHolder
<1>5. Settles(d1, d2, E, O, K) => Settles(d, d2, E, O, K)
  BY <1>1, SettlesAfterClose
<1> QED
  BY <1>2, <1>3, <1>4, <1>5 DEF d1

-----------------------------------------------------------------------------
(* The count of a cohort.                                                  *)

\* The children that have not settled, and how many they are.
LEMMA UnsettledFinite ==
  ASSUME NEW u \in [Tasks -> SUBSET Tasks], NEW h \in Tasks
  PROVE  /\ IsFiniteSet(u[h]) /\ Cardinality(u[h]) \in Nat
         /\ Cardinality(u[h]) = 0 <=> u[h] = {}
         /\ \A t \in u[h] : Cardinality(u[h] \ {t}) = Cardinality(u[h]) - 1
<1>1. IsFiniteSet(Tasks)
  BY DependencyAssumption
<1>2. IsFiniteSet(u[h])
  BY <1>1, FS_Subset
<1>3. Cardinality(u[h]) \in Nat
  BY <1>2, FS_CardinalityType
<1>4. Cardinality(u[h]) = 0 <=> u[h] = {}
  BY <1>2, FS_EmptySet
<1>5. \A t \in u[h] : Cardinality(u[h] \ {t}) = Cardinality(u[h]) - 1
  BY <1>2, FS_RemoveElement
<1> QED
  BY <1>2, <1>3, <1>4, <1>5

\* The step of CohortClosesWithLastChild.
ClosesWithLast ==
  \A h \in Tasks : db.cohort[h].open /\ h \notin astray' =>
    (~db'.cohort[h].open <=> unsettled'[h] = {})

\* A step that counts nothing in a cohort leaves it as it is counted.
SameCountOf(h) ==
  /\ SameCount(db.cohort[h], db'.cohort[h])
  /\ unsettled'[h] = unsettled[h]
  /\ h \in astray => h \in astray'

CountOf(h) ==
  db.cohort[h].open /\ h \notin astray =>
    /\ db.cohort[h].settled < db.cohort[h].total
    /\ db.cohort[h].settled + Cardinality(unsettled[h]) = db.cohort[h].total

ClosesOf(h) ==
  db.cohort[h].open /\ h \notin astray' =>
    (~db'.cohort[h].open <=> unsettled'[h] = {})

\* So a step that counts nothing for a holder keeps its count, and its cohort.
LEMMA SameCountKeeps ==
  ASSUME NEW h \in Tasks, CountOf(h), SameCountOf(h), db \in DbType,
         unsettled \in [Tasks -> SUBSET Tasks]
  PROVE  CountOf(h)' /\ ClosesOf(h)
<1>1. CountOf(h)'
  BY DEF CountOf, SameCountOf, SameCount
<1>2. ClosesOf(h)
  <2> SUFFICES ASSUME db.cohort[h].open, h \notin astray'
               PROVE  db'.cohort[h].open /\ unsettled'[h] # {}
    BY DEF ClosesOf
  <2>1. db.cohort[h] \in Cohorts /\ h \notin astray
    BY DbFields DEF SameCountOf
  <2>2. unsettled[h] # {}
    BY <2>1, UnsettledFinite DEF CountOf, Cohorts
  <2> QED
    BY <2>2 DEF SameCountOf, SameCount
<1> QED
  BY <1>1, <1>2

\* The settlement of t counts in the cohort of its holder.
LEMMA SettlementCounts ==
  ASSUME db \in DbType, Rest, NEW t \in Tasks, NEW outcome,
         Counts(db, unsettled, astray),
         CountsAs(db, db', t, outcome), CountsSettlement(t, outcome)
  PROVE  /\ Counts(db', unsettled', astray') /\ ClosesWithLast
         /\ unsettled' \in [Tasks -> SUBSET Tasks] /\ astray' \subseteq Tasks
<1>1. unsettled \in [Tasks -> SUBSET Tasks] /\ astray \subseteq Tasks /\ db.of[t] \in Tasks
  BY DbFields DEF Rest, RestOK
<1>2. unsettled' \in [Tasks -> SUBSET Tasks] /\ astray' \subseteq Tasks
  BY <1>1 DEF CountsSettlement, SameHistory
<1>3. ASSUME NEW h \in Tasks PROVE CountOf(h)' /\ ClosesOf(h)
  <2>1. CountOf(h)
    BY DEF Counts, CountOf
  <2>2. CASE IsHolder(db, t, h) /\ outcome # "handed_off"
    <3>1. /\ unsettled' = [unsettled EXCEPT ![h] = @ \ {t}]
          /\ astray' = IF t \in unsettled[h] THEN astray ELSE astray \cup {h}
      BY <2>2 DEF CountsSettlement, IsHolder
    <3>2. SUFFICES ASSUME h \notin astray' PROVE CountOf(h)' /\ ClosesOf(h)
      BY DEF CountOf, ClosesOf
    <3>3. t \in unsettled[h] /\ h \notin astray /\ db.cohort[h].open
      BY <2>2, <3>1, <3>2 DEF IsHolder
    <3> DEFINE c == db.cohort[h]
               c2 == db'.cohort[h]
               n == Cardinality(unsettled[h])
               n2 == Cardinality(unsettled'[h])
    <3>4. c \in Cohorts /\ c.settled < c.total /\ c.settled + n = c.total
      BY <2>1, <3>3, DbFields DEF CountOf
    <3>5. n \in Nat /\ n2 \in Nat /\ n2 = n - 1 /\ (n2 = 0 <=> unsettled'[h] = {})
      <4>1. unsettled'[h] = unsettled[h] \ {t}
        BY <1>1, <3>1
      <4>2. n \in Nat /\ Cardinality(unsettled[h] \ {t}) = n - 1
        BY <1>1, <3>3, UnsettledFinite
      <4>3. n2 \in Nat /\ (n2 = 0 <=> unsettled'[h] = {})
        BY <1>2, UnsettledFinite
      <4> QED
        BY <4>1, <4>2, <4>3
    <3>6. IF c.settled + 1 < c.total
          THEN c2.open /\ c2.total = c.total /\ c2.settled = c.settled + 1 ELSE ~c2.open
      BY <2>2 DEF CountsAs
    <3>7. c.settled \in Nat /\ c.total \in Nat
      BY <3>4 DEF Cohorts
    <3>8. c2.open => c2.settled < c2.total /\ c2.settled + n2 = c2.total
      <4> HIDE DEF c, c2, n, n2
      <4> QED
        BY <3>4, <3>5, <3>6, <3>7
    <3>9. ~c2.open <=> n2 = 0
      <4> HIDE DEF c, c2, n, n2
      <4> QED
        BY <3>4, <3>5, <3>6, <3>7
    <3>10. CountOf(h)'
      BY <3>8 DEF CountOf
    <3>11. ClosesOf(h)
      BY <3>5, <3>9 DEF ClosesOf
    <3> QED
      BY <3>10, <3>11
  <2>3. CASE ~(IsHolder(db, t, h) /\ outcome # "handed_off")
    <3>1. SameCountOf(h)
      <4>1. SameCount(db.cohort[h], db'.cohort[h])
        BY <2>3 DEF CountsAs
      <4>2. CASE outcome # "handed_off" /\ db.of[t] # t /\ db.cohort[db.of[t]].open
        <5>1. h # db.of[t]
          BY <2>3, <4>2 DEF IsHolder
        <5> QED
          BY <1>1, <4>1, <4>2, <5>1 DEF SameCountOf, CountsSettlement
      <4>3. CASE ~(outcome # "handed_off" /\ db.of[t] # t /\ db.cohort[db.of[t]].open)
        BY <4>1, <4>3 DEF SameCountOf, CountsSettlement, SameHistory
      <4> QED
        BY <4>2, <4>3
    <3> QED
      BY <1>1, <2>1, <3>1, SameCountKeeps
  <2> QED
    BY <2>2, <2>3
<1>4. Counts(db', unsettled', astray')
  BY <1>3 DEF Counts, CountOf
<1>5. ClosesWithLast
  BY <1>3 DEF ClosesWithLast, ClosesOf
<1> QED
  BY <1>2, <1>4, <1>5

\* A settlement is a step that keeps the invariant.
LEMMA SettlementStep ==
  ASSUME TablesInv, NEW t \in made, NEW outcome, SettlementOK(db', t, outcome),
         CountsSettlement(t, outcome), StillWaiting({}), SameGraph
  PROVE  StepOK /\ ClosesWithLast
<1>1. /\ db \in DbType /\ Rest /\ Sound(db, edges, waiting, unplanned, Tasks \ planned)
      /\ LeftIn(db, waiting, made) /\ Gone(db, made) /\ Counts(db, unsettled, astray)
  BY DEF TablesInv
<1> DEFINE O == HolderOf(db, t) \cup TwiceBy(db, t, outcome)
           K == {t} \cup HolderOf(db, t)
<1>2. /\ Sound(db', edges, waiting, unplanned, Tasks \ planned)
      /\ Settles(db, db', edges, O, K) /\ CountsAs(db, db', t, outcome)
  BY DEF SettlementOK
<1> HIDE DEF O
<1>3. made' = made /\ edges' = edges /\ reused' = reused
  BY DEF SameGraph
<1>4. /\ waiting' \subseteq waiting
      /\ \A x \in waiting' : db'.task[x].status = "pending"
  BY DEF StillWaiting
<1>5. t \in Tasks /\ made \subseteq Tasks
  BY <1>1 DEF Rest, RestOK
<1>6. /\ Counts(db', unsettled', astray') /\ ClosesWithLast
      /\ unsettled' \in [Tasks -> SUBSET Tasks] /\ astray' \subseteq Tasks
  BY <1>1, <1>2, <1>5, SettlementCounts
<1>7. RestOK(made', edges', reused', waiting', unsettled', astray')
  BY <1>1, <1>3, <1>4, <1>6 DEF Rest, RestOK
<1>8. Sound(db', edges', waiting', unplanned, Unplanned(db'))
  BY <1>2, <1>3, <1>4 DEF Sound, WaitsIn, PlainIn, Unplanned
<1>9. LeftIn(db', waiting', made')
  <2> SUFFICES ASSUME NEW x \in waiting'
               PROVE  x \in made /\ db'.task[x].status = "pending" /\ db'.task[x].by = "agent"
    BY <1>3 DEF LeftIn
  <2>1. x \in waiting /\ x \in Tasks /\ db'.task[x].status = "pending" /\ ~IsCron(db.task[x])
    BY <1>1, <1>4 DEF Sound, WaitsIn
  <2>2. db'.task[x] = db.task[x]
    BY <1>2, <2>1 DEF Settles
  <2> QED
    BY <1>1, <2>1, <2>2 DEF LeftIn
<1>10. Gone(db', made')
  <2> SUFFICES ASSUME NEW x \in Tasks \ made
               PROVE  db'.task[x] = NewTask /\ db'.rows[x] = NoRows /\ ~db'.cohort[x].open
    BY <1>3 DEF Gone
  <2>1. db.task[x] = NewTask /\ db.rows[x] = NoRows /\ ~db.cohort[x].open
    BY <1>1 DEF Gone
  <2>2. x \notin K /\ ~IsHolder(db, t, x)
    BY <2>1 DEF HolderOf, IsHolder
  <2>3. EdgesOf(edges, x) = {}
    BY <1>1 DEF Rest, RestOK, EdgesOf
  <2>4. db'.task[x] = db.task[x] /\ db'.rows[x] = db.rows[x]
    BY <1>2, <2>2, <2>3 DEF Settles
  <2>5. SameCount(db.cohort[x], db'.cohort[x])
    BY <1>2, <2>2 DEF CountsAs
  <2> QED
    BY <2>1, <2>4, <2>5 DEF SameCount
<1>11. db' \in DbType
  BY <1>2 DEF Settles
<1> QED
  BY <1>6, <1>7, <1>8, <1>9, <1>10, <1>11 DEF StepOK

\* The close of a task's running row, or of its pending one.
LEMMA ClosedRun ==
  ASSUME NEW d \in DbType, NEW t \in Tasks, NEW s \in {"running", "pending"},
         d.rows[t][s] > 0, NEW E, NEW W, NEW U, NEW N, Sound(d, E, W, U, N)
  PROVE  LET rows == [d.rows[t] EXCEPT ![s] = @ - 1] IN
         /\ rows \in [RowStates -> Nat]
         /\ Sound(WithRows(d, t, rows), E, W, U, N) /\ NoRunIn(WithRows(d, t, rows), t, N)
         /\ [d EXCEPT !.rows[t][s] = @ - 1] = WithRows(d, t, rows)
<1> DEFINE rows == [d.rows[t] EXCEPT ![s] = @ - 1]
<1>1. d.rows[t] \in [RowStates -> Nat] /\ s \in RowStates
  BY DbFields DEF RowStates
<1>2. /\ rows \in [RowStates -> Nat]
      /\ rows["pending"] = IF s = "pending" THEN d.rows[t]["pending"] - 1
                           ELSE d.rows[t]["pending"]
      /\ rows["running"] = IF s = "running" THEN d.rows[t]["running"] - 1
                           ELSE d.rows[t]["running"]
  BY <1>1 DEF RowStates
<1>3. d.rows[t]["pending"] \in Nat /\ d.rows[t]["running"] \in Nat
  BY <1>1 DEF RowStates
<1>4. [d EXCEPT !.rows[t][s] = @ - 1] = WithRows(d, t, rows)
  BY DEF WithRows, DbType
<1> HIDE DEF rows
<1>5. Sound(WithRows(d, t, rows), E, W, U, N)
  <2>1. rows["pending"] <= d.rows[t]["pending"] /\ rows["running"] <= d.rows[t]["running"]
    BY <1>2, <1>3
  <2> QED
    BY <1>2, <2>1, CloseRowSound
<1>6. NoRunIn(WithRows(d, t, rows), t, N)
  <2>1. SUFFICES ASSUME t \in N PROVE rows["pending"] = 0 /\ rows["running"] = 0
    BY <1>2, WithRowsFacts DEF NoRunIn
  <2>2. PlainTask(d, t)
    BY <2>1 DEF Sound, PlainIn
  <2> QED
    BY <1>2, <1>3, <2>2 DEF PlainTask
<1> QED
  BY <1>2, <1>4, <1>5, <1>6 DEF rows

\* The step of ReleasedOnlyWhenMet.
QueuesMet ==
  \A t \in Tasks : db.task[t].status = "pending" /\ db'.task[t].status = "ready"
    => \A e \in EdgesOf(edges', t) : Answers(e)

\* A satisfied edge has its answer.
LEMMA SatisfiedAnswers ==
  ASSUME NEW e, IsEdgeSatisfied(db', e)
  PROVE  Answers(e)
BY DEF IsEdgeSatisfied, Answers, Outcomes

\* A settlement queues those only whose dependencies have answered.
LEMMA SettlementQueues ==
  ASSUME NEW t \in Tasks, NEW outcome, SettlementOK(db', t, outcome), edges' = edges
  PROVE  QueuesMet
<1> SUFFICES ASSUME NEW x \in Tasks, db.task[x].status = "pending",
                    db'.task[x].status = "ready", NEW e \in EdgesOf(edges, x)
             PROVE  Answers(e)
  BY DEF QueuesMet
<1>1. e.on \in HolderOf(db, t) \cup TwiceBy(db, t, outcome) \/ IsEdgeSatisfied(db', e)
  BY DEF SettlementOK, Settles
<1>2. CASE IsEdgeSatisfied(db', e)
  BY <1>2, SatisfiedAnswers
<1>3. CASE e.on \in HolderOf(db, t)
  BY <1>3 DEF HolderOf, IsHolder, Answers
<1>4. CASE e.on \in TwiceBy(db, t, outcome)
  BY <1>4 DEF TwiceBy, Throws, Answers, SettledTwice
<1> QED
  BY <1>1, <1>2, <1>3, <1>4

\* A task with an active row is made.
LEMMA ActiveIsMade ==
  ASSUME TablesInv, NEW t \in Tasks, NEW s \in RowStates, db.rows[t][s] > 0
  PROVE  t \in made
BY DEF TablesInv, Gone, NoRows

\* So is a task whose card is not a new one's.
LEMMA ShownIsMade ==
  ASSUME TablesInv, NEW t \in Tasks, db.task[t] # NewTask
  PROVE  t \in made
BY DEF TablesInv, Gone

\* Some ending is always found.
LEMMA EndingsFound ==
  ASSUME NEW t, NEW ends \in EndingsFor(t)
  PROVE  ends \in Endings
BY DEF EndingsFor, Endings

\* The table of dependencies has tasks only.
LEMMA GraphTyped == TablesInv => GraphType(edges)
<1> SUFFICES ASSUME TablesInv PROVE GraphType(edges)
  OBVIOUS
<1>1. /\ made \subseteq Tasks
      /\ edges \subseteq [task: made, on: made, requireSuccess: BOOLEAN, whileBlocked: BOOLEAN]
  BY DEF TablesInv, Rest, RestOK
<1> QED
  BY <1>1 DEF GraphType

\* completeQueueEntry settles.
LEMMA FinishSettles ==
  ASSUME TablesInv, NEW t \in Tasks, NEW outcome \in Outcomes \cup {"handed_off"},
         NEW ends \in EndingsFor(t), NEW order \in Orders, Finish(t, outcome, ends, order)
  PROVE  t \in made /\ SettlementOK(db', t, outcome)
<1> DEFINE rows == [db.rows[t] EXCEPT !["running"] = @ - 1]
           d == WithRows(db, t, rows)
           N == Tasks \ planned
<1>1. db \in DbType /\ Sound(db, edges, waiting, unplanned, N) /\ db.rows[t]["running"] > 0
  BY DEF TablesInv, Finish
<1>2. /\ rows \in [RowStates -> Nat]
      /\ Sound(d, edges, waiting, unplanned, N) /\ NoRunIn(d, t, N)
      /\ [db EXCEPT !.rows[t]["running"] = @ - 1] = d
  BY <1>1, ClosedRun
<1>3. db' = SettledByExecutor(d, edges, t, outcome, ends, order)
  BY <1>2 DEF Finish
<1>4. d \in DbType
  BY <1>1, <1>2, WithRowsFacts
<1> HIDE DEF rows, N
<1>5. /\ Sound(db', edges, waiting, unplanned, N)
      /\ Settles(d, db', edges, HolderOf(d, t) \cup TwiceBy(d, t, outcome),
                 {t} \cup HolderOf(d, t))
      /\ CountsAs(d, db', t, outcome)
  <2>1. GraphType(edges) /\ ends \in Endings
    BY GraphTyped, EndingsFound
  <2> HIDE DEF d
  <2> QED
    BY <1>2, <1>3, <1>4, <2>1, SettledByExecutorFacts
<1>6. SettlementOK(db', t, outcome)
  <2>1. t \in {t} \cup HolderOf(d, t)
    OBVIOUS
  <2> QED
    BY <1>1, <1>2, <1>5, <2>1, CloseRowFrame DEF SettlementOK, N
<1>7. t \in made
  BY <1>1, ActiveIsMade DEF RowStates
<1> QED
  BY <1>6, <1>7

\* So does cancelTaskHandler, of a queued run.
LEMMA CancelSettles ==
  ASSUME TablesInv, NEW t \in Tasks, NEW ends \in EndingsFor(t), NEW order \in Orders,
         Cancel(t, ends, order), db.rows[t]["pending"] > 0
  PROVE  t \in made /\ SettlementOK(db', t, "cancelled")
<1> DEFINE rows == [db.rows[t] EXCEPT !["pending"] = @ - 1]
           d == WithRows(db, t, rows)
           N == Tasks \ planned
           outcome == "cancelled"
<1>1. db \in DbType /\ Sound(db, edges, waiting, unplanned, N)
  BY DEF TablesInv
<1>2. /\ rows \in [RowStates -> Nat]
      /\ Sound(d, edges, waiting, unplanned, N) /\ NoRunIn(d, t, N)
      /\ [db EXCEPT !.rows[t]["pending"] = @ - 1] = d
  BY <1>1, ClosedRun
<1>3. db' = Settled(d, edges, t, outcome, ends, order)
  BY <1>2 DEF Cancel
<1>4. d \in DbType
  BY <1>1, <1>2, WithRowsFacts
<1>5. outcome \in Outcomes \cup {"handed_off"}
  BY DEF Outcomes
<1>6. TwiceBy(d, t, outcome) = {}
  BY DEF TwiceBy
<1> HIDE DEF rows, N, outcome
<1>7. /\ Sound(db', edges, waiting, unplanned, N)
      /\ Settles(d, db', edges, HolderOf(d, t) \cup TwiceBy(d, t, outcome),
                 {t} \cup HolderOf(d, t))
      /\ CountsAs(d, db', t, outcome)
  <2>1. GraphType(edges) /\ ends \in Endings
    BY GraphTyped, EndingsFound
  <2> DEFINE d2 == Settled(d, edges, t, outcome, ends, order)
  <2> HIDE DEF d
  <2>2. /\ Sound(d2, edges, waiting, unplanned, N)
        /\ Settles(d, d2, edges, HolderOf(d, t), {t} \cup HolderOf(d, t))
        /\ CountsAs(d, d2, t, outcome)
    BY <1>2, <1>4, <1>5, <2>1, SettledFacts
  <2>3. HolderOf(d, t) \cup TwiceBy(d, t, outcome) = HolderOf(d, t)
    BY <1>6
  <2> QED
    BY <1>3, <2>2, <2>3
<1>8. SettlementOK(db', t, outcome)
  <2>1. t \in {t} \cup HolderOf(d, t)
    OBVIOUS
  <2> QED
    BY <1>1, <1>2, <1>7, <2>1, CloseRowFrame DEF SettlementOK, N
<1>9. t \in made
  BY ActiveIsMade DEF RowStates
<1> QED
  BY <1>8, <1>9 DEF outcome

\* A settlement may leave more answers open than it does, and take more back.
LEMMA SettlesWeaker ==
  ASSUME NEW d, NEW d2, NEW E, NEW O, NEW K, NEW O2, NEW K2,
         Settles(d, d2, E, O, K), O \subseteq O2, K \subseteq K2
  PROVE  Settles(d, d2, E, O2, K2)
BY DEF Settles

\* And parkQueueEntry, though it is no answer and counts for nothing.
LEMMA ParkSettles ==
  ASSUME TablesInv, NEW t \in Tasks, NEW order \in Orders, Park(t, order)
  PROVE  t \in made /\ SettlementOK(db', t, "handed_off")
<1> DEFINE rows == [db.rows[t] EXCEPT !["running"] = @ - 1, !["paused"] = @ + 1]
           d == WithRows(db, t, rows)
           N == Tasks \ planned
           new == [db.task[t] EXCEPT !.status = "blocked"]
           outcome == "handed_off"
<1>1. /\ db \in DbType /\ Sound(db, edges, waiting, unplanned, N)
      /\ db.rows[t]["running"] > 0 /\ db.rows[t] \in [RowStates -> Nat]
      /\ db.task[t] \in CardTypes
  BY DbFields DEF TablesInv, Park
<1>2. /\ rows \in [RowStates -> Nat] /\ rows["pending"] = db.rows[t]["pending"]
      /\ rows["running"] = db.rows[t]["running"] - 1
  BY <1>1 DEF RowStates
<1>3. db' = Released(WithTask(d, t, new), edges, t, order)
  <2>1. db' = Released([db EXCEPT !.rows[t]["running"] = @ - 1, !.rows[t]["paused"] = @ + 1,
                                  !.task[t].status = "blocked"], edges, t, order)
    BY DEF Park, Parked
  <2>2. [db EXCEPT !.rows[t]["running"] = @ - 1, !.rows[t]["paused"] = @ + 1,
                   !.task[t].status = "blocked"] = WithTask(d, t, new)
    BY <1>1 DEF WithTask, WithRows, DbType
  <2> QED
    BY <2>1, <2>2
<1> HIDE DEF rows, outcome
<1>4. d \in DbType /\ d.task = db.task /\ d.rows[t] = rows
  BY <1>1, <1>2, WithRowsFacts
<1>5. Sound(d, edges, waiting, unplanned, N)
  <2>1. db.rows[t]["pending"] \in Nat /\ db.rows[t]["running"] \in Nat
    BY <1>1 DEF RowStates
  <2>2. rows["pending"] <= db.rows[t]["pending"] /\ rows["running"] <= db.rows[t]["running"]
    BY <1>2, <2>1
  <2> HIDE DEF N
  <2> QED
    BY <1>1, <1>2, <2>2, CloseRowSound
<1>6. t \in N => d.rows[t]["pending"] = 0 /\ d.rows[t]["running"] = 0
  <2>1. SUFFICES ASSUME t \in N PROVE rows["pending"] = 0 /\ rows["running"] = 0
    BY <1>4
  <2>2. PlainTask(db, t)
    BY <1>1, <2>1 DEF Sound, PlainIn
  <2>3. db.rows[t]["pending"] \in Nat /\ db.rows[t]["running"] \in Nat
    BY <1>1 DEF RowStates
  <2> QED
    BY <1>1, <1>2, <2>2, <2>3 DEF PlainTask
<1>7. MayBecome(d.task[t], new) /\ GraphType(edges)
  BY <1>1, <1>4, OutcomeFacts, GraphTyped
<1> HIDE DEF new, N
<1>8. /\ Sound(db', edges, waiting, unplanned, N) /\ Settles(d, db', edges, {}, {t})
      /\ db'.cohort = d.cohort
  <2> HIDE DEF d
  <2>1. Sound(db', edges, waiting, unplanned, N)
    BY <1>3, <1>4, <1>5, <1>6, <1>7, AnswerSound
  <2>2. Settles(d, db', edges, {}, {t})
    BY <1>3, <1>4, <1>7, AnswerSettles
  <2>3. db'.cohort = d.cohort
    BY <1>3, <1>4, <1>7, AnswerFrame
  <2> QED
    BY <2>1, <2>2, <2>3
<1>9. Settles(d, db', edges, HolderOf(db, t) \cup TwiceBy(db, t, outcome),
              {t} \cup HolderOf(db, t))
  BY <1>8, SettlesWeaker
<1>10. t \in {t} \cup HolderOf(db, t) /\ CountsAs(d, db', t, outcome)
  BY <1>8 DEF CountsAs, SameCount, outcome
<1>11. SettlementOK(db', t, outcome)
  BY <1>1, <1>2, <1>8, <1>9, <1>10, CloseRowFrame DEF SettlementOK, N
<1>12. t \in made
  BY <1>1, ActiveIsMade DEF RowStates
<1> QED
  BY <1>11, <1>12 DEF outcome

\* So completeQueueEntry keeps the invariant.
LEMMA FinishStep ==
  ASSUME TablesInv, NEW t \in Tasks, NEW outcome \in Outcomes \cup {"handed_off"},
         NEW ends \in EndingsFor(t), NEW order \in Orders, Finish(t, outcome, ends, order)
  PROVE  StepOK /\ ClosesWithLast /\ QueuesMet
<1>1. t \in made /\ SettlementOK(db', t, outcome)
  BY FinishSettles
<1>2. CountsSettlement(t, outcome) /\ StillWaiting({}) /\ SameGraph /\ edges' = edges
  BY DEF Finish, SameGraph
<1>3. StepOK /\ ClosesWithLast
  BY <1>1, <1>2, SettlementStep
<1> QED
  BY <1>1, <1>2, <1>3, SettlementQueues

\* So does parkQueueEntry.
LEMMA ParkStep ==
  ASSUME TablesInv, NEW t \in Tasks, NEW order \in Orders, Park(t, order)
  PROVE  StepOK /\ ClosesWithLast
<1>1. t \in made /\ SettlementOK(db', t, "handed_off")
  BY ParkSettles
<1>2. CountsSettlement(t, "handed_off") /\ StillWaiting({}) /\ SameGraph
  BY DEF Park, CountsSettlement
<1> QED
  BY <1>1, <1>2, SettlementStep

\* And cancelTaskHandler, of a queued run.
LEMMA CancelQueuedStep ==
  ASSUME TablesInv, NEW t \in Tasks, NEW ends \in EndingsFor(t), NEW order \in Orders,
         Cancel(t, ends, order), db.rows[t]["pending"] > 0
  PROVE  StepOK /\ ClosesWithLast
<1>1. t \in made /\ SettlementOK(db', t, "cancelled")
  BY CancelSettles
<1>2. CountsSettlement(t, "cancelled") /\ StillWaiting({}) /\ SameGraph
  BY DEF Cancel
<1> QED
  BY <1>1, <1>2, SettlementStep

-----------------------------------------------------------------------------
(* Writes to one task, with no release.                                    *)

\* What a write to t may make of its card and rows: no new wait for children,
\* and of a task made without a schedule one as plain, or a scheduled one.
MayWrite(d2, t) ==
  /\ OnlyTouches(db, d2, t)
  /\ d2.task[t].reason = "awaiting_children" => db.task[t].reason = "awaiting_children"
  /\ t \notin planned /\ ~IsCron(d2.task[t]) => PlainTask(d2, t)

\* No task of W waits for an answer of t that the write gives.
AnswersNone(d2, t, W) ==
  \/ d2.task[t].status \in Outcomes => d2.task[t].status = db.task[t].status
  \/ W \cap Dependents(edges, t) = {}

\* Such a write is sound.
LEMMA WriteSound ==
  ASSUME TablesInv, NEW t \in Tasks, NEW d2, NEW W, W \subseteq waiting,
         MayWrite(d2, t), AnswersNone(d2, t, W), t \in W => d2.task[t] = db.task[t]
  PROVE  /\ d2 \in DbType
         /\ HeldIn(d2, unplanned) /\ WaitsIn(d2, edges, W) /\ PlainIn(d2, Unplanned(d2))
<1>1. /\ db \in DbType /\ HeldIn(db, unplanned) /\ HeldByCron
      /\ WaitsIn(db, edges, waiting) /\ PlainIn(db, Tasks \ planned)
      /\ LeftIn(db, waiting, made)
  BY DEF TablesInv, Sound
<1>2. /\ d2 \in DbType /\ d2.cohort = db.cohort
      /\ \A x \in Tasks : x # t => d2.task[x] = db.task[x] /\ d2.rows[x] = db.rows[x]
  BY DEF MayWrite, OnlyTouches
<1>3. HeldIn(d2, unplanned)
  <2> SUFFICES ASSUME NEW x \in Tasks \ unplanned, IsCron(d2.task[x]),
                      d2.task[x].reason = "awaiting_children"
               PROVE  d2.cohort[x].open /\ d2.cohort[x].frozen # "none"
    BY DEF HeldIn
  <2>1. db.task[x].reason = "awaiting_children"
    BY <1>2 DEF MayWrite
  <2> QED
    BY <1>1, <1>2, <2>1 DEF HeldByCron, HeldIn
<1>4. PlainIn(d2, Unplanned(d2))
  <2> SUFFICES ASSUME NEW x \in Tasks, x \notin planned, ~IsCron(d2.task[x])
               PROVE  PlainTask(d2, x)
    BY DEF PlainIn, Unplanned
  <2>1. CASE x = t
    BY <2>1 DEF MayWrite
  <2>2. CASE x # t
    BY <1>1, <1>2, <2>2 DEF PlainIn, PlainTask
  <2> QED
    BY <2>1, <2>2
<1>5. WaitsIn(d2, edges, W)
  <2> SUFFICES ASSUME NEW x \in W
               PROVE  /\ x \in Tasks /\ ~IsCron(d2.task[x]) /\ PlainEdges(edges, x)
                      /\ d2.task[x].status = "pending" => Waits(d2, edges, x)
    BY DEF WaitsIn
  <2>1. /\ x \in Tasks /\ ~IsCron(db.task[x]) /\ PlainEdges(edges, x)
        /\ db.task[x].status = "pending"
    BY <1>1 DEF WaitsIn, LeftIn
  <2>2. Waits(db, edges, x) /\ d2.task[x] = db.task[x]
    BY <1>1, <1>2, <2>1 DEF WaitsIn
  <2>3. ASSUME NEW e \in EdgesOf(edges, x)
        PROVE  \/ d2.task[e.on].status = db.task[e.on].status
               \/ d2.task[e.on].status \notin Outcomes
    <3>1. CASE e.on = t
      <4>1. x \in Dependents(edges, t)
        BY <3>1 DEF EdgesOf, Dependents
      <4> QED
        BY <3>1, <4>1 DEF AnswersNone
    <3>2. CASE e.on # t
      BY <1>2, <2>1, <3>2 DEF PlainEdges
    <3> QED
      BY <3>1, <3>2
  <2>4. Waits(d2, edges, x)
    BY <2>2, <2>3 DEF Waits, Outcomes
  <2> QED
    BY <2>1, <2>2, <2>4
<1> QED
  BY <1>2, <1>3, <1>4, <1>5

\* A step that counts nothing in any cohort.
LEMMA NothingCounted ==
  ASSUME TablesInv, SameHistory, \A h \in Tasks : SameCount(db.cohort[h], db'.cohort[h])
  PROVE  /\ Counts(db', unsettled', astray') /\ ClosesWithLast
         /\ unsettled' \in [Tasks -> SUBSET Tasks] /\ astray' \subseteq Tasks
<1>1. /\ db \in DbType /\ unsettled \in [Tasks -> SUBSET Tasks] /\ astray \subseteq Tasks
      /\ Counts(db, unsettled, astray)
  BY DEF TablesInv, Rest, RestOK
<1>2. ASSUME NEW h \in Tasks PROVE CountOf(h)' /\ ClosesOf(h)
  <2>1. CountOf(h) /\ SameCountOf(h)
    BY <1>1 DEF Counts, CountOf, SameCountOf, SameHistory
  <2> QED
    BY <1>1, <2>1, SameCountKeeps
<1>3. Counts(db', unsettled', astray')
  BY <1>2 DEF Counts, CountOf
<1>4. ClosesWithLast
  BY <1>2 DEF ClosesWithLast, ClosesOf
<1> QED
  BY <1>1, <1>3, <1>4 DEF SameHistory

\* A write to one task is a step that keeps the invariant.
LEMMA WriteStep ==
  ASSUME TablesInv, NEW t \in made, NEW touched, MayWrite(db', t),
         AnswersNone(db', t, waiting'), t \in waiting' => db'.task[t] = db.task[t],
         StillWaiting(touched), SameHistory, SameGraph
  PROVE  StepOK /\ ClosesWithLast
<1>1. Rest /\ LeftIn(db, waiting, made) /\ Gone(db, made)
  BY DEF TablesInv
<1>2. t \in Tasks
  BY <1>1 DEF Rest, RestOK
<1>3. /\ waiting' \subseteq waiting
      /\ \A x \in waiting' : db'.task[x].status = "pending"
  BY DEF StillWaiting
<1>4. /\ db' \in DbType /\ HeldIn(db', unplanned) /\ WaitsIn(db', edges, waiting')
      /\ PlainIn(db', Unplanned(db'))
  BY <1>2, <1>3, WriteSound
<1>5. /\ db'.cohort = db.cohort
      /\ \A x \in Tasks : x # t => db'.task[x] = db.task[x] /\ db'.rows[x] = db.rows[x]
  BY DEF MayWrite, OnlyTouches
<1>6. /\ Counts(db', unsettled', astray') /\ ClosesWithLast
      /\ unsettled' \in [Tasks -> SUBSET Tasks] /\ astray' \subseteq Tasks
  BY <1>5, NothingCounted DEF SameCount
<1>7. made' = made /\ edges' = edges /\ reused' = reused
  BY DEF SameGraph
<1>8. RestOK(made', edges', reused', waiting', unsettled', astray')
  BY <1>1, <1>3, <1>6, <1>7 DEF Rest, RestOK
<1>9. Sound(db', edges', waiting', unplanned, Unplanned(db'))
  BY <1>4, <1>7 DEF Sound
<1>10. LeftIn(db', waiting', made')
  <2>1. ASSUME NEW x \in waiting' PROVE db'.task[x] = db.task[x]
    BY <1>1, <1>3, <1>5 DEF Rest, RestOK
  <2> QED
    BY <1>1, <1>3, <1>7, <2>1 DEF LeftIn
<1>11. Gone(db', made')
  BY <1>1, <1>5, <1>7 DEF Gone
<1> QED
  BY <1>4, <1>6, <1>8, <1>9, <1>10, <1>11 DEF StepOK

\* What the tables have of a task that was made without a schedule.
LEMMA PlainNow ==
  ASSUME TablesInv, NEW t \in Tasks, t \notin planned
  PROVE  PlainTask(db, t) /\ db.rows[t] \in [RowStates -> Nat]
BY DbFields DEF TablesInv, Sound, PlainIn

\* A write of a card and rows that are plain, or scheduled.
LEMMA BothMayWrite ==
  ASSUME TablesInv, NEW t \in Tasks, NEW new \in CardTypes, NEW rows \in [RowStates -> Nat],
         new.reason = "awaiting_children" => db.task[t].reason = "awaiting_children",
         t \notin planned /\ ~IsCron(new) =>
           /\ new.status # "scheduled" /\ new.reason # "awaiting_children"
           /\ rows["pending"] <= 1 /\ rows["running"] <= 1
           /\ rows["pending"] > 0 => new.status = "ready"
           /\ rows["running"] > 0 => new.status = "running"
  PROVE  LET d2 == Both(db, t, new, rows) IN MayWrite(d2, t) /\ d2.task[t] = new
<1> DEFINE d2 == Both(db, t, new, rows)
<1>1. db \in DbType
  BY DEF TablesInv
<1>2. OnlyTouches(db, d2, t) /\ d2.task[t] = new /\ d2.rows[t] = rows
  BY <1>1, BothFacts
<1> HIDE DEF d2
<1>3. ASSUME t \notin planned, ~IsCron(new) PROVE PlainTask(d2, t)
  <2>1. ~db.cohort[t].open
    BY <1>3, PlainNow DEF PlainTask
  <2>2. d2.cohort[t] = db.cohort[t]
    BY <1>2 DEF OnlyTouches
  <2> QED
    BY <1>2, <1>3, <2>1, <2>2 DEF PlainTask
<1>4. MayWrite(d2, t)
  BY <1>2, <1>3 DEF MayWrite
<1> QED
  BY <1>2, <1>4 DEF d2

\* dequeueNext
LEMMA DispatchStep ==
  ASSUME TablesInv, NEW t \in Tasks, Dispatch(t)
  PROVE  StepOK /\ ClosesWithLast /\ QueuesMet
<1> DEFINE new == [db.task[t] EXCEPT !.status = "running"]
           rows == [db.rows[t] EXCEPT !["pending"] = @ - 1, !["running"] = @ + 1]
<1>1. /\ db \in DbType /\ db.task[t] \in CardTypes /\ db.rows[t] \in [RowStates -> Nat]
      /\ db.rows[t]["pending"] > 0
  BY DbFields DEF TablesInv, Dispatch
<1>2. /\ rows \in [RowStates -> Nat] /\ rows["pending"] = db.rows[t]["pending"] - 1
      /\ rows["running"] = db.rows[t]["running"] + 1
      /\ db.rows[t]["pending"] \in Nat /\ db.rows[t]["running"] \in Nat
  BY <1>1 DEF RowStates
<1>3. /\ new \in CardTypes /\ new.status = "running" /\ new.reason = db.task[t].reason
      /\ new.trigger = db.task[t].trigger
  <2>1. "running" \in Statuses
    BY DEF Statuses
  <2> QED
    BY <1>1, <2>1, StatusColumn
<1>4. db' = Both(db, t, new, rows)
  <2>1. db' = [db EXCEPT !.rows[t]["pending"] = @ - 1, !.rows[t]["running"] = @ + 1,
                         !.task[t].status = "running"]
    BY DEF Dispatch
  <2> QED
    BY <1>1, <2>1 DEF Both, WithTask, WithRows, DbType
<1> HIDE DEF new, rows
<1>5. ASSUME t \notin planned
      PROVE  /\ new.status # "scheduled" /\ new.reason # "awaiting_children"
             /\ rows["pending"] <= 1 /\ rows["running"] <= 1
             /\ rows["pending"] > 0 => new.status = "ready"
             /\ rows["running"] > 0 => new.status = "running"
  BY <1>1, <1>2, <1>3, <1>5, PlainNow DEF PlainTask
<1>6. MayWrite(db', t) /\ db'.task[t] = new
  BY <1>2, <1>3, <1>4, <1>5, BothMayWrite
<1>7. StillWaiting({}) /\ SameHistory /\ SameGraph
  BY DEF Dispatch
<1>8. AnswersNone(db', t, waiting') /\ t \notin waiting' /\ t \in made
  <2>1. t \in made
    BY <1>1, ActiveIsMade DEF RowStates
  <2>2. t \notin waiting'
    BY <1>3, <1>6, <1>7 DEF StillWaiting
  <2> QED
    BY <1>3, <1>6, <2>1, <2>2 DEF AnswersNone, Outcomes
<1>9. StepOK /\ ClosesWithLast
  BY <1>6, <1>7, <1>8, WriteStep
<1>10. QueuesMet
  BY <1>3, <1>6 DEF QueuesMet, MayWrite, OnlyTouches
<1> QED
  BY <1>9, <1>10

\* fireCronTask
LEMMA FireStep ==
  ASSUME TablesInv, NEW t \in Tasks, Fire(t)
  PROVE  StepOK /\ ClosesWithLast /\ QueuesMet
<1> DEFINE ended == IF db.task[t].trigger = "cron_once" THEN "over"
                    ELSE db.task[t].config.ended
           config == [db.task[t].config EXCEPT !.ended = ended]
           new == [db.task[t] EXCEPT !.status = "ready", !.by = "agent", !.config = config]
           rows == [db.rows[t] EXCEPT !["pending"] = @ + 1]
<1>1. /\ db \in DbType /\ db.task[t] \in CardTypes /\ db.rows[t] \in [RowStates -> Nat]
      /\ db.task[t].status = "scheduled" /\ IsCron(db.task[t])
      /\ db.task[t].config \in Configs
  BY DbFields, CardFields DEF TablesInv, Fire, WillFire
<1>2. rows \in [RowStates -> Nat]
  BY <1>1 DEF RowStates
<1>3. config \in Configs
  BY <1>1 DEF Configs
<1>4. db' = Both(db, t, new, rows)
  <2>1. db' = Enqueued([db EXCEPT !.task[t].status = "ready", !.task[t].by = "agent",
                               !.task[t].config.ended =
                                  IF db.task[t].trigger = "cron_once" THEN "over" ELSE @], t)
    BY DEF Fire
  <2>2. [db EXCEPT !.task[t].status = "ready", !.task[t].by = "agent",
                   !.task[t].config.ended =
                      IF db.task[t].trigger = "cron_once" THEN "over" ELSE @]
          = WithTask(db, t, new)
    BY <1>1 DEF WithTask, DbType, CardTypes
  <2>3. Enqueued(WithTask(db, t, new), t) = Both(db, t, new, rows)
    BY <1>1 DEF Both, WithTask, WithRows, DbType, Enqueued
  <2> QED
    BY <2>1, <2>2, <2>3
<1> HIDE DEF config
<1>5. /\ new \in CardTypes /\ new.status = "ready" /\ new.reason = db.task[t].reason
      /\ new.trigger = db.task[t].trigger
  BY <1>1, <1>3 DEF CardTypes, Statuses
<1> HIDE DEF new, rows
<1>6. MayWrite(db', t) /\ db'.task[t] = new
  <2>1. IsCron(new)
    BY <1>1, <1>5 DEF IsCron
  <2> QED
    BY <1>2, <1>4, <1>5, <2>1, BothMayWrite
<1>7. StillWaiting({}) /\ SameHistory /\ SameGraph
  BY DEF Fire
<1>8. AnswersNone(db', t, waiting') /\ t \notin waiting' /\ t \in made
  <2>1. db.task[t] # NewTask
    BY <1>1 DEF NewTask
  <2> QED
    BY <1>1, <1>5, <1>6, <1>7, <2>1, ShownIsMade DEF AnswersNone, Outcomes, StillWaiting
<1>9. StepOK /\ ClosesWithLast
  BY <1>6, <1>7, <1>8, WriteStep
<1>10. QueuesMet
  BY <1>1, <1>6 DEF QueuesMet, MayWrite, OnlyTouches
<1> QED
  BY <1>9, <1>10

\* detachQueueEntry
LEMMA DetachStep ==
  ASSUME TablesInv, NEW t \in Tasks, Detach(t)
  PROVE  StepOK /\ ClosesWithLast /\ QueuesMet
<1> DEFINE new == db.task[t]
           rows == [db.rows[t] EXCEPT !["detaching"] = @ - 1]
<1>1. /\ db \in DbType /\ new \in CardTypes /\ db.rows[t] \in [RowStates -> Nat]
      /\ db.rows[t]["detaching"] > 0
  BY DbFields DEF TablesInv, Detach
<1>2. /\ rows \in [RowStates -> Nat] /\ rows["pending"] = db.rows[t]["pending"]
      /\ rows["running"] = db.rows[t]["running"]
  BY <1>1 DEF RowStates
<1>4. db' = Both(db, t, new, rows)
  <2>1. db' = [db EXCEPT !.rows[t]["detaching"] = @ - 1]
    BY DEF Detach
  <2> QED
    BY <1>1, <2>1 DEF Both, WithTask, WithRows, DbType
<1> HIDE DEF rows
<1>5. ASSUME t \notin planned
      PROVE  /\ new.status # "scheduled" /\ new.reason # "awaiting_children"
             /\ rows["pending"] <= 1 /\ rows["running"] <= 1
             /\ rows["pending"] > 0 => new.status = "ready"
             /\ rows["running"] > 0 => new.status = "running"
  BY <1>2, <1>5, PlainNow DEF PlainTask
<1>6. MayWrite(db', t) /\ db'.task[t] = db.task[t]
  <2> HIDE DEF new
  <2>1. new.reason = "awaiting_children" => db.task[t].reason = "awaiting_children"
    BY DEF new
  <2>2. MayWrite(db', t) /\ db'.task[t] = new
    BY <1>1, <1>2, <1>4, <1>5, <2>1, BothMayWrite
  <2> QED
    BY <2>2 DEF new
<1>7. StillWaiting({}) /\ SameHistory /\ SameGraph
  BY DEF Detach
<1>8. AnswersNone(db', t, waiting') /\ t \in made
  BY <1>1, <1>6, ActiveIsMade DEF AnswersNone, RowStates
<1>9. StepOK /\ ClosesWithLast
  BY <1>6, <1>7, <1>8, WriteStep
<1>10. QueuesMet
  BY <1>6 DEF QueuesMet, MayWrite, OnlyTouches
<1> QED
  BY <1>9, <1>10

\* enqueueTaskHandler
LEMMA RunNowStep ==
  ASSUME TablesInv, NEW t \in Tasks, RunNow(t)
  PROVE  StepOK /\ ClosesWithLast
<1> DEFINE new == [db.task[t] EXCEPT !.status = "ready"]
           rows == [db.rows[t] EXCEPT !["pending"] = @ + 1]
<1>1. db \in DbType /\ db' = RunByHand(db, t) /\ ActiveRows(db, t) = {} /\ t \in made
  BY DEF TablesInv, RunNow, Exists
<1>2. /\ db' = Both(db, t, new, rows)
      /\ rows \in [RowStates -> Nat] /\ rows["running"] = db.rows[t]["running"]
      /\ rows["pending"] = db.rows[t]["pending"] + 1
      /\ new \in CardTypes /\ new.status = "ready"
      /\ new.reason = db.task[t].reason /\ new.trigger = db.task[t].trigger
  BY <1>1, RunByHandFacts
<1>3. db.rows[t]["pending"] = 0 /\ db.rows[t]["running"] = 0
  BY <1>1, NoActiveRows DEF RowStates
<1> HIDE DEF new, rows
<1>4. ASSUME t \notin planned
      PROVE  /\ new.status # "scheduled" /\ new.reason # "awaiting_children"
             /\ rows["pending"] <= 1 /\ rows["running"] <= 1
             /\ rows["pending"] > 0 => new.status = "ready"
             /\ rows["running"] > 0 => new.status = "running"
  BY <1>2, <1>3, <1>4, PlainNow DEF PlainTask
<1>5. MayWrite(db', t) /\ db'.task[t] = new
  BY <1>2, <1>4, BothMayWrite
<1>6. StillWaiting({t}) /\ SameHistory /\ SameGraph
  BY DEF RunNow
<1>7. AnswersNone(db', t, waiting') /\ t \notin waiting'
  BY <1>2, <1>5, <1>6 DEF AnswersNone, Outcomes, StillWaiting
<1> QED
  BY <1>1, <1>5, <1>6, <1>7, WriteStep

\* cancelTaskHandler, for a task that is ready with no queued run.
LEMMA CancelAloneStep ==
  ASSUME TablesInv, NEW t \in Tasks, NEW ends, NEW order, Cancel(t, ends, order),
         ~(db.rows[t]["pending"] > 0)
  PROVE  StepOK /\ ClosesWithLast
<1> DEFINE new == [db.task[t] EXCEPT !.status = "cancelled"]
           rows == db.rows[t]
<1>1. /\ db \in DbType /\ db.task[t] \in CardTypes /\ rows \in [RowStates -> Nat]
      /\ db.task[t].status = "ready" /\ rows["pending"] = 0
  BY DbFields DEF TablesInv, Cancel, RowStates
<1>2. /\ new \in CardTypes /\ new.status = "cancelled" /\ new.reason = db.task[t].reason
      /\ new.trigger = db.task[t].trigger
  <2>1. "cancelled" \in Statuses
    BY DEF Statuses
  <2> QED
    BY <1>1, <2>1, StatusColumn
<1>3. db' = Both(db, t, new, rows)
  <2>1. db' = [db EXCEPT !.task[t].status = "cancelled"]
    BY DEF Cancel
  <2> QED
    BY <1>1, <2>1 DEF Both, WithTask, WithRows, DbType
<1>4. ASSUME t \notin planned
      PROVE  /\ new.status # "scheduled" /\ new.reason # "awaiting_children"
             /\ rows["pending"] <= 1 /\ rows["running"] <= 1
             /\ rows["pending"] > 0 => new.status = "ready"
             /\ rows["running"] > 0 => new.status = "running"
  <2> HIDE DEF new
  <2>1. rows["running"] \in Nat
    BY <1>1 DEF RowStates
  <2> QED
    BY <1>1, <1>2, <1>4, <2>1, PlainNow DEF PlainTask
<1> HIDE DEF new, rows
<1>5. MayWrite(db', t) /\ db'.task[t] = new
  BY <1>1, <1>2, <1>3, <1>4, BothMayWrite
<1>6. StillWaiting(Dependents(edges, t)) /\ SameHistory /\ SameGraph
  BY DEF Cancel
<1>7. AnswersNone(db', t, waiting') /\ t \notin waiting' /\ t \in made
  <2>1. t \in made
    BY <1>1, ShownIsMade DEF NewTask
  <2>2. t \notin waiting'
    BY <1>2, <1>5, <1>6 DEF StillWaiting
  <2>3. waiting' \cap Dependents(edges, t) = {}
    BY <1>6 DEF StillWaiting
  <2> QED
    BY <2>1, <2>2, <2>3 DEF AnswersNone
<1> QED
  BY <1>5, <1>6, <1>7, WriteStep

\* takeOverTaskHandler
LEMMA TakeOverStep ==
  ASSUME TablesInv, NEW t \in Tasks, TakeOver(t)
  PROVE  StepOK /\ ClosesWithLast
<1> DEFINE task == db.task[t]
           new == [task EXCEPT !.status = "pending", !.by = "user", !.reason = "none"]
           taken == WithTask(db, t, new)
           old == db.rows[t]
<1>1. /\ db \in DbType /\ task \in CardTypes /\ old \in [RowStates -> Nat]
      /\ task.status \in {"ready", "running", "blocked"}
  BY DbFields DEF TablesInv, TakeOver
<1>2. /\ new \in CardTypes /\ new.status = "pending" /\ new.reason = "none"
      /\ new.trigger = task.trigger
  <2>1. "pending" \in Statuses
    BY DEF Statuses
  <2> QED
    BY <1>1, <2>1 DEF CardTypes
<1>3. db' = CASE task.status = "running" /\ old["running"] > 0 ->
                   [taken EXCEPT !.rows[t]["running"] = @ - 1, !.rows[t]["detaching"] = @ + 1]
              [] task.status # "running" /\ old["pending"] > 0 ->
                   [taken EXCEPT !.rows[t]["pending"] = @ - 1]
              [] OTHER -> taken
  BY DEF TakeOver, WithTask
<1> DEFINE plain(rows) == t \notin planned => rows["pending"] = 0 /\ rows["running"] = 0
<1>4. PICK rows \in [RowStates -> Nat] : db' = Both(db, t, new, rows) /\ plain(rows)
  <2>1. /\ old["running"] \in Nat /\ old["pending"] \in Nat
        /\ t \notin planned => PlainTask(db, t)
    BY <1>1, PlainNow DEF RowStates
  <2>2. CASE task.status = "running" /\ old["running"] > 0
    <3> DEFINE rows == [old EXCEPT !["running"] = @ - 1, !["detaching"] = @ + 1]
    <3>1. /\ rows \in [RowStates -> Nat] /\ rows["pending"] = old["pending"]
          /\ rows["running"] = old["running"] - 1
      BY <1>1, <2>2 DEF RowStates
    <3>2. db' = [taken EXCEPT !.rows[t]["running"] = @ - 1, !.rows[t]["detaching"] = @ + 1]
      BY <1>3, <2>2
    <3>3. db' = Both(db, t, new, rows)
      BY <1>1, <3>2 DEF Both, WithTask, WithRows, DbType
    <3> HIDE DEF rows, new, taken
    <3>4. plain(rows)
      BY <2>1, <2>2, <3>1 DEF PlainTask
    <3> QED
      BY <3>1, <3>3, <3>4
  <2>3. CASE task.status # "running" /\ old["pending"] > 0
    <3> DEFINE rows == [old EXCEPT !["pending"] = @ - 1]
    <3>1. /\ rows \in [RowStates -> Nat] /\ rows["pending"] = old["pending"] - 1
          /\ rows["running"] = old["running"]
      BY <1>1, <2>3 DEF RowStates
    <3>2. db' = [taken EXCEPT !.rows[t]["pending"] = @ - 1]
      BY <1>3, <2>3
    <3>3. db' = Both(db, t, new, rows)
      BY <1>1, <3>2 DEF Both, WithTask, WithRows, DbType
    <3> HIDE DEF rows, new, taken
    <3>4. plain(rows)
      BY <2>1, <2>3, <3>1 DEF PlainTask
    <3> QED
      BY <3>1, <3>3, <3>4
  <2>4. CASE /\ ~(task.status = "running" /\ old["running"] > 0)
             /\ ~(task.status # "running" /\ old["pending"] > 0)
    <3>1. db' = taken
      BY <1>3, <2>4
    <3>2. taken = Both(db, t, new, old)
      BY <1>1 DEF Both, WithTask, WithRows, DbType
    <3> HIDE DEF new, taken
    <3>3. plain(old)
      BY <1>1, <2>1, <2>4 DEF PlainTask
    <3> QED
      BY <1>1, <3>1, <3>2, <3>3
  <2> QED
    BY <2>2, <2>3, <2>4
<1> HIDE DEF new
<1>5. MayWrite(db', t) /\ db'.task[t] = new
  BY <1>2, <1>4, BothMayWrite
<1>6. StillWaiting({t}) /\ SameHistory /\ SameGraph
  BY DEF TakeOver
<1>7. AnswersNone(db', t, waiting') /\ t \notin waiting' /\ t \in made
  <2>1. t \in made
    BY <1>1, ShownIsMade DEF NewTask
  <2>2. t \notin waiting'
    BY <1>6 DEF StillWaiting
  <2> QED
    BY <1>2, <1>5, <2>1, <2>2 DEF AnswersNone, Outcomes
<1> QED
  BY <1>5, <1>6, <1>7, WriteStep

-----------------------------------------------------------------------------
(* Edits of the tables by hand.                                            *)

\* A step that leaves the cohorts, and makes none less astray.
LEMMA NothingCountedAstray ==
  ASSUME TablesInv, unsettled' = unsettled, astray \subseteq astray', astray' \subseteq Tasks,
         \A h \in Tasks : SameCount(db.cohort[h], db'.cohort[h])
  PROVE  /\ Counts(db', unsettled', astray') /\ ClosesWithLast
         /\ unsettled' \in [Tasks -> SUBSET Tasks]
<1>1. /\ db \in DbType /\ unsettled \in [Tasks -> SUBSET Tasks]
      /\ Counts(db, unsettled, astray)
  BY DEF TablesInv, Rest, RestOK
<1>2. ASSUME NEW h \in Tasks PROVE CountOf(h)' /\ ClosesOf(h)
  <2>1. CountOf(h) /\ SameCountOf(h)
    BY <1>1 DEF Counts, CountOf, SameCountOf
  <2> QED
    BY <1>1, <2>1, SameCountKeeps
<1>3. Counts(db', unsettled', astray')
  BY <1>2 DEF Counts, CountOf
<1>4. ClosesWithLast
  BY <1>2 DEF ClosesWithLast, ClosesOf
<1> QED
  BY <1>1, <1>3, <1>4

\* addTaskDependencyHandler
LEMMA AddEdgeStep ==
  ASSUME TablesInv, NEW t \in Tasks, NEW u \in Tasks, NEW kind \in EdgeKinds,
         AddEdge(t, u, kind)
  PROVE  StepOK /\ ClosesWithLast /\ QueuesMet
<1> DEFINE new == [task |-> t, on |-> u, requireSuccess |-> kind[1], whileBlocked |-> kind[2]]
<1>1. /\ db \in DbType /\ Rest /\ Sound(db, edges, waiting, unplanned, Tasks \ planned)
      /\ LeftIn(db, waiting, made) /\ Gone(db, made)
  BY DEF TablesInv
<1>2. /\ edges' = edges \cup {new} /\ db' = db /\ made' = made /\ reused' = reused
      /\ StillWaiting({t}) /\ SameHistory /\ t \in made /\ u \in made
  BY DEF AddEdge, Exists
<1>3. waiting' \subseteq waiting /\ t \notin waiting'
  BY <1>2 DEF StillWaiting
<1>4. /\ new.task = t
      /\ new \in [task: made, on: made, requireSuccess: BOOLEAN, whileBlocked: BOOLEAN]
  BY <1>2, DependencyAssumption
<1> HIDE DEF new
<1>5. /\ Counts(db', unsettled', astray') /\ ClosesWithLast
      /\ unsettled' \in [Tasks -> SUBSET Tasks] /\ astray' \subseteq Tasks
  BY <1>2, NothingCounted DEF SameCount
<1>6. RestOK(made', edges', reused', waiting', unsettled', astray')
  BY <1>1, <1>2, <1>3, <1>4, <1>5 DEF Rest, RestOK
<1>7. ASSUME NEW x, x # t PROVE EdgesOf(edges', x) = EdgesOf(edges, x)
  BY <1>2, <1>4, <1>7 DEF EdgesOf
<1>8. WaitsIn(db', edges', waiting')
  BY <1>1, <1>2, <1>3, <1>7 DEF Sound, WaitsIn, Waits, PlainEdges
<1>9. Sound(db', edges', waiting', unplanned, Unplanned(db'))
  BY <1>1, <1>2, <1>8 DEF Sound, PlainIn, Unplanned
<1>10. LeftIn(db', waiting', made') /\ Gone(db', made')
  BY <1>1, <1>2, <1>3 DEF LeftIn, Gone
<1>11. QueuesMet
  BY <1>2 DEF QueuesMet
<1> QED
  BY <1>1, <1>2, <1>5, <1>6, <1>9, <1>10, <1>11 DEF StepOK

\* What removeTaskDependencyHandler does to the task it leaves with fewer
\* dependencies, before it removes one.
LEMMA RemoveEdgeWrites ==
  ASSUME TablesInv, NEW e \in edges, RemoveEdge(e), db' # db
  PROVE  MayWrite(db', e.task) /\ db'.task[e.task].status = "ready"
<1> DEFINE t == e.task
           new == [db.task[t] EXCEPT !.status = "ready"]
           rows == [db.rows[t] EXCEPT !["pending"] = @ + 1]
<1>1. t \in Tasks /\ db \in DbType
  BY GraphTyped DEF TablesInv, GraphType
<1>2. db' = RunByHand(db, t) /\ db.task[t].status = "pending"
  BY DEF RemoveEdge, RunByHand
<1>3. /\ db' = Both(db, t, new, rows)
      /\ rows \in [RowStates -> Nat] /\ rows["running"] = db.rows[t]["running"]
      /\ rows["pending"] = db.rows[t]["pending"] + 1
      /\ new \in CardTypes /\ new.status = "ready"
      /\ new.reason = db.task[t].reason /\ new.trigger = db.task[t].trigger
  BY <1>1, <1>2, RunByHandFacts
<1> HIDE DEF new, rows, t
<1>4. ASSUME t \notin planned
      PROVE  /\ new.status # "scheduled" /\ new.reason # "awaiting_children"
             /\ rows["pending"] <= 1 /\ rows["running"] <= 1
             /\ rows["pending"] > 0 => new.status = "ready"
             /\ rows["running"] > 0 => new.status = "running"
  <2>1. PlainTask(db, t) /\ db.rows[t]["pending"] \in Nat /\ db.rows[t]["running"] \in Nat
    BY <1>1, <1>4, PlainNow DEF RowStates
  <2> QED
    BY <1>2, <1>3, <2>1 DEF PlainTask
<1>5. MayWrite(db', t) /\ db'.task[t] = new
  BY <1>1, <1>3, <1>4, BothMayWrite
<1> QED
  BY <1>3, <1>5 DEF t

\* removeTaskDependencyHandler
LEMMA RemoveEdgeStep ==
  ASSUME TablesInv, NEW e \in edges, RemoveEdge(e)
  PROVE  StepOK /\ ClosesWithLast /\ QueuesMet
<1> DEFINE t == e.task
<1>1. /\ db \in DbType /\ Rest /\ Sound(db, edges, waiting, unplanned, Tasks \ planned)
      /\ LeftIn(db, waiting, made) /\ Gone(db, made)
  BY DEF TablesInv
<1>2. /\ t \in made /\ made \subseteq Tasks /\ e \in EdgesOf(edges, t)
      /\ \A x, f : f \in EdgesOf(edges, x) => f.on \in Tasks
  BY <1>1 DEF Rest, RestOK, EdgesOf
<1>3. /\ edges' = edges \ {e} /\ made' = made /\ reused' = reused
      /\ db.task[t].status = "pending" /\ StillWaiting({}) /\ SameHistory
  BY DEF RemoveEdge
<1>4. IF db.task[t].by = "agent" /\ IsTaskReady(db, edges', t)
      THEN db' = RunByHand(db, t) ELSE db' = db
  BY <1>3 DEF RemoveEdge, RunByHand
<1>5. waiting' \subseteq waiting /\ \A x \in waiting' : db'.task[x].status = "pending"
  BY <1>3 DEF StillWaiting
<1>6. MayWrite(db', t) /\ (db' = db \/ db'.task[t].status = "ready")
  <2>1. CASE db' = db
    <3>1. OnlyTouches(db, db', t)
      BY <1>1, <2>1 DEF OnlyTouches
    <3>2. t \notin planned => PlainTask(db', t)
      BY <1>2, <2>1, PlainNow
    <3> QED
      BY <2>1, <3>1, <3>2 DEF MayWrite
  <2>2. CASE db' # db
    BY <2>2, RemoveEdgeWrites
  <2> QED
    BY <2>1, <2>2
<1> HIDE DEF t
<1>7. AnswersNone(db', t, waiting')
  BY <1>6 DEF AnswersNone, Outcomes
<1>8. t \in waiting' => db' = db
  BY <1>5, <1>6
<1>9. /\ db' \in DbType /\ HeldIn(db', unplanned) /\ WaitsIn(db', edges, waiting')
      /\ PlainIn(db', Unplanned(db'))
  BY <1>2, <1>5, <1>6, <1>7, <1>8, WriteSound
<1>10. WaitsIn(db', edges', waiting')
  <2> SUFFICES ASSUME NEW x \in waiting'
               PROVE  PlainEdges(edges', x) /\ Waits(db', edges', x)
    BY <1>9 DEF WaitsIn
  <2>1. PlainEdges(edges, x) /\ Waits(db', edges, x)
    BY <1>5, <1>9 DEF WaitsIn
  <2>2. \A f \in EdgesOf(edges', x) : f \in EdgesOf(edges, x)
    BY <1>3 DEF EdgesOf
  <2>3. PlainEdges(edges', x)
    BY <2>1, <2>2 DEF PlainEdges
  <2>4. CASE x # t
    <3>1. EdgesOf(edges', x) = EdgesOf(edges, x)
      BY <1>3, <2>4 DEF EdgesOf, t
    <3> QED
      BY <2>1, <2>3, <3>1 DEF Waits
  <2>5. CASE x = t
    <3>1. db' = db /\ db.task[t].by = "agent"
      BY <1>1, <1>5, <1>8, <2>5 DEF LeftIn
    <3>2. ~IsTaskReady(db, edges', t)
      <4>1. SUFFICES ASSUME IsTaskReady(db, edges', t) PROVE FALSE
        OBVIOUS
      <4>2. db' = RunByHand(db, t)
        BY <1>4, <3>1, <4>1
      <4>3. db'.task[t].status = "ready"
        <5>1. /\ db.task[t] \in CardTypes /\ t \in Tasks
          BY <1>1, <1>2, DbFields
        <5> QED
          BY <1>1, <4>2, <5>1 DEF RunByHand, Enqueued, DbType, CardTypes
      <4> QED
        BY <1>3, <3>1, <4>3
    <3>3. PICK f \in EdgesOf(edges', t) : ~IsEdgeSatisfied(db, f)
      BY <3>2 DEF IsTaskReady
    <3>4. db.task[f.on].status # "done"
      BY <3>3 DEF IsEdgeSatisfied
    <3> QED
      BY <2>1, <2>2, <2>3, <2>5, <3>1, <3>3, <3>4 DEF Waits
  <2> QED
    BY <2>3, <2>4, <2>5
<1>11. /\ db'.cohort = db.cohort
       /\ \A x \in Tasks : x # t => db'.task[x] = db.task[x] /\ db'.rows[x] = db.rows[x]
  BY <1>6 DEF MayWrite, OnlyTouches
<1>12. /\ Counts(db', unsettled', astray') /\ ClosesWithLast
       /\ unsettled' \in [Tasks -> SUBSET Tasks] /\ astray' \subseteq Tasks
  BY <1>3, <1>11, NothingCounted DEF SameCount
<1>13. RestOK(made', edges', reused', waiting', unsettled', astray')
  BY <1>1, <1>3, <1>5, <1>12 DEF Rest, RestOK
<1>14. Sound(db', edges', waiting', unplanned, Unplanned(db'))
  BY <1>9, <1>10 DEF Sound
<1>15. LeftIn(db', waiting', made')
  <2>1. ASSUME NEW x \in waiting' PROVE db'.task[x] = db.task[x]
    BY <1>1, <1>5, <1>8, <1>11 DEF Rest, RestOK
  <2> QED
    BY <1>1, <1>3, <1>5, <2>1 DEF LeftIn
<1>16. Gone(db', made')
  BY <1>1, <1>2, <1>3, <1>11 DEF Gone
<1>17. QueuesMet
  <2> SUFFICES ASSUME NEW x \in Tasks, db.task[x].status = "pending",
                      db'.task[x].status = "ready", NEW f \in EdgesOf(edges', x)
               PROVE  Answers(f)
    BY DEF QueuesMet
  <2>1. x = t /\ db' # db
    BY <1>11
  <2>2. IsEdgeSatisfied(db, f)
    BY <1>4, <2>1 DEF IsTaskReady
  <2>3. f.on # t
    BY <1>3, <2>2 DEF IsEdgeSatisfied
  <2>4. f.on \in Tasks
    BY <1>2, <1>3 DEF EdgesOf
  <2>5. IsEdgeSatisfied(db', f)
    BY <1>11, <2>2, <2>3, <2>4 DEF IsEdgeSatisfied
  <2> QED
    BY <2>5, SatisfiedAnswers
<1> QED
  BY <1>9, <1>12, <1>13, <1>14, <1>15, <1>16, <1>17 DEF StepOK

\* deleteTaskHandler
LEMMA DeleteStep ==
  ASSUME TablesInv, NEW t \in Tasks, Delete(t)
  PROVE  StepOK /\ ClosesWithLast /\ QueuesMet
<1> DEFINE touched == {t} \cup Dependents(edges, t)
<1>1. /\ db \in DbType /\ Rest /\ Sound(db, edges, waiting, unplanned, Tasks \ planned)
      /\ LeftIn(db, waiting, made) /\ Gone(db, made)
  BY DEF TablesInv
<1>2. /\ t \in made /\ ActiveRows(db, t) = {} /\ ~db.cohort[t].open
      /\ made' = made \ {t} /\ reused' = reused \ {t}
      /\ edges' = {e \in edges : e.task # t /\ e.on # t}
      /\ StillWaiting(touched) /\ unsettled' = unsettled
      /\ astray' = astray \/ astray' = astray \cup {db.of[t]}
  BY DEF Delete, Exists
<1>3. waiting' \subseteq waiting /\ t \notin waiting' /\ waiting' \cap Dependents(edges, t) = {}
  BY <1>2 DEF StillWaiting
<1>4. NewTask \in CardTypes /\ NewTask.reason = "none" /\ ~IsCron(NewTask)
      /\ NewTask.status = "pending"
  BY DEF NewTask, NoSchedule, CardTypes, Statuses, Configs, IsCron
<1>5. db.rows[t] = NoRows
  <2>1. db.rows[t] \in [RowStates -> Nat] /\ \A s \in RowStates : db.rows[t][s] = 0
    BY <1>1, <1>2, DbFields, NoActiveRows
  <2> QED
    BY <2>1 DEF NoRows
<1>6. /\ db' \in DbType /\ db'.cohort = db.cohort /\ db'.rows = db.rows
      /\ db'.task[t] = NewTask
      /\ \A x \in Tasks : x # t => db'.task[x] = db.task[x]
  <2>1. db' = [db EXCEPT !.task[t] = NewTask, !.of[t] = t]
    BY DEF Delete
  <2> QED
    BY <1>1, <1>4, <2>1 DEF DbType
<1>7. HeldIn(db', unplanned)
  BY <1>1, <1>4, <1>6 DEF Sound, HeldIn
<1>8. PlainIn(db', Unplanned(db'))
  <2> SUFFICES ASSUME NEW x \in Tasks, x \notin planned, ~IsCron(db'.task[x])
               PROVE  PlainTask(db', x)
    BY DEF PlainIn, Unplanned
  <2>1. CASE x = t
    BY <1>2, <1>4, <1>5, <1>6, <2>1 DEF PlainTask, NoRows, RowStates
  <2>2. CASE x # t
    BY <1>1, <1>6, <2>2 DEF Sound, PlainIn, PlainTask
  <2> QED
    BY <2>1, <2>2
<1>9. WaitsIn(db', edges', waiting')
  <2> SUFFICES ASSUME NEW x \in waiting'
               PROVE  /\ x \in Tasks /\ ~IsCron(db'.task[x]) /\ PlainEdges(edges', x)
                      /\ Waits(db', edges', x)
    BY DEF WaitsIn
  <2>1. /\ x \in Tasks /\ ~IsCron(db.task[x]) /\ PlainEdges(edges, x) /\ Waits(db, edges, x)
        /\ x # t
    BY <1>1, <1>3 DEF Sound, WaitsIn, LeftIn
  <2>2. EdgesOf(edges', x) = EdgesOf(edges, x)
        /\ \A e \in EdgesOf(edges, x) : e.on # t /\ e.on \in Tasks
    BY <1>2, <1>3, <2>1 DEF EdgesOf, Dependents, PlainEdges
  <2>3. \A e \in EdgesOf(edges, x) : db'.task[e.on] = db.task[e.on]
    BY <1>6, <2>2
  <2> QED
    BY <1>6, <2>1, <2>2, <2>3 DEF PlainEdges, Waits
<1>10. astray \subseteq astray' /\ astray' \subseteq Tasks
  BY <1>1, <1>2, DbFields DEF Rest, RestOK
<1>11. /\ Counts(db', unsettled', astray') /\ ClosesWithLast
       /\ unsettled' \in [Tasks -> SUBSET Tasks]
  BY <1>2, <1>6, <1>10, NothingCountedAstray DEF SameCount
<1>12. RestOK(made', edges', reused', waiting', unsettled', astray')
  BY <1>1, <1>2, <1>3, <1>10, <1>11 DEF Rest, RestOK
<1>13. LeftIn(db', waiting', made')
  BY <1>1, <1>2, <1>3, <1>6 DEF LeftIn, Rest, RestOK
<1>14. Gone(db', made')
  BY <1>1, <1>2, <1>5, <1>6 DEF Gone
<1>15. QueuesMet
  BY <1>4, <1>6 DEF QueuesMet
<1> QED
  BY <1>6, <1>7, <1>8, <1>9, <1>11, <1>12, <1>13, <1>14, <1>15 DEF StepOK, Sound

-----------------------------------------------------------------------------
(* Batches.                                                                *)

\* What createTasks makes of the tables, K of which E makes depend on others.
IsBatch(d, K, E) ==
  /\ d \in DbType
  /\ \A x \in Tasks \ (K \ made) : d.task[x] = db.task[x] /\ d.rows[x] = db.rows[x]
  /\ \A x \in K \ made :
       IF EdgesOf(E, x) = {}
       THEN /\ d.task[x] = [NewTask EXCEPT !.status = "ready"]
            /\ d.rows[x] = [NoRows EXCEPT !["pending"] = 1]
       ELSE d.task[x] = NewTask /\ d.rows[x] = NoRows

\* It does, and opens no cohort.
LEMMA WithBatchFacts ==
  ASSUME TablesInv, NEW K \in SUBSET Tasks, NEW E, NEW holder \in [K -> Tasks]
  PROVE  /\ IsBatch(WithBatch(K, E, holder), K, E)
         /\ WithBatch(K, E, holder).cohort = db.cohort
<1> DEFINE new == K \ made
           ready == {t \in new : EdgesOf(E, t) = {}}
           d == WithBatch(K, E, holder)
           queued == [NewTask EXCEPT !.status = "ready"]
           one == [NoRows EXCEPT !["pending"] = 1]
<1>1. db \in DbType /\ Gone(db, made)
  BY DEF TablesInv
<1>2. d = [db EXCEPT
             !.task = [t \in Tasks |-> IF t \in ready THEN queued
                                       ELSE IF t \in new THEN NewTask ELSE @[t]],
             !.of = [t \in Tasks |-> IF t \in new THEN holder[t] ELSE @[t]],
             !.rows = [t \in Tasks |-> IF t \in ready THEN one ELSE @[t]]]
  BY DEF WithBatch
<1>3. /\ NewTask \in CardTypes /\ queued \in CardTypes
      /\ NoRows \in [RowStates -> Nat] /\ one \in [RowStates -> Nat]
  BY DEF NewTask, NoSchedule, CardTypes, Statuses, Configs, NoRows, RowStates
<1> HIDE DEF d, queued, one, ready
<1>4. /\ d.task = [t \in Tasks |-> IF t \in ready THEN queued
                                   ELSE IF t \in new THEN NewTask ELSE db.task[t]]
      /\ d.of = [t \in Tasks |-> IF t \in new THEN holder[t] ELSE db.of[t]]
      /\ d.rows = [t \in Tasks |-> IF t \in ready THEN one ELSE db.rows[t]]
      /\ d.cohort = db.cohort
      /\ d = [task |-> d.task, of |-> d.of, rows |-> d.rows, cohort |-> d.cohort]
  BY <1>1, <1>2 DEF DbType
<1>5. d \in DbType
  <2>1. /\ db.task \in [Tasks -> CardTypes] /\ db.of \in [Tasks -> Tasks]
        /\ db.rows \in [Tasks -> [RowStates -> Nat]] /\ db.cohort \in [Tasks -> Cohorts]
    BY <1>1 DEF DbType
  <2>2. /\ d.task \in [Tasks -> CardTypes] /\ d.of \in [Tasks -> Tasks]
        /\ d.rows \in [Tasks -> [RowStates -> Nat]] /\ d.cohort \in [Tasks -> Cohorts]
    BY <1>3, <1>4, <2>1
  <2> QED
    BY <1>4, <2>2 DEF DbType
<1>6. ready \subseteq new
  BY DEF ready
<1>7. \A x \in Tasks \ new : d.task[x] = db.task[x] /\ d.rows[x] = db.rows[x]
  BY <1>4, <1>6
<1>8. ASSUME NEW x \in new
      PROVE  IF EdgesOf(E, x) = {} THEN d.task[x] = queued /\ d.rows[x] = one
             ELSE d.task[x] = NewTask /\ d.rows[x] = NoRows
  <2>1. x \in Tasks /\ db.rows[x] = NoRows
    BY <1>1 DEF Gone
  <2>2. x \in ready <=> EdgesOf(E, x) = {}
    BY DEF ready
  <2> QED
    BY <1>4, <2>1, <2>2
<1> QED
  BY <1>4, <1>5, <1>7, <1>8 DEF IsBatch, d, queued, one

\* The cohorts that were open stay as they are; one may open, of a task that
\* is on a schedule.
CohortsGrow ==
  \A x \in Tasks :
    /\ db.cohort[x].open => db'.cohort[x] = db.cohort[x]
    /\ db'.cohort[x].open /\ ~db.cohort[x].open => x \in made /\ IsCron(db.task[x])

\* What a batch makes of the tables, but for the count of cohorts.
LEMMA BatchSound ==
  ASSUME TablesInv, NEW K \in SUBSET Tasks, NEW order \in Orders,
         NEW E \in SUBSET BatchEdges(order, K), AddsBatch(K, E),
         IsBatch(db', K, E), CohortsGrow
  PROVE  /\ made' \subseteq Tasks /\ reused' \subseteq made' /\ waiting' \subseteq Tasks
         /\ edges' \subseteq [task: made', on: made', requireSuccess: BOOLEAN,
                              whileBlocked: BOOLEAN]
         /\ Sound(db', edges', waiting', unplanned, Unplanned(db'))
         /\ LeftIn(db', waiting', made') /\ Gone(db', made') /\ QueuesMet
<1> DEFINE new == K \ made
           left == {t \in new : EdgesOf(E, t) # {} /\ \A e \in EdgesOf(E, t) : e.on \notin made}
<1>1. /\ db \in DbType /\ Rest /\ Sound(db, edges, waiting, unplanned, Tasks \ planned)
      /\ LeftIn(db, waiting, made) /\ Gone(db, made) /\ planned \subseteq made
  BY DEF TablesInv
<1>2. /\ made' = made \cup K /\ edges' = edges \cup E
      /\ reused' = reused \cup {t \in K \cap made : EdgesOf(E, t) # {}}
      /\ waiting' = waiting \cup left
  BY DEF AddsBatch
<1>3. \A t \in K \cap made : IsCron(db.task[t])
  BY DEF AddsBatch, MayName
<1>4. /\ made \subseteq Tasks /\ reused \subseteq made /\ waiting \subseteq Tasks
      /\ edges \subseteq [task: made, on: made, requireSuccess: BOOLEAN, whileBlocked: BOOLEAN]
  BY <1>1 DEF Rest, RestOK
<1>5. \A e \in E : /\ e \in [task: K, on: K, requireSuccess: BOOLEAN, whileBlocked: BOOLEAN]
                   /\ e.requireSuccess /\ ~e.whileBlocked
  <2> SUFFICES ASSUME NEW e \in E
               PROVE  /\ e \in [task: K, on: K, requireSuccess: BOOLEAN, whileBlocked: BOOLEAN]
                      /\ e.requireSuccess /\ ~e.whileBlocked
    OBVIOUS
  <2>1. e \in BatchEdges(order, K)
    OBVIOUS
  <2>2. PICK p \in K \X K :
          e = [task |-> p[1], on |-> p[2], requireSuccess |-> TRUE, whileBlocked |-> FALSE]
    BY <2>1 DEF BatchEdges
  <2> QED
    BY <2>2
<1> HIDE DEF left
<1>6. /\ made' \subseteq Tasks /\ reused' \subseteq made' /\ waiting' \subseteq Tasks
      /\ edges' \subseteq [task: made', on: made', requireSuccess: BOOLEAN,
                           whileBlocked: BOOLEAN]
  <2>1. left \subseteq Tasks
    BY DEF left
  <2>2. E \subseteq [task: made', on: made', requireSuccess: BOOLEAN, whileBlocked: BOOLEAN]
    BY <1>2, <1>5
  <2>3. edges \subseteq [task: made', on: made', requireSuccess: BOOLEAN,
                         whileBlocked: BOOLEAN]
    BY <1>2, <1>4
  <2> QED
    BY <1>2, <1>4, <2>1, <2>2, <2>3
<1>7. NewTask.status = "pending" /\ NewTask.by = "agent" /\ NewTask.reason = "none"
      /\ ~IsCron(NewTask)
  BY DEF NewTask, IsCron
<1>8. [NewTask EXCEPT !.status = "ready"].status = "ready"
      /\ [NewTask EXCEPT !.status = "ready"].reason = "none"
      /\ ~IsCron([NewTask EXCEPT !.status = "ready"])
  BY DEF NewTask, IsCron
<1>9. /\ db' \in DbType
      /\ \A x \in Tasks \ new : db'.task[x] = db.task[x] /\ db'.rows[x] = db.rows[x]
      /\ \A x \in new :
           IF EdgesOf(E, x) = {}
           THEN /\ db'.task[x] = [NewTask EXCEPT !.status = "ready"]
                /\ db'.rows[x] = [NoRows EXCEPT !["pending"] = 1]
           ELSE db'.task[x] = NewTask /\ db'.rows[x] = NoRows
  BY DEF IsBatch
<1>10. ASSUME NEW x \in new
       PROVE  /\ db'.task[x].reason = "none" /\ db'.task[x].status \in {"pending", "ready"}
              /\ ~IsCron(db'.task[x]) /\ db.task[x].status = "pending"
              /\ db'.task[x].status = "ready" => EdgesOf(E, x) = {}
              /\ EdgesOf(edges', x) = EdgesOf(E, x)
  <2>1. db.task[x].status = "pending"
    BY <1>1, <1>7 DEF Gone
  <2>2. EdgesOf(edges', x) = EdgesOf(E, x)
    BY <1>2, <1>4 DEF EdgesOf
  <2>3. CASE EdgesOf(E, x) = {}
    BY <1>8, <1>9, <2>1, <2>2, <2>3
  <2>4. CASE EdgesOf(E, x) # {}
    BY <1>7, <1>9, <2>1, <2>2, <2>4
  <2> QED
    BY <2>3, <2>4
<1>11. HeldIn(db', unplanned)
  <2> SUFFICES ASSUME NEW x \in Tasks \ unplanned, IsCron(db'.task[x]),
                      db'.task[x].reason = "awaiting_children"
               PROVE  db'.cohort[x].open /\ db'.cohort[x].frozen # "none"
    BY DEF HeldIn
  <2>1. db'.task[x] = db.task[x]
    BY <1>9, <1>10
  <2>2. db.cohort[x].open /\ db.cohort[x].frozen # "none"
    BY <1>1, <2>1 DEF Sound, HeldIn
  <2> QED
    BY <2>2 DEF CohortsGrow
<1>12. PlainIn(db', Unplanned(db'))
  <2> SUFFICES ASSUME NEW x \in Tasks, x \notin planned, ~IsCron(db'.task[x])
               PROVE  PlainTask(db', x)
    BY DEF PlainIn, Unplanned
  <2>1. PlainTask(db, x)
    BY PlainNow
  <2>2. CASE x \in new
    <3>1. ~db'.cohort[x].open
      BY <2>1, <2>2 DEF PlainTask, CohortsGrow
    <3>2. CASE EdgesOf(E, x) = {}
      <4> DEFINE one == [NoRows EXCEPT !["pending"] = 1]
      <4>1. one["pending"] = 1 /\ one["running"] = 0
        BY DEF NoRows, RowStates
      <4>2. db'.rows[x] = one
        BY <1>9, <2>2, <3>2
      <4> HIDE DEF one
      <4>3. db'.task[x].status = "ready" /\ db'.task[x].reason = "none"
        BY <1>8, <1>9, <2>2, <3>2
      <4> QED
        BY <3>1, <4>1, <4>2, <4>3 DEF PlainTask
    <3>3. CASE EdgesOf(E, x) # {}
      BY <1>7, <1>9, <2>2, <3>1, <3>3 DEF PlainTask, NoRows, RowStates
    <3> QED
      BY <3>2, <3>3
  <2>3. CASE x \notin new
    <3>1. db'.task[x] = db.task[x] /\ db'.rows[x] = db.rows[x]
      BY <1>9, <2>3
    <3>2. ~db'.cohort[x].open
      BY <2>1, <3>1 DEF PlainTask, CohortsGrow
    <3> QED
      BY <2>1, <3>1, <3>2 DEF PlainTask
  <2> QED
    BY <2>2, <2>3
<1>13. ASSUME NEW x \in waiting'
       PROVE  /\ x \in Tasks /\ ~IsCron(db'.task[x]) /\ PlainEdges(edges', x)
              /\ Waits(db', edges', x)
              /\ x \in made' /\ db'.task[x].status = "pending" /\ db'.task[x].by = "agent"
  <2>1. CASE x \in waiting
    <3>1. /\ x \in Tasks /\ ~IsCron(db.task[x]) /\ PlainEdges(edges, x) /\ x \in made
          /\ db.task[x].status = "pending" /\ db.task[x].by = "agent" /\ Waits(db, edges, x)
      BY <1>1, <2>1 DEF Sound, WaitsIn, LeftIn
    <3>2. db'.task[x] = db.task[x]
      BY <1>9, <3>1
    <3>3. x \notin K
      BY <1>3, <3>1
    <3>4. EdgesOf(edges', x) = EdgesOf(edges, x)
      BY <1>2, <1>5, <3>3 DEF EdgesOf
    <3>5. \A e \in EdgesOf(edges, x) : db'.task[e.on] = db.task[e.on]
      BY <1>4, <1>9 DEF EdgesOf
    <3> QED
      BY <1>2, <3>1, <3>2, <3>4, <3>5 DEF PlainEdges, Waits
  <2>2. CASE x \in left
    <3>1. x \in new /\ EdgesOf(E, x) # {} /\ \A e \in EdgesOf(E, x) : e.on \notin made
      BY <2>2 DEF left
    <3>2. db'.task[x] = NewTask
      BY <1>9, <3>1
    <3>3. EdgesOf(edges', x) = EdgesOf(E, x)
      BY <1>10, <3>1
    <3>4. ASSUME NEW e \in EdgesOf(E, x)
          PROVE  /\ e.on \in new /\ e.requireSuccess /\ ~e.whileBlocked
                 /\ db'.task[e.on].status \in {"pending", "ready"}
      <4>1. e \in E /\ e.on \notin made
        BY <3>1 DEF EdgesOf
      <4>2. e.on \in new
        BY <1>5, <4>1
      <4> QED
        BY <1>5, <1>10, <4>1, <4>2
    <3>5. PlainEdges(edges', x)
      BY <3>3, <3>4 DEF PlainEdges
    <3>6. Waits(db', edges', x)
      BY <3>1, <3>3, <3>4 DEF Waits
    <3> QED
      BY <1>2, <1>7, <3>1, <3>2, <3>5, <3>6
  <2> QED
    BY <1>2, <2>1, <2>2
<1>14. WaitsIn(db', edges', waiting') /\ LeftIn(db', waiting', made')
  BY <1>13 DEF WaitsIn, LeftIn
<1>15. Gone(db', made')
  <2> SUFFICES ASSUME NEW x \in Tasks \ made'
               PROVE  db'.task[x] = NewTask /\ db'.rows[x] = NoRows /\ ~db'.cohort[x].open
    BY DEF Gone
  <2>1. x \notin made /\ x \notin new
    BY <1>2
  <2> QED
    BY <1>1, <1>9, <2>1 DEF Gone, CohortsGrow
<1>16. QueuesMet
  <2> SUFFICES ASSUME NEW x \in Tasks, db.task[x].status = "pending",
                      db'.task[x].status = "ready", NEW e \in EdgesOf(edges', x)
               PROVE  FALSE
    BY DEF QueuesMet
  <2>1. x \in new
    BY <1>9
  <2> QED
    BY <1>10, <2>1
<1> QED
  BY <1>6, <1>11, <1>12, <1>14, <1>15, <1>16 DEF Sound

\* create_tasks, from a chat
LEMMA CreateTasksStep ==
  ASSUME TablesInv, NEW K \in SUBSET Tasks, NEW order \in Orders,
         NEW E \in SUBSET BatchEdges(order, K), CreateTasks(K, E)
  PROVE  StepOK /\ ClosesWithLast /\ QueuesMet
<1> DEFINE holder == [t \in K |-> t]
<1>1. AddsBatch(K, E) /\ db' = WithBatch(K, E, holder) /\ SameHistory /\ holder \in [K -> Tasks]
  BY DEF CreateTasks
<1> HIDE DEF holder
<1>2. IsBatch(db', K, E) /\ db'.cohort = db.cohort
  BY <1>1, WithBatchFacts
<1>3. CohortsGrow /\ \A h \in Tasks : SameCount(db.cohort[h], db'.cohort[h])
  BY <1>2 DEF CohortsGrow, SameCount
<1>4. /\ made' \subseteq Tasks /\ reused' \subseteq made' /\ waiting' \subseteq Tasks
      /\ edges' \subseteq [task: made', on: made', requireSuccess: BOOLEAN,
                           whileBlocked: BOOLEAN]
      /\ Sound(db', edges', waiting', unplanned, Unplanned(db'))
      /\ LeftIn(db', waiting', made') /\ Gone(db', made') /\ QueuesMet
  BY <1>1, <1>2, <1>3, BatchSound
<1>5. /\ Counts(db', unsettled', astray') /\ ClosesWithLast
      /\ unsettled' \in [Tasks -> SUBSET Tasks] /\ astray' \subseteq Tasks
  BY <1>1, <1>3, NothingCounted
<1> QED
  BY <1>2, <1>4, <1>5 DEF StepOK, RestOK, IsBatch

\* create_tasks with asCohort.  Every batch of it has an input.
LEMMA CreateCohortStep ==
  ASSUME TablesInv, NEW K \in SUBSET Tasks, K # {}, NEW order \in Orders,
         NEW E \in SUBSET BatchEdges(order, K), NEW h \in Tasks, CreateCohort(h, K, E)
  PROVE  StepOK /\ ClosesWithLast /\ QueuesMet
<1> DEFINE holder == [t \in K |-> h]
           d == WithBatch(K, E, holder)
           c == [NoCohort EXCEPT !.open = TRUE, !.total = Cardinality(K)]
<1>1. /\ AddsBatch(K, E) /\ holder \in [K -> Tasks]
      /\ db.rows[h]["running"] > 0 /\ IsCron(db.task[h]) /\ ~db.cohort[h].open
      /\ unsettled' = [unsettled EXCEPT ![h] = K \ made]
      /\ astray' = IF K \cap made = {} THEN astray \ {h} ELSE astray \cup {h}
  BY DEF CreateCohort
<1>2. Cardinality(K) \in Nat /\ Cardinality(K) # 0
  <2>1. IsFiniteSet(K)
    BY DependencyAssumption, FS_Subset
  <2> QED
    BY <2>1, FS_CardinalityType, FS_EmptySet
<1>3. c \in Cohorts /\ c.open /\ c.total = Cardinality(K) /\ c.settled = 0
  BY <1>2 DEF NoCohort, Cohorts
<1>4. db' = WithCohort(d, h, c)
  <2>1. db' = [d EXCEPT !.cohort[h] = [NoCohort EXCEPT !.open = TRUE, !.total = Cardinality(K)]]
    BY DEF CreateCohort
  <2> QED
    BY <2>1 DEF WithCohort
<1> HIDE DEF holder
<1>5. IsBatch(d, K, E) /\ d.cohort = db.cohort
  BY <1>1, WithBatchFacts
<1> HIDE DEF c, d
<1>6. /\ db' \in DbType /\ db'.cohort[h] = c
      /\ \A x \in Tasks : x # h => db'.cohort[x] = db.cohort[x]
      /\ db'.task = d.task /\ db'.rows = d.rows
  BY <1>3, <1>4, <1>5, WithCohortFacts DEF IsBatch
<1>7. IsBatch(db', K, E)
  BY <1>5, <1>6 DEF IsBatch
<1>8. CohortsGrow
  <2>1. h \in made
    BY <1>1, ActiveIsMade DEF RowStates
  <2> QED
    BY <1>1, <1>6, <2>1 DEF CohortsGrow
<1>9. /\ made' \subseteq Tasks /\ reused' \subseteq made' /\ waiting' \subseteq Tasks
      /\ edges' \subseteq [task: made', on: made', requireSuccess: BOOLEAN,
                           whileBlocked: BOOLEAN]
      /\ Sound(db', edges', waiting', unplanned, Unplanned(db'))
      /\ LeftIn(db', waiting', made') /\ Gone(db', made') /\ QueuesMet
  BY <1>1, <1>7, <1>8, BatchSound
<1>10. /\ db \in DbType /\ unsettled \in [Tasks -> SUBSET Tasks] /\ astray \subseteq Tasks
       /\ Counts(db, unsettled, astray)
  BY DEF TablesInv, Rest, RestOK
<1>11. unsettled' \in [Tasks -> SUBSET Tasks] /\ astray' \subseteq Tasks
  BY <1>1, <1>10
<1>12. ASSUME NEW x \in Tasks PROVE CountOf(x)' /\ ClosesOf(x)
  <2>1. CASE x = h
    <3>1. ClosesOf(x)
      BY <1>1, <2>1 DEF ClosesOf
    <3>2. ASSUME x \notin astray' PROVE unsettled'[x] = K
      BY <1>1, <1>10, <2>1, <3>2
    <3>3. CountOf(x)'
      BY <1>2, <1>3, <1>6, <2>1, <3>2 DEF CountOf
    <3> QED
      BY <3>1, <3>3
  <2>2. CASE x # h
    <3>1. CountOf(x)
      BY <1>10 DEF Counts, CountOf
    <3>2. SameCountOf(x)
      BY <1>1, <1>6, <1>10, <2>2 DEF SameCountOf, SameCount
    <3> QED
      BY <1>10, <3>1, <3>2, SameCountKeeps
  <2> QED
    BY <2>1, <2>2
<1>13. Counts(db', unsettled', astray')
  BY <1>12 DEF Counts, CountOf
<1>14. ClosesWithLast
  BY <1>12 DEF ClosesWithLast, ClosesOf
<1> QED
  BY <1>6, <1>9, <1>11, <1>13, <1>14 DEF StepOK, RestOK

\* So every batch.
LEMMA BatchTablesStep ==
  ASSUME TablesInv, NEW K \in SUBSET Tasks, K # {}, Batch(K)
  PROVE  StepOK /\ ClosesWithLast /\ QueuesMet
<1>1. PICK order \in Orders :
        \E E \in SUBSET BatchEdges(order, K) :
          CreateTasks(K, E) \/ \E h \in Tasks : CreateCohort(h, K, E)
  BY DEF Batch
<1>2. PICK E \in SUBSET BatchEdges(order, K) :
        CreateTasks(K, E) \/ \E h \in Tasks : CreateCohort(h, K, E)
  BY <1>1
<1>3. CASE CreateTasks(K, E)
  BY <1>3, CreateTasksStep
<1>4. CASE \E h \in Tasks : CreateCohort(h, K, E)
  <2>1. PICK h \in Tasks : CreateCohort(h, K, E)
    BY <1>4
  <2> QED
    BY <2>1, CreateCohortStep
<1> QED
  BY <1>2, <1>3, <1>4

-----------------------------------------------------------------------------
(* Moves of the board.                                                     *)

\* A move that answers t, once t is off the queue.
LEMMA AnsweredStep ==
  ASSUME TablesInv, NEW t \in made, NEW d1, NEW order \in Orders, Quiet(db, d1, t),
         t \notin planned => /\ PlainTask(d1, t)
                             /\ d1.rows[t]["pending"] = 0 /\ d1.rows[t]["running"] = 0,
         db' = Answered(d1, edges, t, order),
         StillWaiting({t}), SameHistory, SameGraph
  PROVE  StepOK /\ ClosesWithLast
<1>1. Rest /\ LeftIn(db, waiting, made) /\ Gone(db, made) /\ db \in DbType
  BY DEF TablesInv
<1>2. t \in Tasks /\ made \subseteq Tasks /\ waiting \subseteq Tasks
  BY <1>1 DEF Rest, RestOK
<1>3. /\ waiting' \subseteq waiting /\ t \notin waiting'
      /\ \A x \in waiting' : db'.task[x].status = "pending"
  BY DEF StillWaiting
<1>4. /\ d1 \in DbType /\ d1.cohort = db.cohort
      /\ \A x \in Tasks : x # t => d1.task[x] = db.task[x] /\ d1.rows[x] = db.rows[x]
      /\ d1.task[t].reason = db.task[t].reason
      /\ d1.task[t].status \in {db.task[t].status, "ready", "pending", "scheduled"}
  BY DEF Quiet, Edits, OnlyTouches
<1>5. MayWrite(d1, t)
  BY <1>4 DEF MayWrite, Quiet, Edits
<1>6. AnswersNone(d1, t, waiting')
  BY <1>4 DEF AnswersNone, Outcomes
<1> DEFINE N == Unplanned(d1)
<1>7. Sound(d1, edges, waiting', unplanned, N)
  BY <1>2, <1>3, <1>5, <1>6, WriteSound DEF Sound
<1>8. t \in N => d1.rows[t]["pending"] = 0 /\ d1.rows[t]["running"] = 0
  BY DEF Unplanned
<1>9. PICK new : /\ RunStep(d1, edges, t, "patch_done", order) = WithTask(d1, t, new)
                 /\ MayBecome(d1.task[t], new)
  BY <1>2, <1>4, PatchDoneStep
<1> DEFINE a == WithTask(d1, t, new)
<1>10. db' = Released(a, edges, t, order)
  BY <1>9 DEF Answered
<1> HIDE DEF N
<1>11. Sound(db', edges, waiting', unplanned, N)
  BY <1>2, <1>4, <1>7, <1>8, <1>9, <1>10, AnswerSound
<1>12. /\ a \in DbType /\ a.task[t] = new /\ a.rows = d1.rows /\ a.cohort = d1.cohort
       /\ \A x \in Tasks : x # t => a.task[x] = d1.task[x]
  BY <1>2, <1>4, <1>9, WithTaskFacts DEF MayBecome
<1> HIDE DEF a
<1>13. Releases(a, db') /\ db' \in DbType /\ db'.cohort = db.cohort
  BY <1>4, <1>10, <1>12, ReleaseReleases DEF Releases
<1>14. N = Unplanned(db')
  <2>1. ASSUME NEW x \in Tasks PROVE db'.task[x].trigger = d1.task[x].trigger
    <3>1. db'.task[x].trigger = a.task[x].trigger
      BY <1>12, <1>13, ReleaseAnswersNothing
    <3> QED
      BY <1>9, <1>12, <3>1 DEF MayBecome
  <2> QED
    BY <2>1 DEF N, Unplanned, IsCron
<1>15. made' = made /\ edges' = edges /\ reused' = reused
  BY DEF SameGraph
<1>16. /\ Counts(db', unsettled', astray') /\ ClosesWithLast
       /\ unsettled' \in [Tasks -> SUBSET Tasks] /\ astray' \subseteq Tasks
  BY <1>13, NothingCounted DEF SameCount
<1>17. RestOK(made', edges', reused', waiting', unsettled', astray')
  BY <1>1, <1>3, <1>15, <1>16 DEF Rest, RestOK
<1>18. LeftIn(db', waiting', made')
  <2>1. ASSUME NEW x \in waiting' PROVE db'.task[x] = db.task[x]
    <3>1. x \in Tasks /\ x # t /\ db'.task[x].status = "pending"
      BY <1>2, <1>3
    <3>2. db'.task[x] = a.task[x]
      BY <1>12, <1>13, <3>1, ReleaseAnswersNothing
    <3> QED
      BY <1>4, <1>12, <3>1, <3>2
  <2> QED
    BY <1>1, <1>3, <1>15, <2>1 DEF LeftIn
<1>19. Gone(db', made')
  <2> SUFFICES ASSUME NEW x \in Tasks \ made
               PROVE  db'.task[x] = NewTask /\ db'.rows[x] = NoRows /\ ~db'.cohort[x].open
    BY <1>15 DEF Gone
  <2>1. x # t /\ x \notin Dependents(edges, t)
    BY <1>1 DEF Rest, RestOK, Dependents
  <2>2. db'.task[x] = a.task[x] /\ db'.rows[x] = a.rows[x]
    BY <1>10, <1>12, <2>1, ReleaseTouches
  <2>3. db'.task[x] = db.task[x] /\ db'.rows[x] = db.rows[x]
    BY <1>4, <1>12, <2>1, <2>2
  <2> QED
    BY <1>1, <1>13, <2>3 DEF Gone
<1>20. Sound(db', edges', waiting', unplanned, Unplanned(db'))
  BY <1>11, <1>14, <1>15
<1> QED
  BY <1>13, <1>16, <1>17, <1>18, <1>19, <1>20 DEF StepOK

\* Where the card of a task stands, and the plan of a drop.
LEMMA PlanOfMove ==
  ASSUME TablesInv, NEW t \in Tasks, NEW to, PlanMove(t, to) # Rejected
  PROVE  LET queued == db.rows[t]["pending"] > 0
             source == CardSource(db, edges, t)
         IN /\ PlanIs(db.task[t], queued, source, to, PlanMove(t, to))
            /\ t \notin planned => PlainAt(db, t, queued, source)
<1> DEFINE queued == db.rows[t]["pending"] > 0
           unmet == \E e \in EdgesOf(edges, t) : ~IsEdgeSatisfied(db, e)
           source == CardSource(db, edges, t)
           plan == PlanMove(t, to)
<1>1. db.task[t] \in CardTypes /\ db \in DbType
  BY DbFields DEF TablesInv
<1>2. unmet \in BOOLEAN /\ source = SourceOf(db.task[t], unmet)
  BY DEF CardSource
<1> HIDE DEF unmet
<1>3. source \in CardSources
  BY <1>1, <1>2, CardHasSource
<1>4. plan = PlanFrom(db.task[t], queued, source, to)
  BY DEF PlanMove
<1> HIDE DEF source, plan, queued
<1>5. PlanIs(db.task[t], queued, source, to, plan)
  BY <1>3, <1>4, PlanTable DEF plan
<1>6. ASSUME t \notin planned PROVE PlainAt(db, t, queued, source)
  <2>1. PlainTask(db, t)
    BY <1>6, PlainNow
  <2>2. PlainCard(db.task[t])
    BY <1>1, <2>1, PlainRows
  <2>3. SourceSays(db.task[t], source)
    BY <1>2, <2>2, PlainCardSource
  <2> QED
    BY <2>1, <2>3 DEF PlainAt, queued
<1> QED
  BY <1>5, <1>6 DEF queued, source, plan

\* moveTaskHandler
LEMMA MoveStep ==
  ASSUME TablesInv, NEW t \in Tasks, NEW to, NEW order \in Orders, Move(t, to, order)
  PROVE  StepOK /\ ClosesWithLast
<1> DEFINE queued == db.rows[t]["pending"] > 0
           source == CardSource(db, edges, t)
           plan == PlanMove(t, to)
           m == Moved(db, edges, t, plan, order)
<1>1. /\ db \in DbType /\ t \in made /\ plan # Rejected /\ db' = m.d
      /\ StillWaiting({t}) /\ SameHistory /\ SameGraph
  BY DEF TablesInv, Move, Exists
<1>2. /\ PlanIs(db.task[t], queued, source, to, plan)
      /\ t \notin planned => PlainAt(db, t, queued, source)
  BY <1>1, PlanOfMove
<1> HIDE DEF queued, source, plan, m
<1>3. t \notin planned => PlainOrCron(db', t)
  BY <1>1, <1>2, PlainMove DEF m
<1>4. CASE IsQuietPlan(plan)
  <2>1. Quiet(db, db', t)
    BY <1>1, <1>4, QuietMove DEF m
  <2>2. MayWrite(db', t)
    BY <1>3, <2>1 DEF MayWrite, Quiet, Edits, PlainOrCron
  <2>3. AnswersNone(db', t, waiting') /\ t \notin waiting'
    BY <1>1, <2>1 DEF AnswersNone, Quiet, Outcomes, StillWaiting
  <2> QED
    BY <1>1, <2>2, <2>3, WriteStep
<1>5. CASE IsDonePlan(plan) /\ t \in planned
  <2>1. Quiet(db, db, t)
    BY <1>1 DEF Quiet, Edits, OnlyTouches
  <2>2. CASE plan = MarkDone
    <3>1. db' = Answered(db, edges, t, order)
      BY <1>1, <2>2, MarkDoneMove DEF m
    <3> QED
      BY <1>1, <1>5, <2>1, <3>1, AnsweredStep
  <2>3. CASE \E a \in QuietSteps : plan = <<a, "patch_done", "release_dependents">>
    <3>1. PICK a \in QuietSteps : plan = <<a, "patch_done", "release_dependents">>
      BY <2>3
    <3>2. m = Moved(db, edges, t, <<a, "patch_done", "release_dependents">>, order)
      BY <3>1 DEF m
    <3>3. CASE StepFails(db, t, a)
      <4>1. db' = db
        <5>1. m = [d |-> db, failed |-> TRUE]
          BY <1>1, <3>2, <3>3, StepThenDoneMove
        <5> QED
          BY <1>1, <5>1
      <4>2. MayWrite(db', t) /\ AnswersNone(db', t, waiting')
        BY <1>5, <2>1, <4>1 DEF MayWrite, AnswersNone, Quiet, Edits
      <4> QED
        BY <1>1, <4>1, <4>2, WriteStep
    <3>4. CASE ~StepFails(db, t, a)
      <4> DEFINE d1 == RunStep(db, edges, t, a, order)
      <4>1. db' = Answered(d1, edges, t, order)
        <5>1. m = [d |-> Answered(d1, edges, t, order), failed |-> FALSE]
          BY <1>1, <3>2, <3>4, StepThenDoneMove
        <5> QED
          BY <1>1, <5>1
      <4>2. Quiet(db, d1, t)
        BY <1>1, <3>4, QuietStep
      <4> HIDE DEF d1
      <4> QED
        BY <1>1, <1>5, <4>1, <4>2, AnsweredStep
    <3> QED
      BY <3>3, <3>4
  <2> QED
    BY <1>5, <2>2, <2>3 DEF IsDonePlan
<1>6. CASE t \notin planned /\ to = "done"
  <2>1. ToDone(queued, source, plan) /\ PlainAt(db, t, queued, source)
    BY <1>2, <1>6 DEF PlanIs
  <2>2. PICK x : /\ OffQueue(db, x, t, source)
                 /\ m = [d |-> Answered(x, edges, t, order), failed |-> FALSE]
    BY <1>1, <2>1, PlainIsAnswered DEF m
  <2>3. db' = Answered(x, edges, t, order)
    BY <1>1, <2>2
  <2> QED
    BY <1>1, <2>2, <2>3, AnsweredStep DEF OffQueue
<1>7. IsQuietPlan(plan) \/ (IsDonePlan(plan) /\ to = "done")
  BY <1>2, PlansOfTwoKinds
<1> QED
  BY <1>4, <1>5, <1>6, <1>7

-----------------------------------------------------------------------------
(* Every step.                                                             *)

\* A step of the queue, the timers or the tools.
LEMMA SystemStep ==
  ASSUME TablesInv, System
  PROVE  StepOK /\ ClosesWithLast /\ QueuesMet
<1>1. CASE \E K \in (SUBSET (Tasks \ made)) \ {{}} : Batch(K)
  <2>1. PICK K \in (SUBSET (Tasks \ made)) \ {{}} : Batch(K)
    BY <1>1
  <2>2. K \in SUBSET Tasks /\ K # {}
    OBVIOUS
  <2> QED
    BY <2>1, <2>2, BatchTablesStep
<1>2. CASE \E t \in Tasks : Dispatch(t) \/ Fire(t) \/ Detach(t)
  BY <1>2, DispatchStep, FireStep, DetachStep
<1>3. CASE \E t \in Tasks, order \in Orders, outcome \in Outcomes \cup {"handed_off"} :
             \E ends \in EndingsFor(t) : Finish(t, outcome, ends, order)
  BY <1>3, FinishStep
<1> QED
  BY <1>1, <1>2, <1>3 DEF System

\* A step of a user queues no task but at once, unless it edits the dependencies.
LEMMA UserStep ==
  ASSUME TablesInv, User
  PROVE  StepOK /\ ClosesWithLast /\ (edges' # edges => QueuesMet)
<1>1. CASE \E K \in SUBSET Tasks : K \cap made # {} /\ Batch(K)
  <2>1. PICK K \in SUBSET Tasks : K \cap made # {} /\ Batch(K)
    BY <1>1
  <2>2. K # {}
    BY <2>1
  <2> QED
    BY <2>1, <2>2, BatchTablesStep
<1>2. CASE \E t \in Tasks : RunNow(t) \/ TakeOver(t)
  <2>1. edges' = edges
    BY <1>2 DEF RunNow, TakeOver, SameGraph
  <2> QED
    BY <1>2, <2>1, RunNowStep, TakeOverStep
<1>3. CASE \E t \in Tasks : Delete(t)
  BY <1>3, DeleteStep
<1>4. CASE \E t \in Tasks, u \in Tasks, kind \in EdgeKinds : AddEdge(t, u, kind)
  BY <1>4, AddEdgeStep
<1>5. CASE \E t \in Tasks, order \in Orders : Park(t, order)
  <2>1. edges' = edges
    BY <1>5 DEF Park, SameGraph
  <2> QED
    BY <1>5, <2>1, ParkStep
<1>6. CASE \E t \in Tasks, order \in Orders, to \in DropLanes : Move(t, to, order)
  <2>1. edges' = edges
    BY <1>6 DEF Move, SameGraph
  <2> QED
    BY <1>6, <2>1, MoveStep
<1>7. CASE \E t \in Tasks, order \in Orders : \E ends \in EndingsFor(t) :
             Cancel(t, ends, order)
  <2>1. PICK t \in Tasks, order \in Orders : \E ends \in EndingsFor(t) : Cancel(t, ends, order)
    BY <1>7
  <2>2. PICK ends \in EndingsFor(t) : Cancel(t, ends, order)
    BY <2>1
  <2>3. edges' = edges
    BY <2>2 DEF Cancel, SameGraph
  <2>4. CASE db.rows[t]["pending"] > 0
    BY <2>2, <2>3, <2>4, CancelQueuedStep
  <2>5. CASE ~(db.rows[t]["pending"] > 0)
    BY <2>2, <2>3, <2>5, CancelAloneStep
  <2> QED
    BY <2>4, <2>5
<1>8. CASE \E e \in edges : RemoveEdge(e)
  BY <1>8, RemoveEdgeStep
<1> QED
  BY <1>1, <1>2, <1>3, <1>4, <1>5, <1>6, <1>7, <1>8 DEF User

\* So every step keeps the invariant.
LEMMA NextKeepsTables ==
  ASSUME TablesInv, Next
  PROVE  /\ TablesInv' /\ ClosesWithLast
         /\ edits' = edits \/ edges' # edges => QueuesMet
<1>1. edits \in 0..MaxEdits /\ MaxEdits \in Nat
  BY DependencyAssumption DEF TablesInv
<1>2. /\ FewRows
      /\ planned' = {t \in made' : t \in planned \/ IsCron(db'.task[t])}
      /\ unplanned' = {t \in {t \in Tasks : db'.task[t].reason = "awaiting_children"} :
                          t \in unplanned \/ ~IsCron(db'.task[t])}
  BY DEF Next
<1>3. CASE System /\ UNCHANGED edits
  <2>1. StepOK /\ ClosesWithLast /\ QueuesMet
    BY <1>3, SystemStep
  <2>2. edits' \in 0..MaxEdits
    BY <1>1, <1>3
  <2> QED
    BY <1>2, <2>1, <2>2, StepKeepsInv
<1>4. CASE User /\ edits < MaxEdits /\ edits' = edits + 1
  <2>1. StepOK /\ ClosesWithLast /\ (edges' # edges => QueuesMet)
    BY <1>4, UserStep
  <2>2. edits' \in 0..MaxEdits /\ edits' # edits
    BY <1>1, <1>4
  <2> QED
    BY <1>2, <2>1, <2>2, StepKeepsInv
<1> QED
  BY <1>3, <1>4 DEF Next

\* Nothing happens, and the invariant stays.
LEMMA StutterKeepsTables ==
  ASSUME TablesInv, UNCHANGED vars
  PROVE  TablesInv'
<1>1. /\ db' = db /\ made' = made /\ edges' = edges /\ reused' = reused /\ waiting' = waiting
      /\ unsettled' = unsettled /\ astray' = astray /\ planned' = planned
      /\ unplanned' = unplanned /\ edits' = edits
  BY DEF vars
<1> QED
  BY <1>1 DEF TablesInv, Rest, HeldByCron

\* The invariant is inductive.
LEMMA TablesInductive == TablesInv /\ [Next]_vars => TablesInv'
BY NextKeepsTables, StutterKeepsTables

\* The tables keep their invariant.
LEMMA TablesKept == Spec => []TablesInv
BY InitInv, TablesInductive, PTL DEF Spec

-----------------------------------------------------------------------------
(* The properties.                                                         *)

\* The tables hold what their columns are declared to, and the histories what
\* they say they do, whatever the handlers of services/workspace-store.ts and
\* routes/v1 do in whatever order.
THEOREM DependencyTypes == Spec => []TypeOK
BY TablesKept, TablesTyped, PTL

\* releaseEligibleDependents leaves no task that create_tasks left to it behind,
\* whichever settlements, parks, moves, cancels and deletes came before: one of
\* its dependencies is open, and none has failed for good.
THEOREM NoWaiterIsStranded == Spec => []WaitersAreWaiting
<1>1. TablesInv => WaitersAreWaiting
  BY DEF TablesInv, Sound, WaitsIn, LeftIn, Waits, WaitersAreWaiting
<1> QED
  BY <1>1, TablesKept, PTL

\* A card that waits for its children has a cohort row with the outcome that
\* settleCohortMember will apply, unless its schedule was dropped meanwhile.
THEOREM HolderIsFrozen == Spec => []AwaitingHasFrozenCohort
<1>1. TablesInv => AwaitingHasFrozenCohort
  BY DEF TablesInv, Sound, HeldIn, HeldByCron, AwaitingHasFrozenCohort
<1> QED
  BY <1>1, TablesKept, PTL

\* settleCohortMember closes a cohort with the settlement of its last child and
\* not before, unless a child was deleted or settled twice.
THEOREM CohortClosesOnce == Spec => CohortClosesWithLastChild
<1>1. TablesInv /\ [Next]_vars =>
        [\A t \in Tasks : db.cohort[t].open /\ t \notin astray'
           => (~db'.cohort[t].open <=> unsettled'[t] = {})]_vars
  BY NextKeepsTables DEF ClosesWithLast
<1> QED
  BY <1>1, TablesKept, PTL DEF Spec, CohortClosesWithLastChild

\* What a settlement, a timer or an edit of the dependencies queues had all its
\* dependencies answered, through however many releases the step sets off.
THEOREM ReleaseOnlyOfMet == Spec => ReleasedOnlyWhenMet
<1>1. TablesInv /\ [Next]_vars =>
        [\A t \in Tasks :
           (edits' = edits \/ edges' # edges)
              /\ db.task[t].status = "pending" /\ db'.task[t].status = "ready"
             => \A e \in EdgesOf(edges', t) : Answers(e)]_vars
  BY NextKeepsTables DEF QueuesMet
<1> QED
  BY <1>1, TablesKept, PTL DEF Spec, ReleasedOnlyWhenMet

\* A move that moveTaskHandler reports as done takes a card without a schedule
\* where it was dropped, whatever rows the task has by then.
THEOREM MovesLandWhereDropped == Spec => []MovesLand
<1>1. TablesInv => MovesLand
  <2> SUFFICES ASSUME TablesInv, NEW t \in made \ planned, NEW to \in Lanes \ {"attention"},
                      PlanMove(t, to) # Rejected, ShowsItsRun(t), NEW order \in Orders,
                      NEW move, move = Moved(db, edges, t, PlanMove(t, to), order),
                      ~move.failed
               PROVE  /\ LaneOf(CardSource(move.d, edges, t)) = to
                      /\ to \in {"backlog", "done"} =>
                           move.d.rows[t]["pending"] = 0 /\ move.d.rows[t]["paused"] = 0
    BY DEF MovesLand
  <2> DEFINE queued == db.rows[t]["pending"] > 0
             source == CardSource(db, edges, t)
             plan == PlanMove(t, to)
  <2>1. db \in DbType /\ t \in Tasks /\ Shown(db, t, source)
    BY DEF TablesInv, Rest, RestOK, ShowsItsRun, Shown
  <2>2. PlanIs(db.task[t], queued, source, to, plan) /\ PlainAt(db, t, queued, source)
    BY <2>1, PlanOfMove
  <2> HIDE DEF queued, source, plan
  <2>3. MovesTo(db, move, t, source, to)
    <3>1. move = Moved(db, edges, t, plan, order)
      BY DEF plan
    <3> QED
      BY <2>1, <2>2, <3>1, PlainMove
  <2>4. LaneOf(CardSource(move.d, edges, t)) = to
    BY <2>3 DEF MovesTo, Lands, CardSource
  <2> QED
    BY <2>1, <2>3, <2>4 DEF MovesTo
<1> QED
  BY <1>1, TablesKept, PTL
=============================================================================
