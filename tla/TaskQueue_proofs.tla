------------------------- MODULE TaskQueue_proofs -------------------------
(***************************************************************************)
(* Proofs about TaskQueue.                                                 *)
(*                                                                         *)
(* Every handler but an executor's own steps ends with a wake, so the      *)
(* argument has three layers: what a dispatch keeps of any tables it is    *)
(* given, what each statement of the store keeps, and for each handler     *)
(* that the tables it hands to the dispatch are ones the dispatch keeps.   *)
(***************************************************************************)
EXTENDS TaskQueue, TLAPS

\* A row that is not free is a task's, in a state of the queue.
RowsFit(d) ==
  \A r \in Runs : d.row[r] # NoRow =>
    d.row[r].task \in Tasks /\ d.row[r].state # "none"

\* The position column: it orders the active rows, all of them, and any set
\* of them has a first.
Positioned(d) ==
  /\ \A p \in d.before : d.row[p[1]] # NoRow /\ d.row[p[2]] # NoRow
  /\ \A q, r \in ActiveRows(d) : q = r \/ <<q, r>> \in d.before \/ <<r, q>> \in d.before
  /\ \A S \in SUBSET Runs :
       S # {} => \E r \in S : \A q \in S : <<q, r>> \notin d.before

Tables(d) == d \in DbType /\ RowsFit(d) /\ Positioned(d)

Busy(x) == x.phase \in {"starting", "streaming"}

\* The rows that run are those an executor works on.
Owned(d, e) ==
  \A r \in Runs : (d.row[r].state = "running") = Busy(e[r])

\* The statuses a task may have while its row is in a state.  A row that is
\* not paused may be one of a task that was taken over in the meantime.
Unfinished == {"pending", "ready", "done", "cancelled"}
Fits(state, s) ==
  /\ state = "pending" => s \in Unfinished
  /\ state = "running" => s \in Unfinished \cup {"running"}
  /\ state = "paused" => s \in {"blocked", "waiting_on_user"}

OneRow(d) ==
  \A q, r \in Runs : TaskOf(d, q) = TaskOf(d, r) /\ d.row[q] # NoRow => q = r

OneHolder(d) ==
  \A t, u \in UserTasks :
    d.status[t] = "running" /\ d.status[u] = "running" /\ ScopeOf[t] = ScopeOf[u]
      => t = u

\* What holds of the tables when users save only what the buttons do.
Orderly(d) ==
  /\ OneRow(d)
  /\ \A r \in Runs : d.row[r] # NoRow => Fits(d.row[r].state, d.status[TaskOf(d, r)])
  /\ \A t \in Tasks : RowsOf(d, t) = {} => d.status[t] # "running"
  /\ OneHolder(d)

\* A run that is being taken over no longer shows as running.
TakenOverHidden(d, e) ==
  \A r \in Runs :
    Busy(e[r]) /\ e[r].intent = "take-over" =>
      d.status[TaskOf(d, r)] # "running"

\* What every step keeps of the tables and the executors.
Good(d, e) ==
  /\ Tables(d)
  /\ e \in [Runs -> ExecType]
  /\ Owned(d, e)
  /\ Edits \subseteq Deliberate => Orderly(d) /\ TakenOverHidden(d, e)

\* A row could start and no executor is about to return: only the deletion of
\* a task that holds a scope leaves the queue so.
NothingStranded(d, e) ==
  (\E r \in Runs : Dispatchable(d, r)) => \E r \in Runs : e[r].phase = "closing"

\* The inductive invariant.
Inv ==
  /\ Good(db, exec)
  /\ prompts \subseteq UserTasks
  /\ Deletable = {} => NothingStranded(db, exec)

-----------------------------------------------------------------------------
(* A dispatch.                                                             *)

\* What a dispatch makes of each row and each task.
LEMMA DispatchedEach ==
  ASSUME NEW d \in DbType
  PROVE  /\ Dispatched(d) \in DbType
         /\ \A r \in Runs :
              /\ Dispatchable(d, r) => Dispatched(d).row[r].state = "running"
              /\ ~Dispatchable(d, r) => Dispatched(d).row[r] = d.row[r]
              /\ Dispatched(d).row[r].task = d.row[r].task
         /\ \A t \in Tasks :
              \/ Dispatched(d).status[t] = d.status[t]
              \/ /\ Dispatched(d).status[t] = "running"
                 /\ \E r \in Runs : Dispatchable(d, r) /\ TaskOf(d, r) = t
         /\ \A r \in Runs : Dispatchable(d, r) /\ TaskOf(d, r) \in Tasks =>
              Dispatched(d).status[TaskOf(d, r)] = "running"
         /\ Dispatched(d).before = d.before
         /\ Dispatched(d).answered = d.answered
<1> DEFINE taken == {r \in Runs : Dispatchable(d, r)}
           row == [r \in Runs |-> IF r \in taken
                                  THEN [d.row[r] EXCEPT !.state = "running"]
                                  ELSE d.row[r]]
           status == [t \in Tasks |-> IF t \in {TaskOf(d, r) : r \in taken}
                                      THEN "running" ELSE d.status[t]]
<1>1. Dispatched(d) = [d EXCEPT !.row = row, !.status = status]
  BY DEF Dispatched
<1>2. row \in [Runs -> RowType]
  BY DEF DbType, RowType
<1>3. status \in [Tasks -> TaskStatuses \cup {"absent"}]
  BY DEF DbType, TaskStatuses
<1>4. \A r \in Runs :
        /\ Dispatchable(d, r) => row[r].state = "running"
        /\ ~Dispatchable(d, r) => row[r] = d.row[r]
        /\ row[r].task = d.row[r].task
  BY DEF DbType, RowType
<1>5. \A t \in Tasks :
        \/ status[t] = d.status[t]
        \/ /\ status[t] = "running"
           /\ \E r \in Runs : Dispatchable(d, r) /\ TaskOf(d, r) = t
  OBVIOUS
<1>6. \A r \in Runs : Dispatchable(d, r) /\ TaskOf(d, r) \in Tasks =>
        status[TaskOf(d, r)] = "running"
  OBVIOUS
<1> HIDE DEF row, status
<1>7. /\ Dispatched(d) \in DbType
      /\ Dispatched(d).row = row
      /\ Dispatched(d).status = status
      /\ Dispatched(d).before = d.before
      /\ Dispatched(d).answered = d.answered
  BY <1>1, <1>2, <1>3 DEF DbType
<1> QED
  BY <1>4, <1>5, <1>6, <1>7

\* A dispatch keeps the rows' shape and their order.
LEMMA DispatchedTables ==
  ASSUME NEW d, Tables(d)
  PROVE  /\ Tables(Dispatched(d))
         /\ ActiveRows(Dispatched(d)) = ActiveRows(d)
<1> DEFINE a == Dispatched(d)
<1>1. d \in DbType
  BY DEF Tables
<1>2. \A r \in Runs :
        /\ Dispatchable(d, r) => a.row[r].state = "running"
        /\ ~Dispatchable(d, r) => a.row[r] = d.row[r]
        /\ a.row[r].task = d.row[r].task
  BY <1>1, DispatchedEach
<1>3. a \in DbType /\ a.before = d.before
  BY <1>1, DispatchedEach
<1> HIDE DEF a
<1>4. \A r \in Runs : Dispatchable(d, r) => d.row[r].state = "pending"
  BY DEF Dispatchable
<1>5. \A r \in Runs : (a.row[r] = NoRow) = (d.row[r] = NoRow)
  BY <1>2, <1>4 DEF NoRow
<1>6. RowsFit(a)
  BY <1>2, <1>5 DEF Tables, RowsFit
<1>7. ActiveRows(a) = ActiveRows(d)
  BY <1>5 DEF ActiveRows
<1>8. Positioned(a)
  <2>1. \A p \in a.before : a.row[p[1]] # NoRow /\ a.row[p[2]] # NoRow
    <3>1. \A p \in d.before : p[1] \in Runs /\ p[2] \in Runs
      BY <1>1 DEF DbType
    <3> QED
      BY <1>3, <1>5, <3>1 DEF Tables, Positioned
  <2> QED
    BY <1>3, <1>7, <2>1 DEF Tables, Positioned
<1> QED
  BY <1>3, <1>6, <1>7, <1>8 DEF a, Tables

\* After a dispatch, nothing can be dispatched: of the rows that contend for
\* a scope, the first is only left where the scope was occupied before.
LEMMA DispatchedExhausts ==
  ASSUME NEW d, Tables(d)
  PROVE  \A r \in Runs : ~Dispatchable(Dispatched(d), r)
<1> DEFINE a == Dispatched(d)
<1>1. d \in DbType
  BY DEF Tables
<1>2. \A r \in Runs :
        /\ Dispatchable(d, r) => a.row[r].state = "running"
        /\ ~Dispatchable(d, r) => a.row[r] = d.row[r]
        /\ a.row[r].task = d.row[r].task
  BY <1>1, DispatchedEach
<1>3. \A t \in Tasks : a.status[t] = d.status[t] \/ a.status[t] = "running"
  BY <1>1, DispatchedEach
<1>4. \A r \in Runs : Dispatchable(d, r) /\ TaskOf(d, r) \in Tasks =>
        a.status[TaskOf(d, r)] = "running"
  BY <1>1, DispatchedEach
<1> HIDE DEF a
<1> SUFFICES ASSUME NEW r \in Runs, Dispatchable(a, r) PROVE FALSE
  BY DEF a
<1>5. a.row[r].state = "pending" /\ ~Dispatchable(d, r)
  BY <1>2 DEF Dispatchable
<1>6. d.row[r].state = "pending" /\ TaskOf(a, r) = TaskOf(d, r)
  BY <1>2, <1>5 DEF TaskOf
<1>7. TaskOf(d, r) \in UserTasks
  <2>1. d.row[r] # NoRow
    BY <1>6 DEF NoRow
  <2>2. TaskOf(d, r) \in Tasks
    BY <2>1 DEF Tables, RowsFit, TaskOf
  <2> QED
    BY <1>5, <1>6, <2>2 DEF Dispatchable, UserTasks
<1> DEFINE scope == ScopeOf[TaskOf(d, r)]
<1>8. ~Occupied(a, scope)
  BY <1>6, <1>7 DEF Dispatchable, UserTasks
<1>9. ~Occupied(d, scope)
  BY <1>3, <1>8 DEF Occupied, UserTasks
<1> DEFINE S == {q \in Runs : Contends(d, q) /\ ScopeOf[TaskOf(d, q)] = scope}
<1>10. r \in S
  BY <1>6, <1>7 DEF Contends
<1>11. PICK m \in S : \A q \in S : <<q, m>> \notin d.before
  BY <1>10 DEF Tables, Positioned
<1>12. Dispatchable(d, m)
  BY <1>9, <1>11 DEF Contends, Overtaken, Dispatchable
<1>13. a.status[TaskOf(d, m)] = "running"
  BY <1>4, <1>11, <1>12 DEF Contends, UserTasks
<1> QED
  BY <1>8, <1>11, <1>13 DEF Occupied, Contends

\* A dispatch keeps the tables orderly: of two contending rows one overtakes
\* the other, so no scope gets a second task that shows as running.
LEMMA DispatchedOrderly ==
  ASSUME NEW d, Tables(d), Orderly(d)
  PROVE  Orderly(Dispatched(d))
<1> DEFINE a == Dispatched(d)
<1>1. d \in DbType
  BY DEF Tables
<1>2. \A r \in Runs :
        /\ Dispatchable(d, r) => a.row[r].state = "running"
        /\ ~Dispatchable(d, r) => a.row[r] = d.row[r]
        /\ a.row[r].task = d.row[r].task
  BY <1>1, DispatchedEach
<1>3. \A t \in Tasks :
        \/ a.status[t] = d.status[t]
        \/ /\ a.status[t] = "running"
           /\ \E r \in Runs : Dispatchable(d, r) /\ TaskOf(d, r) = t
  BY <1>1, DispatchedEach
<1>4. \A r \in Runs : Dispatchable(d, r) /\ TaskOf(d, r) \in Tasks =>
        a.status[TaskOf(d, r)] = "running"
  BY <1>1, DispatchedEach
<1> HIDE DEF a
<1>5. \A r \in Runs : TaskOf(a, r) = TaskOf(d, r)
  BY <1>2 DEF TaskOf
<1>6. \A r \in Runs : Dispatchable(d, r) =>
        d.row[r].state = "pending" /\ d.row[r] # NoRow /\ TaskOf(d, r) \in Tasks
  BY DEF Dispatchable, Tables, RowsFit, TaskOf, NoRow
<1>7. \A r \in Runs : a.row[r] # NoRow => d.row[r] # NoRow
  BY <1>2, <1>6
<1>8. OneRow(a)
  BY <1>5, <1>7 DEF Orderly, OneRow
<1>9. ASSUME NEW r \in Runs, a.row[r] # NoRow
      PROVE  Fits(a.row[r].state, a.status[TaskOf(a, r)])
  <2>1. d.row[r] # NoRow /\ TaskOf(d, r) \in Tasks
    BY <1>7, <1>9 DEF Tables, RowsFit, TaskOf
  <2>2. CASE Dispatchable(d, r)
    BY <1>2, <1>4, <1>5, <2>1, <2>2 DEF Fits
  <2>3. CASE ~Dispatchable(d, r)
    <3>1. a.status[TaskOf(d, r)] = d.status[TaskOf(d, r)]
      BY <1>3, <2>1, <2>3 DEF Orderly, OneRow
    <3> QED
      BY <1>2, <1>5, <2>1, <2>3, <3>1 DEF Orderly
  <2> QED
    BY <2>2, <2>3
<1>10. ASSUME NEW t \in Tasks, RowsOf(a, t) = {} PROVE a.status[t] # "running"
  <2>1. RowsOf(d, t) = {}
    BY <1>5, <1>10 DEF RowsOf
  <2> QED
    BY <1>3, <2>1 DEF Orderly, RowsOf
<1>11. OneHolder(a)
  <2> SUFFICES ASSUME NEW t \in UserTasks, NEW u \in UserTasks,
                      a.status[t] = "running", a.status[u] = "running",
                      ScopeOf[t] = ScopeOf[u]
               PROVE  t = u
    BY DEF OneHolder
  <2>1. t \in Tasks /\ u \in Tasks /\ t \notin SubAgents /\ u \notin SubAgents
    BY DEF UserTasks
  <2>2. \A v \in {t, u} : d.status[v] = "running" \/
          \E r \in Runs : Dispatchable(d, r) /\ TaskOf(d, r) = v
    BY <1>3, <2>1
  <2>3. CASE d.status[t] = "running" /\ d.status[u] = "running"
    BY <2>3 DEF Orderly, OneHolder
  <2>4. ASSUME NEW v \in UserTasks, NEW w \in UserTasks, d.status[v] = "running",
               ScopeOf[v] = ScopeOf[w],
               NEW r \in Runs, Dispatchable(d, r), TaskOf(d, r) = w
        PROVE  FALSE
    BY <2>4 DEF Dispatchable, Occupied, UserTasks
  <2>5. CASE d.status[t] # "running" /\ d.status[u] # "running"
    <3>1. PICK q \in Runs : Dispatchable(d, q) /\ TaskOf(d, q) = t
      BY <2>2, <2>5
    <3>2. PICK r \in Runs : Dispatchable(d, r) /\ TaskOf(d, r) = u
      BY <2>2, <2>5
    <3>3. Contends(d, q) /\ Contends(d, r) /\ ~Overtaken(d, q) /\ ~Overtaken(d, r)
      BY <2>1, <3>1, <3>2 DEF Contends, Dispatchable
    <3>4. <<q, r>> \notin d.before /\ <<r, q>> \notin d.before
      BY <3>1, <3>2, <3>3 DEF Overtaken
    <3>5. q \in ActiveRows(d) /\ r \in ActiveRows(d)
      BY <1>6, <3>1, <3>2 DEF ActiveRows
    <3>6. q = r
      BY <3>4, <3>5 DEF Tables, Positioned
    <3> QED
      BY <3>1, <3>2, <3>6
  <2> QED
    BY <2>2, <2>3, <2>4, <2>5
<1> QED
  BY <1>8, <1>9, <1>10, <1>11 DEF a, Orderly
-----------------------------------------------------------------------------
(* A wake.                                                                 *)

\* A wake keeps good tables good and leaves nothing to dispatch.
LEMMA WakeGood ==
  ASSUME NEW d, NEW e, Good(d, e), Wake(d, e)
  PROVE  /\ Good(db', exec')
         /\ NothingStranded(db, exec)'
<1> DEFINE a == Dispatched(d)
<1>1. d \in DbType /\ Tables(d)
  BY DEF Good, Tables
<1>2. \A r \in Runs :
        /\ Dispatchable(d, r) => a.row[r].state = "running"
        /\ ~Dispatchable(d, r) => a.row[r] = d.row[r]
        /\ a.row[r].task = d.row[r].task
  BY <1>1, DispatchedEach
<1>3. \A t \in Tasks :
        \/ a.status[t] = d.status[t]
        \/ /\ a.status[t] = "running"
           /\ \E r \in Runs : Dispatchable(d, r) /\ TaskOf(d, r) = t
  BY <1>1, DispatchedEach
<1>4. Tables(a)
  BY <1>1, DispatchedTables
<1>5. \A r \in Runs : ~Dispatchable(a, r)
  BY <1>1, DispatchedExhausts
<1>6. Orderly(d) => Orderly(a)
  BY <1>1, DispatchedOrderly
<1>7. /\ db' = a
      /\ exec' = [r \in Runs |->
                    IF a.row[r].state = "running" /\ d.row[r].state = "pending"
                    THEN [phase |-> "starting", intent |-> "none"] ELSE e[r]]
  BY DEF Wake
<1> HIDE DEF a
<1>8. exec' \in [Runs -> ExecType]
  BY <1>7 DEF Good, ExecType
<1>9. \A r \in Runs : Dispatchable(d, r) => d.row[r].state = "pending"
  BY DEF Dispatchable
<1>10. Owned(a, exec')
  BY <1>2, <1>7, <1>9 DEF Good, Owned, Busy
<1>11. ASSUME Edits \subseteq Deliberate PROVE TakenOverHidden(a, exec')
  <2> SUFFICES ASSUME NEW r \in Runs, Busy(exec'[r]), exec'[r].intent = "take-over"
               PROVE  a.status[TaskOf(a, r)] # "running"
    BY DEF TakenOverHidden
  <2>1. exec'[r] = e[r]
    BY <1>7
  <2>2. d.row[r].state = "running" /\ d.row[r] # NoRow
    BY <2>1 DEF Good, Owned, Busy, NoRow
  <2>3. TaskOf(d, r) \in Tasks /\ TaskOf(a, r) = TaskOf(d, r)
    BY <1>1, <1>2, <2>2 DEF Tables, RowsFit, TaskOf
  <2>4. d.status[TaskOf(d, r)] # "running"
    BY <1>11, <2>1 DEF Good, TakenOverHidden
  <2>5. ASSUME NEW q \in Runs, Dispatchable(d, q), TaskOf(d, q) = TaskOf(d, r)
        PROVE  FALSE
    BY <1>9, <1>11, <2>2, <2>5 DEF Good, Orderly, OneRow
  <2> QED
    BY <1>3, <2>3, <2>4, <2>5
<1>12. Good(db', exec')
  BY <1>4, <1>6, <1>7, <1>8, <1>10, <1>11 DEF Good
<1>13. \A r \in Runs : ~Dispatchable(db', r)
  BY <1>5, <1>7
<1>14. NothingStranded(db, exec)'
  <2>1. NothingStranded(db', exec')
    BY <1>13 DEF NothingStranded
  <2> QED
    BY <2>1 DEF NothingStranded, Dispatchable, Occupied, Overtaken, Contends, TaskOf
<1> QED
  BY <1>12, <1>14

-----------------------------------------------------------------------------
(* What a change of one task, and of at most one row, keeps.               *)

\* The tables as one status is set.
LEMMA StatusSet ==
  ASSUME NEW d \in DbType, NEW t \in Tasks, NEW s \in TaskStatuses \cup {"absent"}
  PROVE  LET d2 == [d EXCEPT !.status[t] = s] IN
         /\ d2 \in DbType
         /\ d2.row = d.row
         /\ d2.before = d.before
         /\ d2.answered = d.answered
         /\ d2.status = [d.status EXCEPT ![t] = s]
  BY DEF DbType

\* The same for a status and an assignee.
LEMMA WithTaskSet ==
  ASSUME NEW d \in DbType, NEW t \in Tasks, NEW s \in TaskStatuses \cup {"absent"},
         NEW a \in {"user", "agent"}
  PROVE  LET d2 == WithTask(d, t, s, a) IN
         /\ d2 \in DbType
         /\ d2.row = d.row
         /\ d2.before = d.before
         /\ d2.answered = d.answered
         /\ d2.status = [d.status EXCEPT ![t] = s]
  BY DEF DbType, WithTask

\* A task's status changes, to one that fits its rows, and no row does.
StatusChange(d, t, d2) ==
  /\ t \in Tasks
  /\ d2 \in DbType
  /\ d2.row = d.row
  /\ d2.before = d.before
  /\ \A u \in Tasks : u # t => d2.status[u] = d.status[u]
  /\ Edits \subseteq Deliberate =>
       /\ \A r \in RowsOf(d, t) : Fits(d.row[r].state, d2.status[t])
       /\ d2.status[t] = "running" => d.status[t] = "running"

\* Such a change keeps good tables good.
LEMMA StatusGood ==
  ASSUME NEW d, NEW e, Good(d, e), NEW t, NEW d2, StatusChange(d, t, d2)
  PROVE  Good(d2, e)
<1> USE DEF StatusChange
<1>1. d \in DbType /\ Tables(d)
  BY DEF Good, Tables
<1>2. \A u \in Tasks : u # t => d2.status[u] = d.status[u]
  OBVIOUS
<1>3. Tables(d2)
  BY <1>1 DEF Tables, RowsFit, Positioned, ActiveRows
<1>4. Owned(d2, e)
  BY DEF Good, Owned
<1>5. ASSUME Edits \subseteq Deliberate PROVE Orderly(d2) /\ TakenOverHidden(d2, e)
  <2>1. \A u \in Tasks : d2.status[u] = "running" => d.status[u] = "running"
    BY <1>2, <1>5
  <2>2. OneRow(d2)
    BY <1>5 DEF Good, Orderly, OneRow, TaskOf
  <2>3. OneHolder(d2)
    BY <1>5, <2>1 DEF Good, Orderly, OneHolder, UserTasks
  <2>4. \A u \in Tasks : RowsOf(d2, u) = {} => d2.status[u] # "running"
    BY <1>5, <2>1 DEF Good, Orderly, RowsOf, TaskOf
  <2>5. ASSUME NEW r \in Runs, d2.row[r] # NoRow
        PROVE  Fits(d2.row[r].state, d2.status[TaskOf(d2, r)])
    <3>1. TaskOf(d2, r) = TaskOf(d, r) /\ TaskOf(d, r) \in Tasks
      BY <1>1, <2>5 DEF Tables, RowsFit, TaskOf
    <3>2. CASE TaskOf(d, r) = t
      BY <1>2, <1>5, <3>1, <3>2 DEF RowsOf
    <3>3. CASE TaskOf(d, r) # t
      BY <1>2, <1>5, <2>5, <3>1, <3>3 DEF Good, Orderly
    <3> QED
      BY <3>2, <3>3
  <2>6. TakenOverHidden(d2, e)
    <3> SUFFICES ASSUME NEW r \in Runs, Busy(e[r]), e[r].intent = "take-over"
                 PROVE  d2.status[TaskOf(d2, r)] # "running"
      BY DEF TakenOverHidden
    <3>1. d.row[r] # NoRow
      BY DEF Good, Owned, Busy, NoRow
    <3>2. TaskOf(d2, r) = TaskOf(d, r) /\ TaskOf(d, r) \in Tasks
      BY <1>1, <3>1 DEF Tables, RowsFit, TaskOf
    <3> QED
      BY <1>5, <2>1, <3>2 DEF Good, TakenOverHidden
  <2> QED
    BY <2>2, <2>3, <2>4, <2>5, <2>6 DEF Orderly
<1> QED
  BY <1>3, <1>4, <1>5 DEF Good

\* A row changes, of a task whose only row it is, and its executor with it:
\* from <<d, e>> to <<d2, e2>>, the row r and its task t are as they may be.
RowChange(d, e, t, r, d2, e2) ==
  /\ t \in Tasks /\ r \in Runs
  /\ Tables(d2)
  /\ e2 \in [Runs -> ExecType]
  /\ \A u \in Tasks : u # t => d2.status[u] = d.status[u]
  /\ \A q \in Runs : q # r => d2.row[q] = d.row[q] /\ e2[q] = e[q]
  /\ d.row[r] = NoRow \/ TaskOf(d, r) = t
  /\ d2.row[r] = NoRow \/ TaskOf(d2, r) = t
  /\ (d2.row[r].state = "running") = Busy(e2[r])
  /\ Edits \subseteq Deliberate =>
       /\ RowsOf(d, t) \subseteq {r}
       /\ d2.row[r] # NoRow => Fits(d2.row[r].state, d2.status[t])
       /\ d2.status[t] = "running" => d.status[t] = "running" /\ d2.row[r] # NoRow
       /\ Busy(e2[r]) /\ e2[r].intent = "take-over" => d2.status[t] # "running"

\* Such a change keeps good tables good.
LEMMA RowGood ==
  ASSUME NEW d, NEW e, Good(d, e), NEW t, NEW r, NEW d2, NEW e2,
         RowChange(d, e, t, r, d2, e2)
  PROVE  Good(d2, e2)
<1> USE DEF RowChange
<1>1. d \in DbType /\ Tables(d)
  BY DEF Good, Tables
<1>2. \A u \in Tasks : u # t => d2.status[u] = d.status[u]
  OBVIOUS
<1>3. \A q \in Runs : q # r => TaskOf(d2, q) = TaskOf(d, q)
  BY DEF TaskOf
<1>4. \A q \in Runs : d.row[q] # NoRow => TaskOf(d, q) \in Tasks
  BY <1>1 DEF Tables, RowsFit, TaskOf
<1>5. \A q \in Runs : d.row[q] = NoRow => TaskOf(d, q) \notin Tasks
  BY QueueAssumption DEF TaskOf, NoRow
<1>6. \A q \in Runs : d2.row[q] = NoRow => TaskOf(d2, q) \notin Tasks
  BY QueueAssumption DEF TaskOf, NoRow
<1>7. Owned(d2, e2)
  BY DEF Good, Owned
<1>8. ASSUME Edits \subseteq Deliberate PROVE Orderly(d2) /\ TakenOverHidden(d2, e2)
  <2>1. \A u \in Tasks : d2.status[u] = "running" => d.status[u] = "running"
    BY <1>2, <1>8
  <2>2. \A q \in Runs : q # r => TaskOf(d, q) # t
    BY <1>8 DEF RowsOf
  <2>3. OneRow(d2)
    <3> SUFFICES ASSUME NEW p \in Runs, NEW q \in Runs,
                        TaskOf(d2, p) = TaskOf(d2, q), d2.row[p] # NoRow
                 PROVE  p = q
      BY DEF OneRow
    <3>1. CASE p = r
      BY <1>3, <2>2, <3>1
    <3>2. CASE q = r
      BY <1>3, <1>4, <1>6, <2>2, <3>2
    <3>3. CASE p # r /\ q # r
      BY <1>3, <1>8, <3>3 DEF Good, Orderly, OneRow
    <3> QED
      BY <3>1, <3>2, <3>3
  <2>4. OneHolder(d2)
    BY <1>8, <2>1 DEF Good, Orderly, OneHolder, UserTasks
  <2>5. ASSUME NEW u \in Tasks, RowsOf(d2, u) = {} PROVE d2.status[u] # "running"
    <3>1. CASE u = t
      BY <1>2, <1>8, <2>5, <3>1 DEF RowsOf
    <3>2. CASE u # t
      <4>1. RowsOf(d, u) = {}
        BY <1>3, <1>5, <2>5, <3>2 DEF RowsOf
      <4> QED
        BY <1>2, <1>8, <3>2, <4>1 DEF Good, Orderly
    <3> QED
      BY <3>1, <3>2
  <2>6. ASSUME NEW q \in Runs, d2.row[q] # NoRow
        PROVE  Fits(d2.row[q].state, d2.status[TaskOf(d2, q)])
    <3>1. CASE q = r
      BY <1>2, <1>8, <2>6, <3>1
    <3>2. CASE q # r
      BY <1>2, <1>3, <1>4, <1>8, <2>2, <2>6, <3>2 DEF Good, Orderly
    <3> QED
      BY <3>1, <3>2
  <2>7. TakenOverHidden(d2, e2)
    <3> SUFFICES ASSUME NEW q \in Runs, Busy(e2[q]), e2[q].intent = "take-over"
                 PROVE  d2.status[TaskOf(d2, q)] # "running"
      BY DEF TakenOverHidden
    <3>1. CASE q = r
      <4>1. d2.row[r] # NoRow
        BY <3>1 DEF NoRow, Busy
      <4> QED
        BY <1>2, <1>8, <3>1, <4>1
    <3>2. CASE q # r
      <4>1. d.row[q] # NoRow
        BY <3>2 DEF Good, Owned, Busy, NoRow
      <4> QED
        BY <1>3, <1>4, <1>8, <2>1, <3>2, <4>1 DEF Good, TakenOverHidden
    <3> QED
      BY <3>1, <3>2
  <2> QED
    BY <2>3, <2>4, <2>5, <2>6, <2>7 DEF Orderly
<1> QED
  BY <1>7, <1>8 DEF Good

\* While its tables are orderly, a task has no row but the one.
LEMMA OnlyRow ==
  ASSUME NEW d, Orderly(d), NEW r \in Runs, d.row[r] # NoRow
  PROVE  RowsOf(d, TaskOf(d, r)) \subseteq {r}
  BY DEF Orderly, OneRow, RowsOf

-----------------------------------------------------------------------------
(* The statements of the store.                                            *)

\* The tables as a row is appended.
LEMMA EnqueuedSet ==
  ASSUME NEW d \in DbType, NEW r \in Runs, NEW t \in Tasks
  PROVE  LET d2 == Enqueued(d, r, t)
             new == [task |-> t, state |-> "pending", attempts |-> 0] IN
         /\ d2 \in DbType
         /\ d2.row = [d.row EXCEPT ![r] = new]
         /\ d2.before = d.before \cup (ActiveRows(d) \X {r})
         /\ d2.answered = d.answered
         /\ d2.status = d.status
<1> DEFINE row == [d.row EXCEPT ![r] = [task |-> t, state |-> "pending", attempts |-> 0]]
           before == d.before \cup (ActiveRows(d) \X {r})
<1>1. row \in [Runs -> RowType]
  BY DEF DbType, RowType
<1>2. before \in SUBSET (Runs \X Runs)
  BY DEF DbType, ActiveRows
<1>3. Enqueued(d, r, t) = [d EXCEPT !.row = row, !.before = before]
  BY DEF Enqueued, DbType
<1> HIDE DEF row, before
<1>4. /\ [d EXCEPT !.row = row, !.before = before] \in DbType
      /\ [d EXCEPT !.row = row, !.before = before].row = row
      /\ [d EXCEPT !.row = row, !.before = before].before = before
      /\ [d EXCEPT !.row = row, !.before = before].answered = d.answered
      /\ [d EXCEPT !.row = row, !.before = before].status = d.status
  BY <1>1, <1>2 DEF DbType
<1> QED
  BY <1>3, <1>4 DEF row, before

\* The new row comes after all others, so every set of rows keeps its first.
LEMMA EnqueuedTables ==
  ASSUME NEW d, Tables(d), NEW r \in Runs, d.row[r] = NoRow, NEW t \in Tasks
  PROVE  Tables(Enqueued(d, r, t))
<1> DEFINE d2 == Enqueued(d, r, t)
           new == [task |-> t, state |-> "pending", attempts |-> 0]
<1>1. d \in DbType
  BY DEF Tables
<1>2. /\ d2 \in DbType
      /\ d2.row = [d.row EXCEPT ![r] = new]
      /\ d2.before = d.before \cup (ActiveRows(d) \X {r})
  BY <1>1, EnqueuedSet
<1> HIDE DEF d2
<1>3. d2.row[r] = new /\ \A q \in Runs : q # r => d2.row[q] = d.row[q]
  BY <1>1, <1>2 DEF DbType
<1>4. new # NoRow
  BY DEF NoRow
<1>5. ActiveRows(d2) = ActiveRows(d) \cup {r}
  BY <1>3, <1>4 DEF ActiveRows
<1>6. RowsFit(d2)
  BY <1>3 DEF Tables, RowsFit
<1>7. \A p \in d.before : p[1] \in ActiveRows(d) /\ p[2] \in ActiveRows(d)
  BY <1>1 DEF Tables, Positioned, DbType, ActiveRows
<1>8. \A p \in d2.before : p[1] \in ActiveRows(d2) /\ p[2] \in ActiveRows(d2)
  BY <1>2, <1>5, <1>7
<1>9. ASSUME NEW S \in SUBSET Runs, S # {}
      PROVE  \E m \in S : \A q \in S : <<q, m>> \notin d2.before
  <2>1. r \notin ActiveRows(d)
    BY DEF ActiveRows
  <2>2. CASE S = {r}
    <3>1. <<r, r>> \notin d.before
      BY <1>7, <2>1
    <3>2. <<r, r>> \notin ActiveRows(d) \X {r}
      BY <2>1
    <3> QED
      BY <1>2, <2>2, <3>1, <3>2
  <2>3. CASE S # {r}
    <3>1. S \ {r} # {} /\ S \ {r} \in SUBSET Runs
      BY <1>9, <2>3
    <3>2. PICK m \in S \ {r} : \A q \in S \ {r} : <<q, m>> \notin d.before
      BY <3>1 DEF Tables, Positioned
    <3>3. <<r, m>> \notin d.before
      BY <1>7, <2>1
    <3> QED
      BY <1>2, <3>2, <3>3
  <2> QED
    BY <2>2, <2>3
<1>10. \A p, q \in ActiveRows(d2) :
         p = q \/ <<p, q>> \in d2.before \/ <<q, p>> \in d2.before
  BY <1>2, <1>5 DEF Tables, Positioned
<1>11. Positioned(d2)
  BY <1>8, <1>9, <1>10 DEF Positioned, ActiveRows
<1> QED
  BY <1>2, <1>6, <1>11 DEF d2, Tables

\* A new row for a task without one.
LEMMA EnqueuedGood ==
  ASSUME NEW d, NEW e, Good(d, e), NEW r \in Runs, d.row[r] = NoRow, e[r] = NoExec,
         NEW t \in Tasks,
         Edits \subseteq Deliberate => RowsOf(d, t) = {} /\ d.status[t] \in Unfinished
  PROVE  Good(Enqueued(d, r, t), e)
<1> DEFINE d2 == Enqueued(d, r, t)
           new == [task |-> t, state |-> "pending", attempts |-> 0]
<1>1. d \in DbType /\ Tables(d)
  BY DEF Good, Tables
<1>2. /\ d2 \in DbType
      /\ d2.row = [d.row EXCEPT ![r] = new]
      /\ d2.status = d.status
  BY <1>1, EnqueuedSet
<1>3. Tables(d2)
  BY <1>1, EnqueuedTables
<1> HIDE DEF d2
<1>4. d2.row[r] = new /\ \A q \in Runs : q # r => d2.row[q] = d.row[q]
  BY <1>1, <1>2 DEF DbType
<1>5. d2.status[t] = d.status[t] /\ \A u \in Tasks : u # t => d2.status[u] = d.status[u]
  BY <1>2
<1>6. ~Busy(e[r])
  BY DEF Busy, NoExec
<1>7. d2.row[r].state = "pending" /\ TaskOf(d2, r) = t
  BY <1>4 DEF TaskOf
<1>8. Edits \subseteq Deliberate =>
        /\ RowsOf(d, t) \subseteq {r}
        /\ Fits(d2.row[r].state, d2.status[t])
        /\ d2.status[t] # "running"
  BY <1>5, <1>7 DEF Fits, Unfinished
<1>9. e \in [Runs -> ExecType]
  BY DEF Good
<1>10. (d2.row[r].state = "running") = Busy(e[r])
  BY <1>6, <1>7 DEF Busy
<1>11. RowChange(d, e, t, r, d2, e)
  BY <1>3, <1>4, <1>5, <1>6, <1>7, <1>8, <1>9, <1>10 DEF RowChange
<1> QED
  BY <1>11, RowGood DEF d2

\* The tables as a row is closed.
LEMMA ClosedSet ==
  ASSUME NEW d \in DbType, NEW r \in Runs
  PROVE  LET d2 == Closed(d, r) IN
         /\ d2 \in DbType
         /\ d2.row = [d.row EXCEPT ![r] = NoRow]
         /\ d2.before = {p \in d.before : p[1] # r /\ p[2] # r}
         /\ d2.answered = d.answered
         /\ d2.status = d.status
<1> DEFINE row == [d.row EXCEPT ![r] = NoRow]
           before == {p \in d.before : p[1] # r /\ p[2] # r}
<1>1. row \in [Runs -> RowType]
  BY DEF DbType, RowType, NoRow
<1>2. before \in SUBSET (Runs \X Runs)
  BY DEF DbType
<1>3. Closed(d, r) = [d EXCEPT !.row = row, !.before = before]
  BY DEF Closed, DbType
<1> HIDE DEF row, before
<1>4. /\ [d EXCEPT !.row = row, !.before = before] \in DbType
      /\ [d EXCEPT !.row = row, !.before = before].row = row
      /\ [d EXCEPT !.row = row, !.before = before].before = before
      /\ [d EXCEPT !.row = row, !.before = before].answered = d.answered
      /\ [d EXCEPT !.row = row, !.before = before].status = d.status
  BY <1>1, <1>2 DEF DbType
<1> QED
  BY <1>3, <1>4 DEF row, before

\* A closed row leaves the others in their order.
LEMMA ClosedTables ==
  ASSUME NEW d, Tables(d), NEW r \in Runs
  PROVE  Tables(Closed(d, r))
<1> DEFINE d2 == Closed(d, r)
<1>1. d \in DbType
  BY DEF Tables
<1>2. /\ d2 \in DbType
      /\ d2.row = [d.row EXCEPT ![r] = NoRow]
      /\ d2.before = {p \in d.before : p[1] # r /\ p[2] # r}
  BY <1>1, ClosedSet
<1> HIDE DEF d2
<1>3. d2.row[r] = NoRow /\ \A q \in Runs : q # r => d2.row[q] = d.row[q]
  BY <1>1, <1>2 DEF DbType
<1>4. ActiveRows(d2) = ActiveRows(d) \ {r}
  BY <1>3 DEF ActiveRows
<1>5. RowsFit(d2)
  BY <1>3 DEF Tables, RowsFit
<1>6. \A p \in d.before : p[1] \in ActiveRows(d) /\ p[2] \in ActiveRows(d)
  BY <1>1 DEF Tables, Positioned, DbType, ActiveRows
<1>7. \A p \in d2.before : p[1] \in ActiveRows(d2) /\ p[2] \in ActiveRows(d2)
  BY <1>2, <1>4, <1>6
<1>8. Positioned(d2)
  BY <1>2, <1>4, <1>7 DEF Tables, Positioned, ActiveRows
<1> QED
  BY <1>2, <1>5, <1>8 DEF d2, Tables

\* A task's row is closed and its status set: completeQueueEntry, dequeueTask.
LEMMA ClosedWithStatusGood ==
  ASSUME NEW d, NEW e, Good(d, e), NEW r \in Runs, d.row[r] # NoRow,
         NEW t, t = TaskOf(d, r), NEW s \in TaskStatuses, NEW e2 \in [Runs -> ExecType],
         \A q \in Runs : q # r => e2[q] = e[q],
         ~Busy(e2[r]),
         Edits \subseteq Deliberate => s # "running"
  PROVE  Good([Closed(d, r) EXCEPT !.status[t] = s], e2)
<1> DEFINE d2 == [Closed(d, r) EXCEPT !.status[t] = s]
<1>1. d \in DbType /\ Tables(d)
  BY DEF Good, Tables
<1>2. /\ Closed(d, r) \in DbType
      /\ Closed(d, r).row = [d.row EXCEPT ![r] = NoRow]
      /\ Closed(d, r).status = d.status
  BY <1>1, ClosedSet
<1>3. t \in Tasks
  BY <1>1 DEF Tables, RowsFit, TaskOf
<1>4. /\ d2 \in DbType
      /\ d2.row = Closed(d, r).row
      /\ d2.before = Closed(d, r).before
      /\ d2.status = [d.status EXCEPT ![t] = s]
  BY <1>2, <1>3, StatusSet
<1>5. Tables(Closed(d, r))
  BY <1>1, ClosedTables
<1> HIDE DEF d2
<1>6. Tables(d2)
  BY <1>4, <1>5 DEF Tables, RowsFit, Positioned, ActiveRows
<1>7. d2.row[r] = NoRow /\ \A q \in Runs : q # r => d2.row[q] = d.row[q]
  BY <1>1, <1>2, <1>4 DEF DbType
<1>8. (d2.row[r].state = "running") = Busy(e2[r])
  BY <1>7 DEF Busy, NoRow
<1>9. Edits \subseteq Deliberate => RowsOf(d, t) \subseteq {r}
  BY OnlyRow DEF Good
<1>10. d2.status[t] = s /\ \A u \in Tasks : u # t => d2.status[u] = d.status[u]
  BY <1>1, <1>3, <1>4 DEF DbType
<1>11. RowChange(d, e, t, r, d2, e2)
  BY <1>3, <1>6, <1>7, <1>8, <1>9, <1>10 DEF RowChange
<1> QED
  BY <1>11, RowGood DEF d2

\* A row is closed and nothing else: detachQueueEntry.
LEMMA ClosedGood ==
  ASSUME NEW d, NEW e, Good(d, e), NEW r \in Runs, d.row[r] # NoRow,
         NEW e2 \in [Runs -> ExecType],
         \A q \in Runs : q # r => e2[q] = e[q],
         ~Busy(e2[r]),
         Edits \subseteq Deliberate => d.status[TaskOf(d, r)] # "running"
  PROVE  Good(Closed(d, r), e2)
<1> DEFINE d2 == Closed(d, r)
           t == TaskOf(d, r)
<1>1. d \in DbType /\ Tables(d)
  BY DEF Good, Tables
<1>2. /\ d2 \in DbType
      /\ d2.row = [d.row EXCEPT ![r] = NoRow]
      /\ d2.status = d.status
  BY <1>1, ClosedSet
<1>3. t \in Tasks
  BY <1>1 DEF Tables, RowsFit, TaskOf
<1>4. Tables(d2)
  BY <1>1, ClosedTables
<1> HIDE DEF d2
<1>5. d2.row[r] = NoRow /\ \A q \in Runs : q # r => d2.row[q] = d.row[q]
  BY <1>1, <1>2 DEF DbType
<1>6. d2.status[t] = d.status[t] /\ \A u \in Tasks : u # t => d2.status[u] = d.status[u]
  BY <1>2
<1>7. (d2.row[r].state = "running") = Busy(e2[r])
  BY <1>5 DEF Busy, NoRow
<1>8. Edits \subseteq Deliberate => RowsOf(d, t) \subseteq {r}
  BY OnlyRow DEF Good
<1>9. Edits \subseteq Deliberate => d2.status[t] # "running"
  BY <1>6
<1>10. RowChange(d, e, t, r, d2, e2)
  BY <1>3, <1>4, <1>5, <1>6, <1>7, <1>8, <1>9 DEF RowChange
<1> QED
  BY <1>10, RowGood DEF d2

\* A row is parked or resumed, and its task's status set with it.
StateChange(d, t, r, x, d2) ==
  /\ d.row[r] # NoRow
  /\ t = TaskOf(d, r)
  /\ x \in {"pending", "paused"}
  /\ d2 \in DbType
  /\ d2.row = [d.row EXCEPT ![r].state = x]
  /\ d2.before = d.before
  /\ \A u \in Tasks : u # t => d2.status[u] = d.status[u]
  /\ Edits \subseteq Deliberate => Fits(x, d2.status[t])

\* Such a change keeps good tables good, if the row's executor has returned.
LEMMA StateGood ==
  ASSUME NEW d, NEW e, Good(d, e), NEW t, NEW r \in Runs, NEW x, NEW d2,
         StateChange(d, t, r, x, d2),
         NEW e2 \in [Runs -> ExecType],
         \A q \in Runs : q # r => e2[q] = e[q],
         ~Busy(e2[r])
  PROVE  Good(d2, e2)
<1> USE DEF StateChange
<1>1. d \in DbType /\ Tables(d)
  BY DEF Good, Tables
<1>2. t \in Tasks
  BY <1>1 DEF Tables, RowsFit, TaskOf
<1>3. /\ d2.row[r].state = x
      /\ d2.row[r].task = d.row[r].task
      /\ \A q \in Runs : q # r => d2.row[q] = d.row[q]
  BY <1>1 DEF DbType, RowType
<1>4. d2.row[r] # NoRow
  BY <1>3 DEF NoRow
<1>5. ActiveRows(d2) = ActiveRows(d)
  BY <1>3, <1>4 DEF ActiveRows
<1>6. RowsFit(d2)
  BY <1>1, <1>3 DEF Tables, RowsFit
<1>7. Positioned(d2)
  <2>1. \A p \in d.before : p[1] \in ActiveRows(d) /\ p[2] \in ActiveRows(d)
    BY <1>1 DEF Tables, Positioned, DbType, ActiveRows
  <2>2. \A p \in d2.before : d2.row[p[1]] # NoRow /\ d2.row[p[2]] # NoRow
    BY <1>5, <2>1 DEF ActiveRows
  <2> QED
    BY <1>1, <1>5, <2>2 DEF Tables, Positioned
<1>8. TaskOf(d2, r) = t
  BY <1>3 DEF TaskOf
<1>9. (d2.row[r].state = "running") = Busy(e2[r])
  BY <1>3 DEF Busy
<1>10. Edits \subseteq Deliberate =>
         /\ RowsOf(d, t) \subseteq {r}
         /\ Fits(d2.row[r].state, d2.status[t])
         /\ d2.status[t] # "running"
  BY <1>3, OnlyRow DEF Good, Fits, Unfinished
<1>11. RowChange(d, e, t, r, d2, e2)
  BY <1>2, <1>3, <1>4, <1>6, <1>7, <1>8, <1>9, <1>10 DEF RowChange, Tables
<1> QED
  BY <1>11, RowGood

\* An executor moves on or an intent is set on its abort entry: take-over
\* only once its task does not show as running.
LEMMA IntentGood ==
  ASSUME NEW d, NEW e, Good(d, e), NEW r \in Runs, NEW e2 \in [Runs -> ExecType],
         \A q \in Runs : q # r => e2[q] = e[q],
         Busy(e2[r]) = Busy(e[r]),
         \/ e2[r].intent \in {e[r].intent, "none", "cancel", "pause"}
         \/ d.status[TaskOf(d, r)] # "running"
  PROVE  Good(d, e2)
<1>1. \A q \in Runs : Busy(e2[q]) = Busy(e[q])
  OBVIOUS
<1>2. Owned(d, e2)
  BY <1>1 DEF Good, Owned, Busy
<1>3. Edits \subseteq Deliberate => TakenOverHidden(d, e2)
  BY <1>1 DEF Good, TakenOverHidden, Busy
<1> QED
  BY <1>2, <1>3 DEF Good

-----------------------------------------------------------------------------
(* Recovery.                                                               *)

\* What recovery makes of each row and each task.
LEMMA RecoveredEach ==
  ASSUME NEW d \in DbType
  PROVE  LET a == Recovered(d) IN
         /\ a \in DbType
         /\ \A r \in Runs :
              /\ GivenUp(d, r) => a.row[r] = NoRow
              /\ ~GivenUp(d, r) /\ d.row[r].state = "running" =>
                   a.row[r].state = "pending" /\ a.row[r].task = d.row[r].task
              /\ ~GivenUp(d, r) /\ d.row[r].state # "running" => a.row[r] = d.row[r]
         /\ \A t \in Tasks :
              /\ d.status[t] # "running" \/ RowsIn(d, t, "running") = {} =>
                   a.status[t] = d.status[t]
              /\ d.status[t] = "running" /\ RowsIn(d, t, "running") # {} =>
                   \/ a.status[t] = "ready"
                   \/ /\ a.status[t] \in {"failed", "waiting_on_user"}
                      /\ \E r \in RowsIn(d, t, "running") : GivenUp(d, r)
         /\ a.before = {p \in d.before : ~GivenUp(d, p[1]) /\ ~GivenUp(d, p[2])}
         /\ a.answered = d.answered
<1> DEFINE stuck(t) == RowsIn(d, t, "running")
           hit(t) == stuck(t) # {} /\ d.status[t] = "running"
           lost(t) == hit(t) /\ \E r \in stuck(t) :
                        GivenUp(d, r) /\ \A q \in stuck(t) : <<q, r>> \notin d.before
           status == [t \in Tasks |->
                        IF ~hit(t) THEN d.status[t]
                        ELSE IF ~lost(t) THEN "ready"
                        ELSE IF t \in SubAgents THEN "failed" ELSE "waiting_on_user"]
           assigned == [t \in Tasks |-> IF lost(t) /\ t \in UserTasks
                                        THEN "user" ELSE d.assignedTo[t]]
           row == [r \in Runs |->
                     IF GivenUp(d, r) THEN NoRow
                     ELSE IF d.row[r].state = "running"
                     THEN [task |-> TaskOf(d, r), state |-> "pending", attempts |-> 1]
                     ELSE d.row[r]]
           before == {p \in d.before : ~GivenUp(d, p[1]) /\ ~GivenUp(d, p[2])}
<1>1. Recovered(d) = [status |-> status, assignedTo |-> assigned, row |-> row,
                      before |-> before, answered |-> d.answered]
  BY DEF Recovered
<1>2. \A t \in Tasks : /\ ~hit(t) => status[t] = d.status[t]
                       /\ hit(t) /\ ~lost(t) => status[t] = "ready"
                       /\ lost(t) => status[t] \in {"failed", "waiting_on_user"}
  OBVIOUS
<1>3. status \in [Tasks -> TaskStatuses \cup {"absent"}]
  <2>1. d.status \in [Tasks -> TaskStatuses \cup {"absent"}]
    BY DEF DbType
  <2> QED
    BY <2>1 DEF TaskStatuses
<1>4. assigned \in [Tasks -> {"user", "agent"}]
  BY DEF DbType
<1>5. row \in [Runs -> RowType]
  <2>1. ASSUME NEW r \in Runs
        PROVE  [task |-> TaskOf(d, r), state |-> "pending", attempts |-> 1] \in RowType
    BY DEF DbType, RowType, TaskOf
  <2>2. d.row \in [Runs -> RowType] /\ NoRow \in RowType
    BY DEF DbType, RowType, NoRow
  <2> QED
    BY <2>1, <2>2
<1>6. \A r \in Runs :
        /\ GivenUp(d, r) => row[r] = NoRow
        /\ ~GivenUp(d, r) /\ d.row[r].state = "running" =>
             row[r].state = "pending" /\ row[r].task = d.row[r].task
        /\ ~GivenUp(d, r) /\ d.row[r].state # "running" => row[r] = d.row[r]
  BY DEF TaskOf
<1>7. before \in SUBSET (Runs \X Runs)
  BY DEF DbType
<1>8. d.answered \in SUBSET UserTasks
  BY DEF DbType
<1>9. \A t \in Tasks :
        /\ d.status[t] # "running" \/ RowsIn(d, t, "running") = {} =>
             status[t] = d.status[t]
        /\ d.status[t] = "running" /\ RowsIn(d, t, "running") # {} =>
             \/ status[t] = "ready"
             \/ /\ status[t] \in {"failed", "waiting_on_user"}
                /\ \E r \in RowsIn(d, t, "running") : GivenUp(d, r)
  BY <1>2
<1> HIDE DEF status, assigned, row, before
<1>10. /\ Recovered(d) \in DbType
       /\ Recovered(d).status = status
       /\ Recovered(d).row = row
       /\ Recovered(d).before = before
       /\ Recovered(d).answered = d.answered
  BY <1>1, <1>3, <1>4, <1>5, <1>7, <1>8 DEF DbType
<1> QED
  BY <1>6, <1>9, <1>10 DEF before

\* Recovery keeps good tables good, with no executor left.
LEMMA RecoveredGood ==
  ASSUME NEW d, NEW e, Good(d, e)
  PROVE  Good(Recovered(d), [r \in Runs |-> NoExec])
<1> DEFINE a == Recovered(d)
           none == [r \in Runs |-> NoExec]
<1>1. d \in DbType /\ Tables(d)
  BY DEF Good, Tables
<1>2. a \in DbType /\ a.before = {p \in d.before : ~GivenUp(d, p[1]) /\ ~GivenUp(d, p[2])}
  BY <1>1, RecoveredEach
<1>3. \A r \in Runs :
        /\ GivenUp(d, r) => a.row[r] = NoRow
        /\ ~GivenUp(d, r) /\ d.row[r].state = "running" =>
             a.row[r].state = "pending" /\ a.row[r].task = d.row[r].task
        /\ ~GivenUp(d, r) /\ d.row[r].state # "running" => a.row[r] = d.row[r]
  BY <1>1, RecoveredEach
<1>4. \A t \in Tasks :
        /\ d.status[t] # "running" \/ RowsIn(d, t, "running") = {} =>
             a.status[t] = d.status[t]
        /\ d.status[t] = "running" /\ RowsIn(d, t, "running") # {} =>
             \/ a.status[t] = "ready"
             \/ /\ a.status[t] \in {"failed", "waiting_on_user"}
                /\ \E r \in RowsIn(d, t, "running") : GivenUp(d, r)
  BY <1>1, RecoveredEach
<1> HIDE DEF a
<1>5. \A r \in Runs : (a.row[r] = NoRow) = (d.row[r] = NoRow \/ GivenUp(d, r))
  BY <1>3 DEF NoRow, GivenUp
<1>6. \A r \in Runs : a.row[r] # NoRow =>
        d.row[r] # NoRow /\ ~GivenUp(d, r) /\ TaskOf(a, r) = TaskOf(d, r)
  BY <1>3, <1>5 DEF TaskOf
<1>7. Tables(a)
  <2>1. RowsFit(a)
    BY <1>1, <1>3, <1>6 DEF Tables, RowsFit
  <2>2. ActiveRows(a) = {r \in ActiveRows(d) : ~GivenUp(d, r)}
    BY <1>5 DEF ActiveRows
  <2>3. \A p \in d.before : p[1] \in ActiveRows(d) /\ p[2] \in ActiveRows(d)
    BY <1>1 DEF Tables, Positioned, DbType, ActiveRows
  <2>4. \A p \in a.before : a.row[p[1]] # NoRow /\ a.row[p[2]] # NoRow
    BY <1>2, <2>2, <2>3 DEF ActiveRows
  <2>5. \A q, r \in ActiveRows(a) : q = r \/ <<q, r>> \in a.before \/ <<r, q>> \in a.before
    BY <1>1, <1>2, <2>2 DEF Tables, Positioned
  <2>6. \A S \in SUBSET Runs :
          S # {} => \E r \in S : \A q \in S : <<q, r>> \notin a.before
    BY <1>1, <1>2 DEF Tables, Positioned
  <2> QED
    BY <1>2, <2>1, <2>4, <2>5, <2>6 DEF Tables, Positioned
<1>8. none \in [Runs -> ExecType]
  BY DEF ExecType, NoExec
<1>9. \A r \in Runs : none[r].phase = "none"
  BY DEF NoExec
<1> HIDE DEF none
<1>10. Owned(a, none)
  BY <1>3, <1>9 DEF Owned, Busy, GivenUp, NoRow
<1>11. TakenOverHidden(a, none)
  BY <1>9 DEF TakenOverHidden, Busy
<1>12. ASSUME Orderly(d) PROVE Orderly(a)
  <2>1. \A t \in Tasks : a.status[t] = "running" =>
          d.status[t] = "running" /\ RowsIn(d, t, "running") = {}
    BY <1>4
  <2>2. OneRow(a)
    <3> SUFFICES ASSUME NEW q \in Runs, NEW r \in Runs,
                        TaskOf(a, q) = TaskOf(a, r), a.row[q] # NoRow
                 PROVE  q = r
      BY DEF OneRow
    <3>1. TaskOf(a, q) \in Tasks
      BY <1>7 DEF Tables, RowsFit, TaskOf
    <3>2. a.row[r] # NoRow
      BY <3>1, QueueAssumption DEF TaskOf, NoRow
    <3> QED
      BY <1>6, <1>12, <3>2 DEF Orderly, OneRow
  <2>3. OneHolder(a)
    BY <1>12, <2>1 DEF Orderly, OneHolder, UserTasks
  <2>4. ASSUME NEW t \in Tasks, a.status[t] = "running" PROVE FALSE
    <3>1. PICK r \in Runs : r \in RowsOf(d, t)
      BY <1>12, <2>1, <2>4 DEF Orderly, RowsOf
    <3>2. d.row[r] # NoRow /\ TaskOf(d, r) = t
      BY <3>1, QueueAssumption DEF RowsOf, TaskOf, NoRow
    <3>3. Fits(d.row[r].state, "running")
      BY <1>12, <2>1, <2>4, <3>2 DEF Orderly
    <3>4. d.row[r].state \in {"pending", "running", "paused"}
      <4>1. d.row[r] \in RowType
        BY <1>1 DEF DbType
      <4> QED
        BY <1>1, <3>2, <4>1 DEF Tables, RowsFit, RowType
    <3>5. d.row[r].state = "running"
      BY <3>3, <3>4 DEF Fits, Unfinished
    <3> QED
      BY <2>1, <2>4, <3>1, <3>5 DEF RowsIn
  <2>5. ASSUME NEW r \in Runs, a.row[r] # NoRow
        PROVE  Fits(a.row[r].state, a.status[TaskOf(a, r)])
    <3> DEFINE t == TaskOf(d, r)
    <3>1. d.row[r] # NoRow /\ ~GivenUp(d, r) /\ TaskOf(a, r) = t
      BY <1>6, <2>5
    <3>2. t \in Tasks
      BY <1>1, <3>1 DEF Tables, RowsFit, TaskOf
    <3>3. Fits(d.row[r].state, d.status[t])
      BY <1>12, <3>1 DEF Orderly
    <3> HIDE DEF t
    <3>4. CASE d.row[r].state # "running"
      <4>1. d.row[r].state \in {"pending", "paused"}
        <5>1. d.row[r] \in RowType
          BY <1>1 DEF DbType
        <5> QED
          BY <1>1, <3>1, <3>4, <5>1 DEF Tables, RowsFit, RowType
      <4>2. d.status[t] # "running"
        BY <3>3, <4>1 DEF Fits, Unfinished
      <4>3. a.row[r] = d.row[r] /\ a.status[t] = d.status[t]
        BY <1>3, <1>4, <3>1, <3>2, <3>4, <4>2
      <4> QED
        BY <3>1, <3>3, <4>3
    <3>5. CASE d.row[r].state = "running"
      <4>1. a.row[r].state = "pending"
        BY <1>3, <3>1, <3>5
      <4>2. CASE d.status[t] = "running"
        <5>1. r \in RowsIn(d, t, "running")
          BY <3>5 DEF t, RowsIn, RowsOf
        <5>2. \A q \in RowsIn(d, t, "running") : q = r
          BY <1>12, <3>1 DEF t, RowsIn, RowsOf, Orderly, OneRow
        <5>3. a.status[t] = "ready"
          BY <1>4, <3>1, <3>2, <4>2, <5>1, <5>2
        <5> QED
          BY <3>1, <4>1, <5>3 DEF Fits, Unfinished
      <4>3. CASE d.status[t] # "running"
        <5>1. a.status[t] = d.status[t]
          BY <1>4, <3>2, <4>3
        <5> QED
          BY <3>1, <3>3, <3>5, <4>1, <4>3, <5>1 DEF Fits
      <4> QED
        BY <4>2, <4>3
    <3> QED
      BY <3>4, <3>5
  <2> QED
    BY <2>2, <2>3, <2>4, <2>5 DEF Orderly
<1>13. Good(a, none)
  BY <1>7, <1>8, <1>10, <1>11, <1>12 DEF Good
<1> QED
  BY <1>13 DEF a, none

-----------------------------------------------------------------------------
(* The users' handlers.                                                    *)

\* What there is to know of a task's row while the tables are orderly.
LEMMA RowKnown ==
  ASSUME NEW d, NEW e, Good(d, e), NEW t \in Tasks, NEW r \in RowsOf(d, t)
  PROVE  /\ d.row[r] # NoRow
         /\ TaskOf(d, r) = t
         /\ d.row[r].state \in {"pending", "running", "paused"}
         /\ Edits \subseteq Deliberate => Fits(d.row[r].state, d.status[t])
<1>1. r \in Runs /\ TaskOf(d, r) = t
  BY DEF RowsOf
<1>2. d.row[r] # NoRow
  BY <1>1, QueueAssumption DEF TaskOf, NoRow
<1>3. d.row[r] \in RowType /\ d.row[r].state # "none"
  BY <1>1, <1>2 DEF Good, Tables, DbType, RowsFit
<1> QED
  BY <1>1, <1>2, <1>3 DEF RowType, Good, Orderly

\* A row that does not run has no executor at work on it, and the converse.
LEMMA RowIdle ==
  ASSUME NEW d, NEW e, Good(d, e), NEW r \in Runs
  PROVE  /\ d.row[r].state # "running" => ~Busy(e[r])
         /\ Busy(e[r]) => d.row[r].state = "running" /\ d.row[r] # NoRow
                          /\ TaskOf(d, r) \in Tasks
<1>1. (d.row[r].state = "running") = Busy(e[r])
  BY DEF Good, Owned
<1>2. d.row[r].state = "running" => d.row[r] # NoRow
  BY DEF NoRow
<1>3. d.row[r] # NoRow => TaskOf(d, r) \in Tasks
  BY DEF Good, Tables, RowsFit, TaskOf
<1> QED
  BY <1>1, <1>2, <1>3 DEF Busy

\* The tables as a row is resumed.
LEMMA ResumedSet ==
  ASSUME NEW d \in DbType, NEW r \in Runs
  PROVE  LET d2 == Resumed(d, r) IN
         /\ d2 \in DbType
         /\ d2.row = [d.row EXCEPT ![r].state = "pending"]
         /\ d2.before = d.before
         /\ d2.status = d.status
<1> DEFINE row == [d.row EXCEPT ![r].state = "pending"]
<1>1. row \in [Runs -> RowType]
  BY DEF DbType, RowType
<1>2. Resumed(d, r) = [d EXCEPT !.row = row]
  BY DEF Resumed, DbType
<1> HIDE DEF row
<1>3. /\ [d EXCEPT !.row = row] \in DbType
      /\ [d EXCEPT !.row = row].row = row
      /\ [d EXCEPT !.row = row].before = d.before
      /\ [d EXCEPT !.row = row].status = d.status
  BY <1>1 DEF DbType
<1> QED
  BY <1>2, <1>3 DEF row

\* A task gets status ready and its paused row is resumed.
LEMMA ResumedGood ==
  ASSUME NEW d, NEW e, Good(d, e), NEW t \in Tasks, NEW r \in RowsIn(d, t, "paused"),
         NEW d2 \in DbType,
         d2.row = d.row, d2.before = d.before,
         d2.status = [d.status EXCEPT ![t] = "ready"]
  PROVE  Good(Resumed(d2, r), e)
<1> DEFINE d3 == Resumed(d2, r)
<1>1. r \in Runs /\ r \in RowsOf(d, t) /\ d.row[r].state = "paused"
  BY DEF RowsIn, RowsOf
<1>2. d.row[r] # NoRow /\ TaskOf(d, r) = t
  BY <1>1, RowKnown
<1>3. /\ d3 \in DbType
      /\ d3.row = [d2.row EXCEPT ![r].state = "pending"]
      /\ d3.before = d2.before
      /\ d3.status = d2.status
  BY <1>1, ResumedSet
<1> HIDE DEF d3
<1>4. ~Busy(e[r])
  BY <1>1, RowIdle
<1>5. d3.status[t] = "ready" /\ \A u \in Tasks : u # t => d3.status[u] = d.status[u]
  BY <1>3 DEF Good, Tables, DbType
<1>6. StateChange(d, t, r, "pending", d3)
  BY <1>2, <1>3, <1>5 DEF StateChange, Fits, Unfinished
<1>7. e \in [Runs -> ExecType]
  BY DEF Good
<1>8. Good(d3, e)
  BY <1>1, <1>4, <1>6, <1>7, StateGood
<1> QED
  BY <1>8 DEF d3

\* A task without a row gets status ready and a row.
LEMMA QueuedGood ==
  ASSUME NEW d, NEW e, Good(d, e), NEW t \in Tasks, NEW r \in Runs,
         d.row[r] = NoRow, e[r] = NoExec,
         Edits \subseteq Deliberate => RowsOf(d, t) = {},
         NEW d2 \in DbType,
         d2.row = d.row, d2.before = d.before,
         d2.status = [d.status EXCEPT ![t] = "ready"]
  PROVE  Good(Enqueued(d2, r, t), e)
<1>1. d2.status[t] = "ready" /\ \A u \in Tasks : u # t => d2.status[u] = d.status[u]
  BY DEF Good, Tables, DbType
<1>2. StatusChange(d, t, d2)
  BY <1>1 DEF StatusChange
<1>3. Good(d2, e)
  BY <1>2, StatusGood
<1>4. RowsOf(d2, t) = RowsOf(d, t)
  BY DEF RowsOf, TaskOf
<1>5. Edits \subseteq Deliberate => RowsOf(d2, t) = {} /\ d2.status[t] \in Unfinished
  BY <1>1, <1>4 DEF Unfinished
<1> QED
  BY <1>3, <1>5, EnqueuedGood

\* Save in the drawer, with any edit for the tables' shape, with a button's
\* edit for the rest.
LEMMA SaveGood ==
  ASSUME Good(db, exec), NEW t \in UserTasks, NEW s \in TaskStatuses,
         NEW a \in {"user", "agent"}, Save(t, s, a)
  PROVE  Good(db', exec') /\ NothingStranded(db, exec)'
<1> DEFINE from == db.status[t]
           d == WithTask(db, t, s, a)
<1>1. t \in Tasks /\ db \in DbType
  BY DEF UserTasks, Good, Tables
<1>2. /\ d \in DbType
      /\ d.row = db.row
      /\ d.before = db.before
      /\ d.status = [db.status EXCEPT ![t] = s]
  BY <1>1, WithTaskSet
<1>3. d.status[t] = s /\ \A u \in Tasks : u # t => d.status[u] = db.status[u]
  BY <1>1, <1>2 DEF DbType
<1>4. s = from \/ <<from, s>> \in Edits
  BY DEF Save
<1>5. RowsOf(d, t) = RowsOf(db, t) /\ RowsIn(d, t, "paused") = RowsIn(db, t, "paused")
  BY <1>2 DEF RowsOf, RowsIn, TaskOf
<1>6. from = "blocked" /\ s = "ready" =>
        \/ \E r \in RowsIn(d, t, "paused") : Wake(Resumed(d, r), exec)
        \/ /\ RowsIn(d, t, "paused") = {}
           /\ \/ \E r \in Runs : Unused(r) /\ Wake(Enqueued(d, r, t), exec)
              \/ Wake(d, exec)
  BY DEF Save
<1>7. ~(from = "blocked" /\ s = "ready") =>
        \/ /\ s = "ready" /\ RowsOf(d, t) = {}
           /\ \E r \in Runs : Unused(r) /\ Wake(Enqueued(d, r, t), exec)
        \/ Wake(d, exec)
  BY DEF Save
<1> HIDE DEF d
<1>8. ASSUME ~(from = "blocked" /\ s = "ready") \/ RowsIn(db, t, "paused") = {}
      PROVE  Good(d, exec)
  <2>1. ASSUME Edits \subseteq Deliberate, NEW r \in RowsOf(db, t)
        PROVE  Fits(db.row[r].state, s)
    <3>1. /\ db.row[r].state \in {"pending", "running", "paused"}
          /\ Fits(db.row[r].state, from)
      BY <1>1, <2>1, RowKnown
    <3>2. CASE s = from
      BY <3>1, <3>2
    <3>3. CASE <<from, s>> \in Deliberate
      <4>1. db.row[r].state = "paused" => r \in RowsIn(db, t, "paused")
        BY DEF RowsIn
      <4> QED
        BY <1>8, <3>1, <3>3, <4>1 DEF Deliberate, Fits, Unfinished
    <3> QED
      BY <1>4, <2>1, <3>2, <3>3
  <2>2. Edits \subseteq Deliberate /\ s = "running" => from = "running"
    BY <1>4 DEF Deliberate
  <2>3. StatusChange(db, t, d)
    BY <1>1, <1>2, <1>3, <2>1, <2>2 DEF StatusChange
  <2> QED
    BY <2>3, StatusGood
<1>9. ASSUME NEW r \in Runs, Unused(r), Wake(Enqueued(d, r, t), exec),
             (from = "blocked" /\ RowsIn(db, t, "paused") = {}) \/ RowsOf(db, t) = {},
             s = "ready"
      PROVE  Good(db', exec') /\ NothingStranded(db, exec)'
  <2>1. ASSUME Edits \subseteq Deliberate, NEW q \in RowsOf(db, t) PROVE FALSE
    <3>1. from = "blocked" /\ RowsIn(db, t, "paused") = {}
      BY <1>9, <2>1
    <3>2. /\ db.row[q].state \in {"pending", "running", "paused"}
          /\ Fits(db.row[q].state, from)
      BY <1>1, <2>1, RowKnown
    <3>3. db.row[q].state # "paused"
      BY <3>1 DEF RowsIn
    <3> QED
      BY <3>1, <3>2, <3>3 DEF Fits, Unfinished
  <2>2. Edits \subseteq Deliberate => RowsOf(db, t) = {}
    BY <2>1
  <2>3. Good(Enqueued(d, r, t), exec)
    BY <1>1, <1>2, <1>9, <2>2, QueuedGood DEF Unused
  <2> QED
    BY <1>9, <2>3, WakeGood
<1>10. ASSUME NEW r \in RowsIn(db, t, "paused"), Wake(Resumed(d, r), exec), s = "ready"
       PROVE  Good(db', exec') /\ NothingStranded(db, exec)'
  <2>1. Good(Resumed(d, r), exec)
    BY <1>1, <1>2, <1>10, ResumedGood
  <2> QED
    BY <1>10, <2>1, WakeGood
<1>11. ASSUME Wake(d, exec),
              ~(from = "blocked" /\ s = "ready") \/ RowsIn(db, t, "paused") = {}
       PROVE  Good(db', exec') /\ NothingStranded(db, exec)'
  BY <1>8, <1>11, WakeGood
<1> QED
  BY <1>5, <1>6, <1>7, <1>9, <1>10, <1>11

\* Setting the status after appending a row is appending it after.
LEMMA EnqueuedThenReady ==
  ASSUME NEW d \in DbType, NEW r \in Runs, NEW t \in Tasks
  PROVE  [Enqueued(d, r, t) EXCEPT !.status[t] = "ready"]
           = Enqueued([d EXCEPT !.status[t] = "ready"], r, t)
<1> DEFINE d2 == [d EXCEPT !.status[t] = "ready"]
<1>1. d2.row = d.row /\ d2.before = d.before
  BY StatusSet DEF TaskStatuses
<1>2. ActiveRows(d2) = ActiveRows(d)
  BY <1>1 DEF ActiveRows
<1> QED
  BY <1>2 DEF DbType, Enqueued

\* Run now.
LEMMA RunNowGood ==
  ASSUME Good(db, exec), NEW t \in UserTasks, RunNow(t)
  PROVE  Good(db', exec') /\ NothingStranded(db, exec)'
<1> DEFINE d == [db EXCEPT !.status[t] = "ready"]
<1>1. t \in Tasks /\ db \in DbType
  BY DEF UserTasks, Good, Tables
<1>2. /\ d \in DbType
      /\ d.row = db.row
      /\ d.before = db.before
      /\ d.status = [db.status EXCEPT ![t] = "ready"]
  BY <1>1, StatusSet DEF TaskStatuses
<1>3. PICK r \in Runs : Unused(r) /\ Wake(Enqueued(d, r, t), exec)
  BY <1>1, EnqueuedThenReady DEF RunNow
<1> HIDE DEF d
<1>4. RowsOf(db, t) = {}
  BY DEF RunNow
<1>5. Good(Enqueued(d, r, t), exec)
  BY <1>1, <1>2, <1>3, <1>4, QueuedGood DEF Unused
<1> QED
  BY <1>3, <1>5, WakeGood

\* The abort of a run, for whatever intent but a take-over.
LEMMA AbortingGood ==
  ASSUME NEW d, Good(d, exec), NEW r \in Runs, NEW i \in {"cancel", "pause", "take-over"},
         i = "take-over" => d.status[TaskOf(d, r)] # "running"
  PROVE  Good(d, Aborting(r, i))
<1> DEFINE e == Aborting(r, i)
<1>1. exec \in [Runs -> ExecType]
  BY DEF Good
<1>2. /\ e \in [Runs -> ExecType]
      /\ e[r].phase = exec[r].phase
      /\ e[r].intent = i
      /\ \A q \in Runs : q # r => e[q] = exec[q]
  BY <1>1 DEF Aborting, ExecType
<1> HIDE DEF e
<1>3. Busy(e[r]) = Busy(exec[r])
  BY <1>2 DEF Busy
<1>4. Good(d, e)
  BY <1>2, <1>3, IntentGood
<1> QED
  BY <1>4 DEF e

\* Cancel and Pause of a running task.
LEMMA AbortGood ==
  ASSUME Good(db, exec), NEW t \in UserTasks, CancelRunning(t) \/ Pause(t)
  PROVE  Good(db', exec') /\ NothingStranded(db, exec)'
<1>1. PICK r \in Runs, i \in {"cancel", "pause"} : Wake(db, Aborting(r, i))
  BY DEF CancelRunning, Pause, RunningEntries
<1>2. Good(db, Aborting(r, i))
  BY <1>1, AbortingGood
<1> QED
  BY <1>1, <1>2, WakeGood

\* A task that is not running, with no row or rows that only run, gets a
\* status its run may find when it ends.
LEMMA SettledGood ==
  ASSUME Good(db, exec), NEW t \in Tasks, NEW s \in TaskStatuses, s # "running",
         \/ db.status[t] = "ready" /\ s \in Unfinished
         \/ db.status[t] = "blocked" /\ RowsIn(db, t, "paused") = {}
  PROVE  Good([db EXCEPT !.status[t] = s], exec)
<1> DEFINE d == [db EXCEPT !.status[t] = s]
<1>1. db \in DbType
  BY DEF Good, Tables
<1>2. /\ d \in DbType
      /\ d.row = db.row
      /\ d.before = db.before
      /\ d.status = [db.status EXCEPT ![t] = s]
  BY <1>1, StatusSet
<1> HIDE DEF d
<1>3. d.status[t] = s /\ \A u \in Tasks : u # t => d.status[u] = db.status[u]
  BY <1>1, <1>2 DEF DbType
<1>4. ASSUME Edits \subseteq Deliberate, NEW r \in RowsOf(db, t)
      PROVE  Fits(db.row[r].state, s)
  <2>1. /\ db.row[r].state \in {"pending", "running", "paused"}
        /\ Fits(db.row[r].state, db.status[t])
    BY <1>4, RowKnown
  <2>2. db.row[r].state = "paused" => r \in RowsIn(db, t, "paused")
    BY DEF RowsIn
  <2> QED
    BY <2>1, <2>2 DEF Fits, Unfinished
<1>5. StatusChange(db, t, d)
  BY <1>2, <1>3, <1>4 DEF StatusChange
<1>6. Good(d, exec)
  BY <1>5, StatusGood
<1> QED
  BY <1>6 DEF d

\* A row that does not run is closed and its task's status set.
LEMMA SetAsideGood ==
  ASSUME Good(db, exec), NEW t \in Tasks, NEW r \in RowsOf(db, t),
         db.row[r].state # "running", NEW s \in TaskStatuses, s # "running"
  PROVE  Good([Closed(db, r) EXCEPT !.status[t] = s], exec)
<1>1. r \in Runs /\ db.row[r] # NoRow /\ TaskOf(db, r) = t
  BY RowKnown DEF RowsOf
<1>2. ~Busy(exec[r])
  BY <1>1, RowIdle
<1>3. exec \in [Runs -> ExecType]
  BY DEF Good
<1> QED
  BY <1>1, <1>2, <1>3, ClosedWithStatusGood

\* Cancel of a queued task.
LEMMA CancelReadyGood ==
  ASSUME Good(db, exec), NEW t \in UserTasks, CancelReady(t)
  PROVE  Good(db', exec') /\ NothingStranded(db, exec)'
<1>1. t \in Tasks
  BY DEF UserTasks
<1>2. ASSUME NEW r \in RowsIn(db, t, "pending"), Wake(Completed(db, r, "cancelled"), exec)
      PROVE  Good(db', exec') /\ NothingStranded(db, exec)'
  <2>1. r \in RowsOf(db, t) /\ db.row[r].state # "running" /\ TaskOf(db, r) = t
    BY DEF RowsIn, RowsOf
  <2>2. Good([Closed(db, r) EXCEPT !.status[t] = "cancelled"], exec)
    BY <1>1, <2>1, SetAsideGood DEF TaskStatuses
  <2>3. Completed(db, r, "cancelled") = [Closed(db, r) EXCEPT !.status[t] = "cancelled"]
    BY <2>1 DEF Completed
  <2> QED
    BY <1>2, <2>2, <2>3, WakeGood
<1>3. ASSUME db.status[t] = "ready", Wake([db EXCEPT !.status[t] = "cancelled"], exec)
      PROVE  Good(db', exec') /\ NothingStranded(db, exec)'
  <2>1. Good([db EXCEPT !.status[t] = "cancelled"], exec)
    BY <1>1, <1>3, SettledGood DEF TaskStatuses, Unfinished
  <2> QED
    BY <1>3, <2>1, WakeGood
<1> QED
  BY <1>2, <1>3 DEF CancelReady

\* A move out of the Queue lane, or out of Needs attention.
LEMMA MoveGood ==
  ASSUME Good(db, exec), NEW t \in UserTasks, NEW s \in {"pending", "done"},
         MoveOutOfQueue(t, s) \/ Shelve(t, s)
  PROVE  Good(db', exec') /\ NothingStranded(db, exec)'
<1>1. t \in Tasks /\ s \in TaskStatuses /\ s # "running" /\ s \in Unfinished
  BY DEF UserTasks, TaskStatuses, Unfinished
<1>2. ASSUME NEW r \in RowsIn(db, t, "pending") \cup RowsIn(db, t, "paused"),
             Wake([Closed(db, r) EXCEPT !.status[t] = s], exec)
      PROVE  Good(db', exec') /\ NothingStranded(db, exec)'
  <2>1. r \in RowsOf(db, t) /\ db.row[r].state # "running"
    BY DEF RowsIn, RowsOf
  <2>2. Good([Closed(db, r) EXCEPT !.status[t] = s], exec)
    BY <1>1, <2>1, SetAsideGood
  <2> QED
    BY <1>2, <2>2, WakeGood
<1>3. ASSUME db.status[t] = "blocked", RowsIn(db, t, "paused") = {},
             Wake([db EXCEPT !.status[t] = s], exec)
      PROVE  Good(db', exec') /\ NothingStranded(db, exec)'
  <2>1. Good([db EXCEPT !.status[t] = s], exec)
    BY <1>1, <1>3, SettledGood
  <2> QED
    BY <1>3, <2>1, WakeGood
<1> QED
  BY <1>2, <1>3 DEF MoveOutOfQueue, Shelve

\* Take over: the task is the user's before its run is told, so the intent
\* finds a status that is not running.
LEMMA TakeOverGood ==
  ASSUME Good(db, exec), NEW t \in UserTasks, TakeOver(t)
  PROVE  Good(db', exec') /\ NothingStranded(db, exec)'
<1> DEFINE d == WithTask(db, t, "pending", "user")
<1>1. t \in Tasks /\ db \in DbType /\ exec \in [Runs -> ExecType]
  BY DEF UserTasks, Good, Tables
<1>2. /\ d \in DbType
      /\ d.row = db.row
      /\ d.before = db.before
      /\ d.status = [db.status EXCEPT ![t] = "pending"]
  <2>1. "pending" \in TaskStatuses \cup {"absent"} /\ "user" \in {"user", "agent"}
    BY DEF TaskStatuses
  <2> QED
    BY <1>1, <2>1, WithTaskSet
<1>3. d.status[t] = "pending" /\ \A u \in Tasks : u # t => d.status[u] = db.status[u]
  BY <1>1, <1>2 DEF DbType
<1>4. db.status[t] \in {"ready", "running"}
  BY DEF TakeOver, CanTakeOver
<1>5. \/ Wake(d, exec)
      \/ \E r \in Runs : /\ db.row[r].state = "running" /\ TaskOf(db, r) = t
                         /\ \/ Wake(d, Aborting(r, "take-over"))
                            \/ ~Abortable(r)
      \/ \E r \in RowsIn(db, t, "pending") : Wake(Closed(d, r), exec)
  BY DEF TakeOver, RunningEntries
<1> HIDE DEF d
<1>6. ASSUME Edits \subseteq Deliberate, NEW r \in RowsOf(db, t)
      PROVE  Fits(db.row[r].state, "pending")
  <2>1. /\ db.row[r].state \in {"pending", "running", "paused"}
        /\ Fits(db.row[r].state, db.status[t])
    BY <1>1, <1>6, RowKnown
  <2> QED
    BY <1>4, <2>1 DEF Fits, Unfinished
<1>7. StatusChange(db, t, d)
  BY <1>1, <1>2, <1>3, <1>6 DEF StatusChange
<1>8. Good(d, exec)
  BY <1>7, StatusGood
<1>9. CASE Wake(d, exec)
  BY <1>8, <1>9, WakeGood
<1>10. ASSUME NEW r \in Runs, db.row[r].state = "running", TaskOf(db, r) = t,
              Wake(d, Aborting(r, "take-over"))
       PROVE  Good(db', exec') /\ NothingStranded(db, exec)'
  <2>1. TaskOf(d, r) = t
    BY <1>2, <1>10 DEF TaskOf
  <2>2. Good(d, Aborting(r, "take-over"))
    BY <1>3, <1>8, <2>1, AbortingGood
  <2> QED
    BY <1>10, <2>2, WakeGood
<1>11. ASSUME NEW r \in Runs, db.row[r].state = "running", ~Abortable(r)
       PROVE  FALSE
  BY <1>11 DEF Good, Owned, Busy, Abortable
<1>12. ASSUME NEW r \in RowsIn(db, t, "pending"), Wake(Closed(d, r), exec)
       PROVE  Good(db', exec') /\ NothingStranded(db, exec)'
  <2>1. r \in Runs /\ r \in RowsOf(db, t) /\ db.row[r].state = "pending"
    BY DEF RowsIn, RowsOf
  <2>2. db.row[r] # NoRow /\ TaskOf(d, r) = t
    BY <1>1, <1>2, <2>1, RowKnown DEF TaskOf
  <2>3. ~Busy(exec[r])
    BY <2>1, RowIdle
  <2>4. Good(Closed(d, r), exec)
    BY <1>1, <1>2, <1>3, <1>8, <2>1, <2>2, <2>3, ClosedGood
  <2> QED
    BY <1>12, <2>4, WakeGood
<1> QED
  BY <1>5, <1>9, <1>10, <1>11, <1>12

\* The tables as an answer is put on its task.
LEMMA AnsweredSet ==
  ASSUME NEW d \in DbType, NEW t \in UserTasks
  PROVE  LET d2 == [WithTask(d, t, "ready", "agent") EXCEPT !.answered = @ \cup {t}] IN
         /\ d2 \in DbType
         /\ d2.row = d.row
         /\ d2.before = d.before
         /\ d2.status = [d.status EXCEPT ![t] = "ready"]
<1> DEFINE w == WithTask(d, t, "ready", "agent")
<1>1. t \in Tasks /\ "ready" \in TaskStatuses \cup {"absent"} /\ "agent" \in {"user", "agent"}
  BY DEF UserTasks, TaskStatuses
<1>2. /\ w \in DbType
      /\ w.row = d.row
      /\ w.before = d.before
      /\ w.status = [d.status EXCEPT ![t] = "ready"]
  BY <1>1, WithTaskSet
<1> HIDE DEF w
<1>3. [w EXCEPT !.answered = @ \cup {t}] \in DbType
  BY <1>2 DEF DbType
<1>4. /\ [w EXCEPT !.answered = @ \cup {t}].row = w.row
      /\ [w EXCEPT !.answered = @ \cup {t}].before = w.before
      /\ [w EXCEPT !.answered = @ \cup {t}].status = w.status
  BY <1>2 DEF DbType
<1> QED
  BY <1>2, <1>3, <1>4 DEF w

\* An answer, stale or not.
LEMMA AnswerGood ==
  ASSUME Good(db, exec), NEW t \in UserTasks, Answer(t)
  PROVE  Good(db', exec') /\ NothingStranded(db, exec)'
<1> DEFINE d == [WithTask(db, t, "ready", "agent") EXCEPT !.answered = @ \cup {t}]
<1>1. t \in Tasks /\ db \in DbType
  BY DEF UserTasks, Good, Tables
<1>2. /\ d \in DbType
      /\ d.row = db.row
      /\ d.before = db.before
      /\ d.status = [db.status EXCEPT ![t] = "ready"]
  BY <1>1, AnsweredSet
<1>3. \/ \E r \in RowsIn(db, t, "paused") : Wake(Resumed(d, r), exec)
      \/ /\ RowsIn(db, t, "paused") = {}
         /\ db.status[t] = "waiting_on_user"
         /\ \E r \in Runs : Unused(r) /\ Wake(Enqueued(d, r, t), exec)
  BY DEF Answer
<1> HIDE DEF d
<1>4. ASSUME NEW r \in RowsIn(db, t, "paused"), Wake(Resumed(d, r), exec)
      PROVE  Good(db', exec') /\ NothingStranded(db, exec)'
  <2>1. Good(Resumed(d, r), exec)
    BY <1>1, <1>2, ResumedGood
  <2> QED
    BY <1>4, <2>1, WakeGood
<1>5. ASSUME RowsIn(db, t, "paused") = {}, db.status[t] = "waiting_on_user",
             NEW r \in Runs, Unused(r), Wake(Enqueued(d, r, t), exec)
      PROVE  Good(db', exec') /\ NothingStranded(db, exec)'
  <2>1. ASSUME Edits \subseteq Deliberate, NEW q \in RowsOf(db, t) PROVE FALSE
    <3>1. /\ db.row[q].state \in {"pending", "running", "paused"}
          /\ Fits(db.row[q].state, db.status[t])
      BY <1>1, <2>1, RowKnown
    <3>2. db.row[q].state # "paused"
      BY <1>5 DEF RowsIn
    <3> QED
      BY <1>5, <3>1, <3>2 DEF Fits, Unfinished
  <2>2. Edits \subseteq Deliberate => RowsOf(db, t) = {}
    BY <2>1
  <2>3. Good(Enqueued(d, r, t), exec)
    BY <1>1, <1>2, <1>5, <2>2, QueuedGood DEF Unused
  <2> QED
    BY <1>5, <2>3, WakeGood
<1> QED
  BY <1>3, <1>4, <1>5

\* A sub-agent is created and queued.
LEMMA SpawnGood ==
  ASSUME Good(db, exec), NEW t \in SubAgents, Spawn(t)
  PROVE  Good(db', exec') /\ NothingStranded(db, exec)'
<1> DEFINE d == WithTask(db, t, "ready", "agent")
<1>1. t \in Tasks /\ db \in DbType
  BY QueueAssumption DEF Good, Tables
<1>2. "ready" \in TaskStatuses \cup {"absent"} /\ "agent" \in {"user", "agent"}
  BY DEF TaskStatuses
<1>3. /\ d \in DbType
      /\ d.row = db.row
      /\ d.before = db.before
      /\ d.status = [db.status EXCEPT ![t] = "ready"]
  BY <1>1, <1>2, WithTaskSet
<1>4. PICK r \in Runs : Unused(r) /\ Wake(Enqueued(d, r, t), exec)
  BY DEF Spawn
<1> HIDE DEF d
<1>5. db.status[t] = "absent"
  BY DEF Spawn
<1>6. ASSUME Edits \subseteq Deliberate, NEW q \in RowsOf(db, t) PROVE FALSE
  <2>1. /\ db.row[q].state \in {"pending", "running", "paused"}
        /\ Fits(db.row[q].state, db.status[t])
    BY <1>1, <1>6, RowKnown
  <2> QED
    BY <1>5, <2>1 DEF Fits, Unfinished
<1>7. Edits \subseteq Deliberate => RowsOf(db, t) = {}
  BY <1>6
<1>8. Good(Enqueued(d, r, t), exec)
  BY <1>1, <1>3, <1>4, <1>7, QueuedGood DEF Unused
<1> QED
  BY <1>4, <1>8, WakeGood

\* A task without rows is deleted; nothing is woken.
LEMMA DeleteGood ==
  ASSUME Good(db, exec), NEW t \in UserTasks, Delete(t)
  PROVE  Good(db', exec') /\ Deletable # {}
<1>1. t \in Tasks /\ db \in DbType
  BY DEF UserTasks, Good, Tables
<1>2. /\ db' \in DbType
      /\ db'.row = db.row
      /\ db'.before = db.before
      /\ db'.status = [db.status EXCEPT ![t] = "absent"]
  BY <1>1, StatusSet DEF Delete
<1>3. db'.status[t] = "absent" /\ \A u \in Tasks : u # t => db'.status[u] = db.status[u]
  BY <1>1, <1>2 DEF DbType
<1>4. RowsOf(db, t) = {} /\ exec' = exec /\ Deletable # {}
  BY DEF Delete
<1>5. StatusChange(db, t, db')
  BY <1>1, <1>2, <1>3, <1>4 DEF StatusChange
<1>6. Good(db', exec)
  BY <1>5, StatusGood
<1> QED
  BY <1>4, <1>6

-----------------------------------------------------------------------------
(* The executor.                                                           *)

\* The executors as one of them moves on.
LEMMA PhaseSet ==
  ASSUME exec \in [Runs -> ExecType], NEW r \in Runs,
         NEW x \in {"streaming", "closing"}
  PROVE  /\ Phase(r, x) \in [Runs -> ExecType]
         /\ Phase(r, x)[r].phase = x
         /\ Phase(r, x)[r].intent = exec[r].intent
         /\ \A q \in Runs : q # r => Phase(r, x)[q] = exec[q]
  BY DEF Phase, ExecType

\* The executors as one of them returns.
LEMMA ReturnedSet ==
  ASSUME exec \in [Runs -> ExecType], NEW r \in Runs
  PROVE  LET e2 == [exec EXCEPT ![r] = NoExec] IN
         /\ e2 \in [Runs -> ExecType]
         /\ e2[r] = NoExec
         /\ ~Busy(e2[r])
         /\ \A q \in Runs : q # r => e2[q] = exec[q]
  BY DEF ExecType, NoExec, Busy

\* A run settles its task; the executor still has to return.
LEMMA SettleGood ==
  ASSUME Good(db, exec), NEW r \in Runs, Busy(exec[r]),
         NEW outcome \in {"done", "failed", "cancelled", "handed_off"}, Settle(r, outcome)
  PROVE  /\ Good(db', exec')
         /\ NothingStranded(db, exec)'
         /\ prompts' = prompts
<1> DEFINE s == IF outcome = "handed_off" THEN "blocked" ELSE outcome
           t == TaskOf(db, r)
           e2 == Phase(r, "closing")
<1>1. exec \in [Runs -> ExecType] /\ db.row[r] # NoRow
  BY RowIdle DEF Good
<1>2. s \in TaskStatuses /\ s # "running"
  BY DEF TaskStatuses
<1>3. /\ e2 \in [Runs -> ExecType]
      /\ e2[r].phase = "closing"
      /\ \A q \in Runs : q # r => e2[q] = exec[q]
  BY <1>1, PhaseSet
<1>4. db' = [Closed(db, r) EXCEPT !.status[t] = s] /\ exec' = e2 /\ prompts' = prompts
  BY DEF Settle, Completed
<1> HIDE DEF s, e2
<1>5. ~Busy(e2[r])
  BY <1>3 DEF Busy
<1>6. Good([Closed(db, r) EXCEPT !.status[t] = s], e2)
  BY <1>1, <1>2, <1>3, <1>5, ClosedWithStatusGood
<1>7. exec'[r].phase = "closing"
  BY <1>3, <1>4
<1>8. NothingStranded(db, exec)'
  BY <1>7 DEF NothingStranded
<1> QED
  BY <1>4, <1>6, <1>8

\* The stream begins: what could be dispatched stays as it was.
LEMMA BeginGood ==
  ASSUME Good(db, exec), NEW r \in Runs, Begin(r)
  PROVE  /\ Good(db', exec')
         /\ NothingStranded(db, exec) => NothingStranded(db, exec)'
         /\ prompts' = prompts
<1> DEFINE t == TaskOf(db, r)
           e2 == Phase(r, "streaming")
<1>1. exec \in [Runs -> ExecType] /\ db \in DbType
  BY DEF Good, Tables
<1>2. Busy(exec[r])
  BY DEF Begin, Busy
<1>3. t \in Tasks
  BY <1>2, RowIdle
<1>4. /\ e2 \in [Runs -> ExecType]
      /\ e2[r].phase = "streaming"
      /\ e2[r].intent = exec[r].intent
      /\ \A q \in Runs : q # r => e2[q] = exec[q]
  BY <1>1, PhaseSet
<1>5. db' = [db EXCEPT !.answered = @ \ {t}] /\ exec' = e2 /\ prompts' = prompts
  BY DEF Begin
<1>6. /\ db' \in DbType
      /\ db'.row = db.row
      /\ db'.before = db.before
      /\ db'.status = db.status
  BY <1>1, <1>5 DEF DbType
<1> HIDE DEF t, e2
<1>7. ASSUME Edits \subseteq Deliberate, NEW q \in RowsOf(db, t)
      PROVE  Fits(db.row[q].state, db'.status[t])
    BY <1>3, <1>6, <1>7, RowKnown
<1>8. StatusChange(db, t, db')
  BY <1>3, <1>6, <1>7 DEF StatusChange
<1>9. Good(db', exec)
  BY <1>8, StatusGood
<1>10. Busy(e2[r]) = Busy(exec[r])
  BY <1>2, <1>4 DEF Busy
<1>11. Good(db', e2)
  BY <1>4, <1>9, <1>10, IntentGood
<1>12. \A q \in Runs : Dispatchable(db, q)' => Dispatchable(db, q)
  BY <1>6 DEF Dispatchable, Occupied, Overtaken, Contends, TaskOf
<1>13. \A q \in Runs : exec[q].phase = "closing" => exec'[q].phase = "closing"
  BY <1>2, <1>4, <1>5 DEF Busy
<1>14. NothingStranded(db, exec) => NothingStranded(db, exec)'
  BY <1>12, <1>13 DEF NothingStranded
<1> QED
  BY <1>5, <1>11, <1>14

\* A row is parked: paused, its task with the user, its executor returned.
LEMMA ParkedGood ==
  ASSUME Good(db, exec), NEW r \in Runs, Busy(exec[r]),
         NEW d \in {Parked(db, r), ParkedForHitl(db, r)}
  PROVE  Good(d, [exec EXCEPT ![r] = NoExec])
<1> DEFINE t == TaskOf(db, r)
           row == [db.row EXCEPT ![r].state = "paused"]
           e2 == [exec EXCEPT ![r] = NoExec]
<1>1. exec \in [Runs -> ExecType] /\ db \in DbType
  BY DEF Good, Tables
<1>2. t \in Tasks /\ db.row[r] # NoRow
  BY RowIdle
<1>3. row \in [Runs -> RowType]
  BY <1>1 DEF DbType, RowType
<1>4. \/ d = [db EXCEPT !.row = row, !.status[t] = "blocked"]
      \/ d = [db EXCEPT !.row = row, !.status[t] = "waiting_on_user", !.assignedTo[t] = "user"]
  BY <1>1 DEF Parked, ParkedForHitl, DbType
<1> HIDE DEF row, t
<1>5. PICK s \in {"blocked", "waiting_on_user"} :
        /\ d \in DbType
        /\ d.row = row
        /\ d.before = db.before
        /\ d.status = [db.status EXCEPT ![t] = s]
  <2>1. ASSUME NEW s \in {"blocked", "waiting_on_user"}
        PROVE  [db.status EXCEPT ![t] = s] \in [Tasks -> TaskStatuses \cup {"absent"}]
    BY <1>1, <1>2 DEF DbType, TaskStatuses
  <2>2. ASSUME NEW status \in [Tasks -> TaskStatuses \cup {"absent"}],
               NEW to \in [Tasks -> {"user", "agent"}],
               d = [db EXCEPT !.row = row, !.status = status, !.assignedTo = to]
        PROVE  /\ d \in DbType
               /\ d.row = row
               /\ d.before = db.before
               /\ d.status = status
    BY <1>1, <1>3, <2>2 DEF DbType
  <2>3. /\ db.assignedTo \in [Tasks -> {"user", "agent"}]
        /\ [db.assignedTo EXCEPT ![t] = "user"] \in [Tasks -> {"user", "agent"}]
    BY <1>1, <1>2 DEF DbType
  <2>4. CASE d = [db EXCEPT !.row = row, !.status[t] = "blocked"]
    <3>1. d = [db EXCEPT !.row = row, !.status = [db.status EXCEPT ![t] = "blocked"],
                         !.assignedTo = db.assignedTo]
      BY <1>1, <2>4 DEF DbType
    <3> QED
      BY <2>1, <2>2, <2>3, <3>1
  <2>5. CASE d = [db EXCEPT !.row = row, !.status[t] = "waiting_on_user",
                            !.assignedTo[t] = "user"]
    <3>1. d = [db EXCEPT !.row = row,
                         !.status = [db.status EXCEPT ![t] = "waiting_on_user"],
                         !.assignedTo = [db.assignedTo EXCEPT ![t] = "user"]]
      BY <1>1, <2>5 DEF DbType
    <3> QED
      BY <2>1, <2>2, <2>3, <3>1
  <2> QED
    BY <1>4, <2>4, <2>5
<1>6. d.status[t] = s /\ \A u \in Tasks : u # t => d.status[u] = db.status[u]
  BY <1>1, <1>2, <1>5 DEF DbType
<1>7. StateChange(db, t, r, "paused", d)
  BY <1>2, <1>5, <1>6 DEF StateChange, Fits, row, t
<1>8. /\ e2 \in [Runs -> ExecType]
      /\ ~Busy(e2[r])
      /\ \A q \in Runs : q # r => e2[q] = exec[q]
  BY <1>1, ReturnedSet
<1> HIDE DEF e2
<1>9. Good(d, e2)
  BY <1>7, <1>8, StateGood
<1> QED
  BY <1>9 DEF e2

\* A question, and an abort of whichever intent.
LEMMA StreamEndsGood ==
  ASSUME Good(db, exec), NEW r \in Runs, Ask(r) \/ Aborted(r), prompts \subseteq UserTasks
  PROVE  /\ Good(db', exec')
         /\ NothingStranded(db, exec)'
         /\ prompts' \subseteq UserTasks
<1> DEFINE e2 == [exec EXCEPT ![r] = NoExec]
<1>1. Busy(exec[r]) /\ exec \in [Runs -> ExecType]
  BY DEF Ask, Aborted, Busy, Good
<1>2. CASE Ask(r)
  <2>1. Good(ParkedForHitl(db, r), e2)
    BY <1>1, ParkedGood
  <2>2. Wake(ParkedForHitl(db, r), e2) /\ prompts' \subseteq UserTasks
    BY <1>2 DEF Ask
  <2> HIDE DEF e2
  <2> QED
    BY <2>1, <2>2, WakeGood
<1>3. CASE exec[r].intent = "cancel" /\ Settle(r, "cancelled")
  BY <1>1, <1>3, SettleGood
<1>4. CASE Wake(Parked(db, r), e2) /\ UNCHANGED prompts
  <2>1. Good(Parked(db, r), e2)
    BY <1>1, ParkedGood
  <2> HIDE DEF e2
  <2> QED
    BY <1>4, <2>1, WakeGood
<1>5. CASE /\ exec[r].intent = "take-over"
           /\ db' = Closed(db, r)
           /\ exec' = Phase(r, "closing")
           /\ UNCHANGED prompts
  <2> DEFINE e3 == Phase(r, "closing")
  <2>1. db.row[r] # NoRow
    BY <1>1, RowIdle
  <2>2. Edits \subseteq Deliberate => db.status[TaskOf(db, r)] # "running"
    BY <1>1, <1>5 DEF Good, TakenOverHidden
  <2>3. /\ e3 \in [Runs -> ExecType]
        /\ e3[r].phase = "closing"
        /\ \A q \in Runs : q # r => e3[q] = exec[q]
    BY <1>1, PhaseSet
  <2>4. exec' = e3
    BY <1>5
  <2> HIDE DEF e3
  <2>5. ~Busy(e3[r])
    BY <2>3 DEF Busy
  <2>6. Good(Closed(db, r), e3)
    BY <2>1, <2>2, <2>3, <2>5, ClosedGood
  <2>7. NothingStranded(db, exec)'
    BY <2>3, <2>4 DEF NothingStranded
  <2> QED
    BY <1>5, <2>4, <2>6, <2>7
<1> QED
  BY <1>2, <1>3, <1>4, <1>5 DEF Aborted

\* The executor returns.
LEMMA ReturnGood ==
  ASSUME Good(db, exec), NEW r \in Runs, Return(r)
  PROVE  Good(db', exec') /\ NothingStranded(db, exec)'
<1> DEFINE e2 == [exec EXCEPT ![r] = NoExec]
<1>1. exec \in [Runs -> ExecType] /\ ~Busy(exec[r])
  BY DEF Good, Return, Busy
<1>2. /\ e2 \in [Runs -> ExecType]
      /\ e2[r] = NoExec
      /\ ~Busy(e2[r])
      /\ \A q \in Runs : q # r => e2[q] = exec[q]
  BY <1>1, ReturnedSet
<1>3. Wake(db, e2)
  BY DEF Return
<1> HIDE DEF e2
<1>4. Busy(e2[r]) = Busy(exec[r]) /\ e2[r].intent = "none"
  BY <1>1, <1>2 DEF NoExec, Busy
<1>5. Good(db, e2)
  BY <1>2, <1>4, IntentGood
<1> QED
  BY <1>3, <1>5, WakeGood

\* A run's own steps.
LEMMA ExecutorStepGood ==
  ASSUME Good(db, exec), NEW r \in Runs, ExecutorStep(r), prompts \subseteq UserTasks
  PROVE  /\ Good(db', exec')
         /\ NothingStranded(db, exec) => NothingStranded(db, exec)'
         /\ prompts' \subseteq UserTasks
<1>1. CASE Begin(r)
  BY <1>1, BeginGood
<1>2. CASE SetupFails(r)
  <2>1. Busy(exec[r]) /\ Settle(r, "failed")
    BY <1>2 DEF SetupFails, Busy
  <2> QED
    BY <2>1, SettleGood
<1>3. CASE Finish(r)
  <2>1. PICK outcome \in {"done", "failed", "handed_off"} : Settle(r, outcome)
    BY <1>3 DEF Finish
  <2>2. Busy(exec[r])
    BY <1>3 DEF Finish, Busy
  <2> QED
    BY <2>1, <2>2, SettleGood
<1>4. CASE Ask(r) \/ Aborted(r)
  BY <1>4, StreamEndsGood
<1>5. CASE Return(r)
  <2>1. UNCHANGED prompts
    BY <1>5 DEF Return
  <2> QED
    BY <1>5, <2>1, ReturnGood
<1> QED
  BY <1>1, <1>2, <1>3, <1>4, <1>5 DEF ExecutorStep

\* A user's request.
LEMMA UserStepGood ==
  ASSUME Good(db, exec), NEW t \in UserTasks, UserStep(t)
  PROVE  /\ Good(db', exec')
         /\ Deletable = {} => NothingStranded(db, exec)'
         /\ prompts' = prompts
<1>1. prompts' = prompts
  BY DEF UserStep, Save, RunNow, CancelRunning, CancelReady, Pause, TakeOver, Answer,
         Delete, MoveOutOfQueue, Shelve
<1>2. ASSUME NEW s \in TaskStatuses, NEW a \in {"user", "agent"}, Save(t, s, a)
      PROVE  Good(db', exec') /\ NothingStranded(db, exec)'
  BY <1>2, SaveGood
<1>3. ASSUME NEW s \in {"pending", "done"}, MoveOutOfQueue(t, s) \/ Shelve(t, s)
      PROVE  Good(db', exec') /\ NothingStranded(db, exec)'
  BY <1>3, MoveGood
<1>4. CASE RunNow(t)
  BY <1>1, <1>4, RunNowGood
<1>5. CASE CancelRunning(t) \/ Pause(t)
  BY <1>1, <1>5, AbortGood
<1>6. CASE CancelReady(t)
  BY <1>1, <1>6, CancelReadyGood
<1>7. CASE TakeOver(t)
  BY <1>1, <1>7, TakeOverGood
<1>8. CASE Answer(t)
  BY <1>1, <1>8, AnswerGood
<1>9. CASE Delete(t)
  BY <1>1, <1>9, DeleteGood
<1> QED
  BY <1>1, <1>2, <1>3, <1>4, <1>5, <1>6, <1>7, <1>8, <1>9 DEF UserStep

-----------------------------------------------------------------------------
(* The invariant and what follows from it.                                 *)

\* The queue starts empty, and good.
LEMMA InitGood == Init => Inv
<1> SUFFICES ASSUME Init PROVE Inv
  OBVIOUS
<1>1. db \in DbType
  <2> DEFINE status == [t \in Tasks |-> IF t \in SubAgents THEN "absent" ELSE "pending"]
             assigned == [t \in Tasks |-> IF t \in SubAgents THEN "agent" ELSE "user"]
             row == [r \in Runs |-> NoRow]
  <2>1. status \in [Tasks -> TaskStatuses \cup {"absent"}]
    BY DEF TaskStatuses
  <2>2. assigned \in [Tasks -> {"user", "agent"}]
    OBVIOUS
  <2>3. row \in [Runs -> RowType]
    BY DEF RowType, NoRow
  <2>4. db = [status |-> status, assignedTo |-> assigned, row |-> row,
              before |-> {}, answered |-> {}]
    BY DEF Init
  <2> HIDE DEF status, assigned, row
  <2> QED
    BY <2>1, <2>2, <2>3, <2>4 DEF DbType
<1>2. /\ \A r \in Runs : db.row[r] = NoRow /\ exec[r] = NoExec
      /\ \A t \in Tasks : db.status[t] \in {"absent", "pending"}
      /\ db.before = {}
      /\ exec \in [Runs -> ExecType]
      /\ prompts = {}
  BY DEF Init, NoExec, ExecType
<1>3. Tables(db)
  BY <1>1, <1>2 DEF Tables, RowsFit, Positioned, ActiveRows
<1>4. \A r \in Runs : ~Busy(exec[r]) /\ db.row[r].state = "none"
  BY <1>2 DEF Busy, NoExec, NoRow
<1>5. Owned(db, exec)
  BY <1>4 DEF Owned, Busy
<1>6. Orderly(db)
  BY <1>2 DEF Orderly, OneRow, OneHolder, UserTasks
<1>7. TakenOverHidden(db, exec)
  BY <1>4 DEF TakenOverHidden
<1>8. NothingStranded(db, exec)
  BY <1>4 DEF NothingStranded, Dispatchable
<1> QED
  BY <1>2, <1>3, <1>5, <1>6, <1>7, <1>8 DEF Inv, Good

\* Every step keeps it.
LEMMA NextGood == Inv /\ [Next]_vars => Inv'
<1> SUFFICES ASSUME Inv, [Next]_vars PROVE Inv'
  OBVIOUS
<1>1. /\ Good(db, exec)
      /\ prompts \subseteq UserTasks
      /\ Deletable = {} => NothingStranded(db, exec)
  BY DEF Inv
<1>2. ASSUME /\ Good(db', exec')
             /\ prompts' \subseteq UserTasks
             /\ Deletable = {} => NothingStranded(db, exec)'
      PROVE  Inv'
  BY <1>2 DEF Inv, Good, Tables, RowsFit, Positioned, ActiveRows, Owned, Orderly,
       TakenOverHidden, OneRow, OneHolder, RowsOf, TaskOf
<1>3. ASSUME NEW t \in UserTasks, UserStep(t) PROVE Inv'
  BY <1>1, <1>2, <1>3, UserStepGood
<1>4. ASSUME NEW t \in SubAgents, Spawn(t) PROVE Inv'
  <2>1. prompts' = prompts
    BY <1>4 DEF Spawn
  <2> QED
    BY <1>1, <1>2, <1>4, <2>1, SpawnGood
<1>5. ASSUME NEW r \in Runs, ExecutorStep(r) PROVE Inv'
  BY <1>1, <1>2, <1>5, ExecutorStepGood
<1>6. CASE Restart
  <2>1. Good(Recovered(db), [r \in Runs |-> NoExec])
    BY <1>1, RecoveredGood
  <2>2. Wake(Recovered(db), [r \in Runs |-> NoExec]) /\ prompts' = prompts
    BY <1>6 DEF Restart
  <2>3. Good(db', exec') /\ NothingStranded(db, exec)'
    BY <2>1, <2>2, WakeGood
  <2> QED
    BY <1>1, <1>2, <2>2, <2>3
<1>7. CASE UNCHANGED vars
  BY <1>1, <1>2, <1>7 DEF vars, NothingStranded, Dispatchable, Occupied, Overtaken,
       Contends, TaskOf
<1> QED
  BY <1>3, <1>4, <1>5, <1>6, <1>7 DEF Next

\* The invariant holds throughout.
LEMMA AlwaysGood == Spec => []Inv
  BY InitGood, NextGood, PTL DEF Spec

\* The tables and the executors keep their types, whatever users save.
THEOREM TypeCorrect == Spec => []TypeOK
<1>1. Inv => TypeOK
  BY DEF Inv, Good, Tables, TypeOK
<1> QED
  BY <1>1, AlwaysGood, PTL

\* A row is running exactly while an executor works on it, whatever users save
\* and however often the process dies.
THEOREM ExecutorsOwnRows == Spec => []ExecutorOwnsRow
<1>1. Inv => ExecutorOwnsRow
  BY DEF Inv, Good, Owned, Busy, ExecutorOwnsRow, Active
<1> QED
  BY <1>1, AlwaysGood, PTL

\* Whatever users save, a row that could start has a wake coming: every handler
\* ends with one that leaves nothing to dispatch, and a run that frees a scope
\* without one has an executor about to return.  Deletion is left out: its
\* route does not wake.
THEOREM NoWorkStranded ==
  ASSUME Deletable = {}
  PROVE  Spec => []NoStrandedWork
<1>1. Inv => NoStrandedWork
  BY DEF Inv, NothingStranded, NoStrandedWork
<1> QED
  BY <1>1, AlwaysGood, PTL

\* While users save only what the buttons and the board do, a task never has
\* two rows, however it is enqueued, resumed, answered or recovered.
THEOREM OneRunPerTask ==
  ASSUME Edits \subseteq Deliberate
  PROVE  Spec => []OneActiveRun
<1>1. Inv => OneActiveRun
  BY DEF Inv, Good, Orderly, OneRow, OneActiveRun
<1> QED
  BY <1>1, AlwaysGood, PTL

\* Under the same edits a parked run can always be reached: nothing but Resume,
\* an answer or a move takes its task out of the statuses that offer it.
THEOREM ParkedStaysReachable ==
  ASSUME Edits \subseteq Deliberate
  PROVE  Spec => []ParkedIsReachable
<1>1. Inv => ParkedIsReachable
  BY DEF Inv, Good, Orderly, Fits, ParkedIsReachable, NoRow
<1> QED
  BY <1>1, AlwaysGood, PTL

\* Under the same edits a task that shows as running has a run: no end of a
\* run, take-over or recovery leaves a scope held by nobody.
THEOREM RunningTasksHaveRuns ==
  ASSUME Edits \subseteq Deliberate
  PROVE  Spec => []RunningHasRun
<1>1. Inv => RunningHasRun
  <2> SUFFICES ASSUME Inv, NEW t \in Tasks, db.status[t] = "running"
               PROVE  RowsIn(db, t, "running") # {}
    BY DEF RunningHasRun
  <2>1. Good(db, exec)
    BY DEF Inv
  <2>2. PICK r \in RowsOf(db, t) : TRUE
    BY <2>1 DEF Good, Orderly
  <2>3. db.row[r].state \in {"pending", "running", "paused"}
        /\ Fits(db.row[r].state, "running")
    BY <2>1, RowKnown
  <2> QED
    BY <2>3 DEF Fits, Unfinished, RowsIn, RowsOf
<1> QED
  BY <1>1, AlwaysGood, PTL

\* Under the same edits at most one run of a workspace shows as running.
THEOREM OneShownRun ==
  ASSUME Edits \subseteq Deliberate
  PROVE  Spec => []OneShownRunPerScope
<1>1. Inv => OneShownRunPerScope
  <2> SUFFICES ASSUME Inv, NEW q \in Runs, NEW r \in Runs, Active(q), SameScope(q, r),
                      db.status[TaskOf(db, q)] = "running",
                      db.status[TaskOf(db, r)] = "running"
               PROVE  q = r
    BY DEF OneShownRunPerScope
  <2>1. Orderly(db) /\ Good(db, exec) /\ Busy(exec[q])
    BY DEF Inv, Good, Active, Busy
  <2>2. TaskOf(db, q) = TaskOf(db, r)
    BY <2>1 DEF Orderly, OneHolder, SameScope
  <2>3. db.row[q] # NoRow
    BY <2>1, RowIdle
  <2> QED
    BY <2>1, <2>2, <2>3 DEF Orderly, OneRow
<1> QED
  BY <1>1, AlwaysGood, PTL
=============================================================================
