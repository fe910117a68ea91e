-------------------------- MODULE TaskDependencies --------------------------
(***************************************************************************)
(* Which task may start when: the task_dependencies and task_cohorts       *)
(* tables (services/workspace-store.ts), the handlers that edit them       *)
(* (routes/v1/tasks.handlers.ts), the tools that fill them                 *)
(* (agents/tools/create-tasks.tool.ts), the settlement of a run that       *)
(* releases a dependent or a cohort's holder, and the moves of the board   *)
(* (routes/v1/tasks-board.handlers.ts) that reach the same rows.           *)
(*                                                                         *)
(* All of it is one synchronous handler at a time, over one workspace, so  *)
(* one scope.  What a run does between its start and its end, and what a   *)
(* crash does to it, is TaskQueue's; when a schedule is due is             *)
(* CronRegistry's: here a scheduled task may fire at any moment, and a     *)
(* settlement may be the last of its schedule.                             *)
(***************************************************************************)
EXTENDS BoardRules, Integers, FiniteSets

CONSTANTS
  Tasks,
  Orders,      \* the orders in which a query may return the tasks
  Scheduled,   \* the tasks on a schedule from the start; the others are to be made
  Duplicates,  \* the tasks that an input of create_tasks may turn out to match
  EdgeKinds,   \* the <<requireSuccess, whileBlocked>> of an edge added by hand
  DropLanes,   \* the lanes a user drops cards on
  MaxRows,     \* bound: active rows of one state that one task may have
  MaxEdits     \* bound: how often users step in, or a batch reuses a task

ASSUME DependencyAssumption ==
  /\ IsFiniteSet(Tasks)
  /\ Orders \subseteq [1 .. Cardinality(Tasks) -> Tasks]
  /\ \A order \in Orders :
       /\ {order[i] : i \in DOMAIN order} = Tasks
       /\ \A i, j \in DOMAIN order : order[i] = order[j] => i = j
  /\ Scheduled \subseteq Tasks /\ Duplicates \subseteq Tasks
  /\ EdgeKinds \subseteq BOOLEAN \X BOOLEAN
  /\ DropLanes \subseteq Lanes
  /\ MaxRows \in Nat /\ MaxEdits \in Nat

VARIABLES
  db,          \* the tables of tasks, their active rows and their cohorts
  made,        \* the tasks there is a row of
  edges,       \* the table of dependencies
  reused,      \* history: the tasks that a batch found made and gave dependencies
  waiting,     \* history: made with dependencies, and left to the release since
  unsettled,   \* history: the children of a holder's cohort that have not settled
  astray,      \* history: the holders whose cohort lost a child, or counted one twice
  planned,     \* history: the tasks that have ever been on a schedule
  unplanned,   \* history: the holders whose schedule was dropped while they were held
  edits        \* how often users have stepped in

vars == <<db, made, edges, reused, waiting, unsettled, astray, planned, unplanned, edits>>

RowStates == {"pending", "running", "detaching", "paused"}
NoCohort == [open |-> FALSE, total |-> 0, settled |-> 0, frozen |-> "none"]
Outcomes == {"done", "failed", "cancelled"}
Endings == {"no", "failures", "over"}

\* rows[t][s]: how many active rows of task t are in state s; a detaching row
\* is a running one whose task was taken over.  of: the holder the task is a
\* child of, itself when there is none.
TypeOK ==
  /\ db \in [task: [Tasks -> CardTypes],
             of: [Tasks -> Tasks],
             rows: [Tasks -> [RowStates -> 0..MaxRows]],
             cohort: [Tasks -> [open: BOOLEAN, total: Nat, settled: Nat,
                                frozen: Outcomes \cup {"none"}]]]
  /\ made \subseteq Tasks
  /\ edges \subseteq [task: made, on: made, requireSuccess: BOOLEAN, whileBlocked: BOOLEAN]
  /\ reused \subseteq made
  /\ waiting \subseteq Tasks
  /\ unsettled \in [Tasks -> SUBSET Tasks]
  /\ astray \subseteq Tasks
  /\ planned \subseteq Tasks /\ unplanned \subseteq Tasks
  /\ edits \in 0..MaxEdits

\* createTask
NoSchedule == [enabled |-> FALSE, ended |-> "no"]
NewTask == [status |-> "pending", reason |-> "none", by |-> "agent",
            trigger |-> "manual", config |-> NoSchedule]
NoRows == [s \in RowStates |-> 0]

Init ==
  /\ \E trigger \in [Scheduled -> {"cron_once", "cron_repeat"}] :
       db = [task |-> [t \in Tasks |->
                         IF t \in Scheduled
                         THEN [NewTask EXCEPT !.status = "scheduled", !.trigger = trigger[t],
                                             !.config.enabled = TRUE]
                         ELSE NewTask],
             of |-> [t \in Tasks |-> t],
             rows |-> [t \in Tasks |-> NoRows],
             cohort |-> [t \in Tasks |-> NoCohort]]
  /\ made = Scheduled
  /\ edges = {}
  /\ reused = {}
  /\ waiting = {}
  /\ unsettled = [t \in Tasks |-> {}]
  /\ astray = {}
  /\ planned = Scheduled /\ unplanned = {}
  /\ edits = 0
-----------------------------------------------------------------------------
(* Dependencies                                                            *)

EdgesOf(E, t) == {e \in E : e.task = t}
Dependents(E, t) == {e.task : e \in {e \in E : e.on = t}}

IsEdgeSatisfied(d, e) ==
  \/ /\ e.whileBlocked
     /\ d.task[e.on].status = "blocked"
     /\ d.task[e.on].reason # "awaiting_children"
  \/ d.task[e.on].status = "done"
  \/ ~e.requireSuccess /\ d.task[e.on].status \in {"failed", "cancelled"}

\* Mutant: one satisfied dependency is enough.
IsTaskReadyByAny(d, E, t) == \E e \in EdgesOf(E, t) : IsEdgeSatisfied(d, e)

IsTaskReady(d, E, t) == \A e \in EdgesOf(E, t) : IsEdgeSatisfied(d, e)

IsBroken(d, e) == e.requireSuccess /\ d.task[e.on].status \in {"failed", "cancelled"}
HasBrokenDependency(d, E, t) == \E e \in EdgesOf(E, t) : IsBroken(d, e)

\* b can be reached from a: b is in every set that has a and is closed under E.
Reaches(E, a, b) ==
  \A S \in SUBSET Tasks :
    (a \in S /\ \A e \in E : e.task \in S => e.on \in S) => b \in S

\* Mutant: the search starts at the wrong end.
WouldCreateCycleReversed(E, from, to) == Reaches(E, from, to)

WouldCreateCycle(E, from, to) == Reaches(E, to, from)

ActiveRows(d, t) == {s \in RowStates : d.rows[t][s] > 0}

Enqueued(d, t) == [d EXCEPT !.rows[t]["pending"] = @ + 1]

Busy == {"ready", "running", "waiting_on_user", "blocked"}

WillFire(task) == IsCron(task) /\ task.config.enabled /\ task.config.ended = "no"

\* statusAfterTriggerSave, with statusForSavedSchedule for a cron task.
StatusAfterTriggerSave(task) ==
  CASE task.status \notin Busy /\ WillFire(task) -> "scheduled"
    [] task.status = "scheduled" /\ ~WillFire(task) -> "pending"
    [] OTHER -> task.status

\* Mutant: a dependent with a broken dependency is left as it is.
ReleasedNotBlocked(d, E, t) ==
  IF d.task[t].status = "pending" /\ IsTaskReady(d, E, t)
  THEN Enqueued([d EXCEPT !.task[t].status = "ready", !.task[t].by = "agent"], t)
  ELSE d

\* One dependent of releaseEligibleDependents.
ReleasedOne(d, E, t) ==
  LET task == d.task[t]
  IN CASE task.status # "pending" -> d
       [] task.status = "pending" /\ HasBrokenDependency(d, E, t) ->
            [d EXCEPT !.task[t].status = "blocked", !.task[t].reason = "dependency_failed"]
       [] task.status = "pending" /\ ~HasBrokenDependency(d, E, t) /\ IsTaskReady(d, E, t) ->
            IF IsCron(task) THEN [d EXCEPT !.task[t].status = StatusAfterTriggerSave(task)]
            ELSE Enqueued([d EXCEPT !.task[t].status = "ready", !.task[t].by = "agent"], t)
       [] OTHER -> d

\* releaseEligibleDependents: one dependent after the other, in the order of the
\* query, which has no ORDER BY.
Released(d, E, t, order) ==
  LET after[i \in 0..Cardinality(Tasks)] ==
        IF i = 0 THEN d
        ELSE IF order[i] \in Dependents(E, t) THEN ReleasedOne(after[i - 1], E, order[i])
        ELSE after[i - 1]
  IN after[Cardinality(Tasks)]
-----------------------------------------------------------------------------
(* The settlement of a run                                                 *)

\* settleCronRun.  ends: what the settlement finds of a recurring schedule, its
\* failure budget used up or no fire left; a one-shot's is over once it fired.
CronSettlement(task, outcome, ends) ==
  CASE task.trigger = "cron_once" /\ task.config.ended = "no" ->
         [task EXCEPT !.status = IF task.config.enabled THEN "scheduled" ELSE "pending"]
    [] task.trigger = "cron_once" /\ task.config.ended # "no" ->
         [task EXCEPT !.status = outcome]
    [] task.trigger = "cron_repeat" /\ outcome = "failed" /\ ends = "failures" ->
         [task EXCEPT !.status = "pending", !.config = [enabled |-> FALSE, ended |-> ends]]
    [] task.trigger = "cron_repeat" /\ ~(outcome = "failed" /\ ends = "failures") ->
         IF ~task.config.enabled THEN [task EXCEPT !.status = "pending"]
         ELSE IF ends = "over" THEN [task EXCEPT !.status = "done", !.config.ended = "over"]
         ELSE [task EXCEPT !.status = "scheduled"]

\* Mutant: the reason the holder was held for outlives it.
AppliedKeepsReason(d, E, t, outcome, ends, order) ==
  Released([d EXCEPT !.task[t] = CronSettlement(d.task[t], outcome, ends)], E, t, order)

\* applyCronSettlement
Applied(d, E, t, outcome, ends, order) ==
  Released([d EXCEPT !.task[t] = [CronSettlement(@, outcome, ends) EXCEPT !.reason = "none"]],
           E, t, order)

\* The holder path of settleTaskAfterRun, or the task's own settlement.
SettledSelf(d, E, t, outcome, ends, order) ==
  CASE d.cohort[t].open ->
         [d EXCEPT !.cohort[t].frozen = outcome,
                   !.task[t].status = "blocked", !.task[t].reason = "awaiting_children"]
    [] ~d.cohort[t].open /\ IsCron(d.task[t]) -> Applied(d, E, t, outcome, ends, order)
    [] OTHER -> Released([d EXCEPT !.task[t].status = outcome], E, t, order)

\* Mutant: a cohort resolves one child early.
SettledMemberEarly(d, E, h, ends, order) ==
  IF d.cohort[h].settled + 2 < d.cohort[h].total
  THEN [d EXCEPT !.cohort[h].settled = @ + 1]
  ELSE LET closed == [d EXCEPT !.cohort[h] = NoCohort]
       IN IF d.cohort[h].frozen # "none" /\ IsCron(d.task[h])
          THEN Applied(closed, E, h, d.cohort[h].frozen, ends, order) ELSE closed

\* settleCohortMember, and the settlement of the holder it resolves.  For a
\* holder whose trigger was dropped meanwhile that settlement throws.
SettledMember(d, E, h, ends, order) ==
  IF d.cohort[h].settled + 1 < d.cohort[h].total
  THEN [d EXCEPT !.cohort[h].settled = @ + 1]
  ELSE LET closed == [d EXCEPT !.cohort[h] = NoCohort]
       IN IF d.cohort[h].frozen # "none" /\ IsCron(d.task[h])
          THEN Applied(closed, E, h, d.cohort[h].frozen, ends, order) ELSE closed

\* settleTaskAfterRun
Settled(d, E, t, outcome, ends, order) ==
  LET self == SettledSelf(d, E, t, outcome, ends, order)
      h    == d.of[t]
  IN CASE outcome = "handed_off" -> [d EXCEPT !.task[t].status = "blocked"]
       [] outcome # "handed_off" /\ h # t /\ self.cohort[h].open ->
            SettledMember(self, E, h, ends, order)
       [] OTHER -> self

\* An applyCronSettlement on a holder whose trigger is gone throws, after the
\* child was settled and the cohort row deleted.
Throws(d, t, outcome) ==
  LET c == d.cohort[d.of[t]]
  IN /\ outcome # "handed_off" /\ d.of[t] # t
     /\ c.open /\ c.frozen # "none" /\ c.settled + 1 >= c.total
     /\ ~IsCron(d.task[d.of[t]])

\* The executor's catch settles a run that threw as a failed one.
SettledByExecutor(d, E, t, outcome, ends, order) ==
  LET first == Settled(d, E, t, outcome, ends, order)
  IN IF Throws(d, t, outcome) /\ outcome = "done"
     THEN Settled(first, E, t, "failed", ends, order) ELSE first
-----------------------------------------------------------------------------
(* The board's steps                                                       *)

\* patchTaskHandler, for a patch that makes the task's row new.
Patched(d, t, new) ==
  LET saved == [new EXCEPT !.status = StatusAfterTriggerSave(new)]
      p     == [d EXCEPT !.task[t] = saved]
  IN CASE saved.status = "ready" /\ d.task[t].status = "blocked" /\ d.rows[t]["paused"] > 0 ->
            [p EXCEPT !.rows[t]["paused"] = @ - 1, !.rows[t]["pending"] = @ + 1]
       [] /\ saved.status = "ready" /\ saved.by = "agent"
          /\ IF d.task[t].status = "blocked" THEN d.rows[t]["paused"] = 0
             ELSE ActiveRows(d, t) = {} -> Enqueued(p, t)
       [] OTHER -> p

\* enqueueTaskHandler, when the task has no active row.
RunByHand(d, t) == Enqueued([d EXCEPT !.task[t].status = "ready"], t)

OnceFrom(task) ==
  [task EXCEPT !.trigger = "cron_once", !.config = [enabled |-> TRUE, ended |-> "no"]]

\* Mutant: the paused row is taken to be there.
WithoutPausedBlind(d, t) == [d EXCEPT !.rows[t]["paused"] = @ - 1]

WithoutPaused(d, t) ==
  IF d.rows[t]["paused"] > 0 THEN [d EXCEPT !.rows[t]["paused"] = @ - 1] ELSE d

\* Each step's effect on the tables.
RunStep(d, E, t, step, order) ==
  LET task == d.task[t]
  IN CASE step = "enqueue" -> RunByHand(d, t)
       [] step = "dequeue" -> [d EXCEPT !.rows[t]["pending"] = @ - 1,
                                        !.task[t].status = "pending"]
       [] step = "detach_paused" -> WithoutPaused(d, t)
       [] step = "resume" -> Patched(d, t, [task EXCEPT !.status = "ready"])
       [] step = "patch_pending" -> Patched(d, t, [task EXCEPT !.status = "pending"])
       [] step = "patch_done" -> Patched(d, t, [task EXCEPT !.status = "done"])
       [] step = "disable_trigger" -> Patched(d, t, [task EXCEPT !.config.enabled = FALSE])
       [] step = "enable_trigger" ->
            Patched(d, t, [task EXCEPT !.config = [enabled |-> TRUE, ended |-> "no"]])
       [] step = "clear_trigger" ->
            Patched(d, t, [task EXCEPT !.trigger = "manual", !.config = NoSchedule])
       [] step = "save_cron_once" -> Patched(d, t, OnceFrom(task))
       [] step = "reassign_to_agent" -> Patched(d, t, [task EXCEPT !.by = "agent"])
       [] step = "release_dependents" -> Released(d, E, t, order)
       [] OTHER -> d     \* reorder; pause, whose row is parked by Park

\* A step of a move fails when its own handler refuses it.
StepFails(d, t, step) ==
  \/ step = "enqueue" /\ ActiveRows(d, t) # {}
  \/ step = "dequeue" /\ d.rows[t]["pending"] = 0

\* moveTaskHandler's loop: in order, up to the first failure.
NextStep(move, E, t, step, order) ==
  IF move.failed \/ StepFails(move.d, t, step) THEN [move EXCEPT !.failed = TRUE]
  ELSE [move EXCEPT !.d = RunStep(move.d, E, t, step, order)]

Moved(d, E, t, steps, order) ==
  LET after[i \in 0..Len(steps)] ==
        IF i = 0 THEN [d |-> d, failed |-> FALSE]
        ELSE NextStep(after[i - 1], E, t, steps[i], order)
  IN after[Len(steps)]

CardSource(d, E, t) ==
  SourceOf(d.task[t], \E e \in EdgesOf(E, t) : ~IsEdgeSatisfied(d, e))
-----------------------------------------------------------------------------
(* The handlers                                                            *)

Exists(t) == t \in made

SameGraph == UNCHANGED <<made, edges, reused>>

\* Tasks a user touched, or that moved on, are no longer left to the release.
StillWaiting(touched) ==
  waiting' = {t \in waiting \ touched : db'.task[t].status = "pending"}

SameHistory == UNCHANGED <<unsettled, astray>>

\* What a settlement of t does to the count of the cohort t is a child of.
CountsSettlement(t, outcome) ==
  LET h == db.of[t]
  IN IF outcome # "handed_off" /\ h # t /\ db.cohort[h].open
     THEN /\ unsettled' = [unsettled EXCEPT ![h] = @ \ {t}]
          /\ astray' = IF t \in unsettled[h] THEN astray ELSE astray \cup {h}
     ELSE SameHistory

\* A batch depends on earlier inputs of the batch only, two of which may turn
\* out to be the same task.
BatchEdges(order, K) ==
  {[task |-> p[1], on |-> p[2], requireSuccess |-> TRUE, whileBlocked |-> FALSE] :
     p \in {p \in K \X K :
             \/ p[1] = p[2] /\ p[1] \in made
             \/ \E i, j \in DOMAIN order : j < i /\ order[i] = p[1] /\ order[j] = p[2]}}

\* Of the inputs K some match scheduled tasks, which are left as they are.
MayName(K) == \A t \in K \cap made : t \in Duplicates /\ IsCron(db.task[t])

\* createTasks: a new task with no dependency is enqueued at once.
WithBatch(K, E, holder) ==
  LET new   == K \ made
      ready == {t \in new : EdgesOf(E, t) = {}}
  IN [db EXCEPT
        !.task = [t \in Tasks |-> IF t \in ready THEN [NewTask EXCEPT !.status = "ready"]
                                  ELSE IF t \in new THEN NewTask ELSE @[t]],
        !.of = [t \in Tasks |-> IF t \in new THEN holder[t] ELSE @[t]],
        !.rows = [t \in Tasks |-> IF t \in ready THEN [NoRows EXCEPT !["pending"] = 1] ELSE @[t]]]

\* The rest of createTasks.  A task that depends on a reused one may have been
\* answered before it was made, and no release looks at it again.
AddsBatch(K, E) ==
  /\ MayName(K)
  /\ made' = made \cup K
  /\ edges' = edges \cup E
  /\ reused' = reused \cup {t \in K \cap made : EdgesOf(E, t) # {}}
  /\ waiting' = waiting \cup {t \in K \ made : EdgesOf(E, t) # {}
                                   /\ \A e \in EdgesOf(E, t) : e.on \notin made}

\* create_tasks, from a chat.
CreateTasks(K, E) ==
  /\ AddsBatch(K, E)
  /\ db' = WithBatch(K, E, [t \in K |-> t])
  /\ SameHistory

\* create_tasks with asCohort, from the run of task h.  The inputs are counted,
\* those that are no child of h because they matched a task included.
CreateCohort(h, K, E) ==
  /\ db.rows[h]["running"] > 0
  /\ IsCron(db.task[h]) /\ db.of[h] = h /\ ~db.cohort[h].open
  /\ AddsBatch(K, E)
  /\ db' = [WithBatch(K, E, [t \in K |-> h]) EXCEPT
              !.cohort[h] = [NoCohort EXCEPT !.open = TRUE, !.total = Cardinality(K)]]
  /\ unsettled' = [unsettled EXCEPT ![h] = K \ made]
  /\ astray' = IF K \cap made = {} THEN astray \ {h} ELSE astray \cup {h}

\* dequeueNext: users reorder the queue, so any of its rows may be the first.
Dispatch(t) ==
  /\ db.rows[t]["pending"] > 0
  /\ \A u \in Tasks : db.task[u].status \notin {"running", "waiting_on_user"}
  /\ db' = [db EXCEPT !.rows[t]["pending"] = @ - 1, !.rows[t]["running"] = @ + 1,
                      !.task[t].status = "running"]
  /\ StillWaiting({})
  /\ SameHistory /\ SameGraph

\* completeQueueEntry
Finish(t, outcome, ends, order) ==
  /\ db.rows[t]["running"] > 0
  /\ db' = SettledByExecutor([db EXCEPT !.rows[t]["running"] = @ - 1],
                             edges, t, outcome, ends, order)
  /\ CountsSettlement(t, outcome)
  /\ StillWaiting({}) /\ SameGraph

\* parkQueueEntry
Parked(d, E, t, order) ==
  Released([d EXCEPT !.rows[t]["running"] = @ - 1, !.rows[t]["paused"] = @ + 1,
                     !.task[t].status = "blocked"], E, t, order)

\* A pause of a running task, once its executor has parked the row.
Park(t, order) ==
  /\ db.task[t].status = "running" /\ db.rows[t]["running"] > 0
  /\ db' = Parked(db, edges, t, order)
  /\ StillWaiting({}) /\ SameHistory /\ SameGraph

\* fireCronTask, from a timer.
Fire(t) ==
  /\ db.task[t].status = "scheduled" /\ WillFire(db.task[t])
  /\ db' = Enqueued([db EXCEPT !.task[t].status = "ready", !.task[t].by = "agent",
                               !.task[t].config.ended =
                                  IF db.task[t].trigger = "cron_once" THEN "over" ELSE @], t)
  /\ StillWaiting({}) /\ SameHistory /\ SameGraph

\* enqueueTaskHandler: the drawer's Run now asks for no dependency.
RunNow(t) ==
  /\ Exists(t) /\ ActiveRows(db, t) = {}
  /\ db' = RunByHand(db, t)
  /\ StillWaiting({t}) /\ SameHistory /\ SameGraph

\* cancelTaskHandler, for a queued task.
Cancel(t, ends, order) ==
  /\ db.task[t].status = "ready"
  /\ IF db.rows[t]["pending"] > 0
     THEN /\ db' = Settled([db EXCEPT !.rows[t]["pending"] = @ - 1],
                           edges, t, "cancelled", ends, order)
          /\ CountsSettlement(t, "cancelled")
          /\ StillWaiting({})
     ELSE /\ db' = [db EXCEPT !.task[t].status = "cancelled"]
          /\ SameHistory
          /\ StillWaiting(Dependents(edges, t))
  /\ SameGraph

\* takeOverTaskHandler
TakeOver(t) ==
  LET task  == db.task[t]
      taken == [db EXCEPT !.task[t] = [@ EXCEPT !.status = "pending", !.by = "user",
                                                !.reason = "none"]]
  IN /\ \/ task.status \in {"ready", "running"}
        \/ task.status = "blocked" /\ task.reason = "dependency_failed"
     /\ db' = CASE task.status = "running" /\ db.rows[t]["running"] > 0 ->
                     [taken EXCEPT !.rows[t]["running"] = @ - 1, !.rows[t]["detaching"] = @ + 1]
                [] task.status # "running" /\ db.rows[t]["pending"] > 0 ->
                     [taken EXCEPT !.rows[t]["pending"] = @ - 1]
                [] OTHER -> taken
     /\ StillWaiting({t}) /\ SameHistory /\ SameGraph

\* detachQueueEntry, when the taken-over run's executor has stopped.
Detach(t) ==
  /\ db.rows[t]["detaching"] > 0
  /\ db' = [db EXCEPT !.rows[t]["detaching"] = @ - 1]
  /\ StillWaiting({}) /\ SameHistory /\ SameGraph

\* addTaskDependencyHandler; every task here is in one workspace.
AddEdge(t, u, kind) ==
  /\ Exists(t) /\ Exists(u) /\ t # u
  /\ db.task[u].trigger # "cron_repeat"
  /\ db.task[t].status = "pending"
  /\ ~\E e \in edges : e.task = t /\ e.on = u
  /\ ~WouldCreateCycle(edges, t, u)
  /\ edges' = edges \cup {[task |-> t, on |-> u,
                           requireSuccess |-> kind[1], whileBlocked |-> kind[2]]}
  /\ UNCHANGED <<db, made, reused>>
  /\ StillWaiting({t}) /\ SameHistory

\* removeTaskDependencyHandler
RemoveEdge(e) ==
  /\ db.task[e.task].status = "pending"
  /\ edges' = edges \ {e}
  /\ db' = IF db.task[e.task].by = "agent" /\ IsTaskReady(db, edges \ {e}, e.task)
           THEN Enqueued([db EXCEPT !.task[e.task].status = "ready"], e.task)
           ELSE db
  /\ StillWaiting({}) /\ SameHistory /\ UNCHANGED <<made, reused>>

PlanMove(t, to) ==
  PlanFrom(db.task[t], db.rows[t]["pending"] > 0, CardSource(db, edges, t), to)

\* moveTaskHandler
Move(t, to, order) ==
  /\ Exists(t)
  /\ LET plan == PlanMove(t, to)
     IN plan # Rejected /\ db' = Moved(db, edges, t, plan, order).d
  /\ StillWaiting({t}) /\ SameHistory /\ SameGraph

\* deleteTaskHandler.  The foreign key of task_cohorts keeps a holder in place.
Delete(t) ==
  /\ Exists(t) /\ ActiveRows(db, t) = {} /\ ~db.cohort[t].open
  /\ db' = [db EXCEPT !.task[t] = NewTask, !.of[t] = t]
  /\ made' = made \ {t}
  /\ edges' = {e \in edges : e.task # t /\ e.on # t}
  /\ reused' = reused \ {t}
  /\ StillWaiting({t} \cup Dependents(edges, t))
  /\ LET h == db.of[t]
     IN astray' = IF h # t /\ t \in unsettled[h] THEN astray \cup {h} ELSE astray
  /\ UNCHANGED unsettled

\* Bound: the active rows of a task.
FewRows == \A t \in Tasks, s \in RowStates : db'.rows[t][s] <= MaxRows

\* What a settlement of t may find of the schedule it settles.
EndingsFor(t) ==
  IF \E u \in {t, db.of[t]} : db.task[u].trigger = "cron_repeat" THEN Endings ELSE {"no"}

Batch(K) == \E order \in Orders : \E E \in SUBSET BatchEdges(order, K) :
              CreateTasks(K, E) \/ \E h \in Tasks : CreateCohort(h, K, E)

\* The queue, its executors, the timers and the tools of a run.
System ==
  \/ \E K \in (SUBSET (Tasks \ made)) \ {{}} : Batch(K)
  \/ \E t \in Tasks :
       \/ Dispatch(t) \/ Fire(t) \/ Detach(t)
       \/ \E order \in Orders, outcome \in Outcomes \cup {"handed_off"}, ends \in EndingsFor(t) :
            Finish(t, outcome, ends, order)

\* Users, and a chat that asks for a task that is there already.
User ==
  \/ \E K \in SUBSET Tasks : K \cap made # {} /\ Batch(K)
  \/ \E t \in Tasks :
       \/ RunNow(t) \/ TakeOver(t) \/ Delete(t)
       \/ \E u \in Tasks, kind \in EdgeKinds : AddEdge(t, u, kind)
       \/ \E order \in Orders :
            \/ Park(t, order)
            \/ \E to \in DropLanes : Move(t, to, order)
            \/ \E ends \in EndingsFor(t) : Cancel(t, ends, order)
  \/ \E e \in edges : RemoveEdge(e)

Next ==
  /\ \/ System /\ UNCHANGED edits
     \/ User /\ edits < MaxEdits /\ edits' = edits + 1
  /\ planned' = {t \in made' : t \in planned \/ IsCron(db'.task[t])}
  /\ unplanned' = {t \in {t \in Tasks : db'.task[t].reason = "awaiting_children"} :
                      t \in unplanned \/ ~IsCron(db'.task[t])}
  /\ FewRows

Spec == Init /\ [][Next]_vars
-----------------------------------------------------------------------------
(* Properties                                                              *)

\* No task waits, however indirectly, for itself, whatever batches and edges by
\* hand come together: but for what a batch gave a task it reused, every cycle
\* is ruled out by its order or found by addTaskDependencyHandler's search.
EdgesAcyclic ==
  \A S \in (SUBSET (Tasks \ reused)) \ {{}} :
    \E t \in S : \A e \in EdgesOf(edges, t) : e.on \notin S

\* A task that create_tasks left to the release, all of whose dependencies were
\* new, is never left behind by it: one of its dependencies is open, and none has
\* failed for good.
WaitersAreWaiting ==
  \A t \in waiting :
    /\ \E e \in EdgesOf(edges, t) : db.task[e.on].status # "done"
    /\ \A e \in EdgesOf(edges, t) : db.task[e.on].status \notin {"failed", "cancelled"}

\* A card that shows a holder waiting for its children belongs to a cohort that
\* will release it: the row is there, with the outcome it will apply.  (A holder
\* whose schedule was dropped while its children were out is lost: see Throws.)
AwaitingHasFrozenCohort ==
  \A t \in Tasks \ unplanned :
    db.task[t].status = "blocked" /\ db.task[t].reason = "awaiting_children"
      => db.cohort[t].open /\ db.cohort[t].frozen # "none"

\* A settlement that throws is made again as that of a failed run.
SettledTwice(t) ==
  LET h == db.of[t]
  IN h # t /\ db.cohort[h].open /\ db.cohort[h].frozen # "none" /\ ~IsCron(db.task[h])

\* What a dependent may take for an answer from its target, by the edge's terms.
Answers(e) ==
  LET target == db'.task[e.on]
  IN \/ target.status = "done"
     \/ ~e.requireSuccess /\ target.status \in Outcomes
     \/ e.whileBlocked /\ target.status = "blocked" /\ target.reason # "awaiting_children"
     \/ db.cohort[e.on].open \/ SettledTwice(e.on)

\* The settlement of a run, or the removal of a dependency, queues no task but
\* those all of whose dependencies have answered, through however many releases
\* it sets off.  (A target that holds a cohort may be settled again by the same
\* step, after it answered.)
ReleasedOnlyWhenMet ==
  [][\A t \in Tasks :
       (edits' = edits \/ edges' # edges)
          /\ db.task[t].status = "pending" /\ db'.task[t].status = "ready"
         => \A e \in EdgesOf(edges', t) : Answers(e)]_vars

\* A cohort closes with the settlement of the last of its children and not
\* before, whatever the order they are run, cancelled and settled in: unless a
\* child was deleted or run twice.
CohortClosesWithLastChild ==
  [][\A t \in Tasks :
       db.cohort[t].open /\ t \notin astray'
         => (~db'.cohort[t].open <=> unsettled'[t] = {})]_vars

\* "A task blocked by a failed required dependency never had a queue row"
\* (patchTaskHandler): what Resume and take-over rely on.
FailedDependencyHasNoRow ==
  \A t \in Tasks :
    db.task[t].status = "blocked" /\ db.task[t].reason = "dependency_failed"
      => ActiveRows(db, t) = {}

\* A card shows a parked run, and it is the task's only one, unless the task was
\* run by hand over a failed dependency: its reason then hides the run
\* (FailedDependencyHasNoRow), and a take-over leaves the run behind.
ShowsItsRun(t) ==
  db.rows[t]["paused"] > 0 =>
    db.rows[t]["paused"] = 1 /\ CardSource(db, edges, t) = "blocked_paused"

\* A move of a task made without a schedule that reports success takes the card to
\* the lane it was dropped on and, off the queue, leaves no queued or parked
\* run behind: whatever rows the task has by then.
MovesLand ==
  \A t \in made \ planned, to \in Lanes \ {"attention"} :
    LET plan == PlanMove(t, to)
    IN plan # Rejected /\ ShowsItsRun(t) =>
         \A order \in Orders :
           LET move == Moved(db, edges, t, plan, order)
           IN ~move.failed =>
                /\ LaneOf(CardSource(move.d, edges, t)) = to
                /\ to \in {"backlog", "done"} =>
                     move.d.rows[t]["pending"] = 0 /\ move.d.rows[t]["paused"] = 0
=============================================================================
