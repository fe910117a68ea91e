----------------------------- MODULE TaskQueue -----------------------------
(***************************************************************************)
(* The task queue of the API: the tasks and task_queue tables              *)
(* (services/workspace-store.ts), the scheduler that dispatches from them  *)
(* (services/task-scheduler.ts), the executor of a run                     *)
(* (agents/task-execution.ts) with its abort registry                      *)
(* (agents/active-task-abort.ts), and the handlers users reach them by     *)
(* (routes/v1/tasks.handlers.ts).                                          *)
(*                                                                         *)
(* The store is synchronous and Node runs one handler at a time, so every  *)
(* handler is one step, the scheduler wake its route ends with included.   *)
(* An executor awaits its agent, so its run is several steps; users act    *)
(* and the process may die between any two.                                *)
(*                                                                         *)
(* Schedules, dependencies and cohorts have tables of their own and are    *)
(* not in this module: its tasks are triggered by hand and independent.    *)
(***************************************************************************)
EXTENDS Integers

CONSTANTS
  Tasks,
  SubAgents,     \* the tasks of origin 'agent', made by spawn_sub_agent
  ScopeOf,       \* the workspace of each task, or the Inbox
  Runs,          \* row ids; a closed row's id is used again
  Edits,         \* the status changes <<from, to>> a drawer Save may carry
  Deletable,     \* the tasks a user may delete
  NoTask

UserTasks == Tasks \ SubAgents

\* All but 'scheduled', which only a task with a cron trigger can have.
TaskStatuses == {"pending", "ready", "running", "waiting_on_user", "blocked",
                 "done", "failed", "cancelled"}

\* The edits of the drawer's buttons and the board: Resume, and hand over,
\* tick off or bring back a task that is not queued.
Deliberate == {<<"blocked", "ready">>, <<"pending", "ready">>,
               <<"pending", "done">>, <<"failed", "pending">>}

ASSUME QueueAssumption ==
  /\ SubAgents \subseteq Tasks
  /\ NoTask \notin Tasks
  /\ DOMAIN ScopeOf = Tasks
  /\ Edits \subseteq TaskStatuses \X TaskStatuses
  /\ Deletable \subseteq UserTasks

VARIABLES
  db,            \* the two tables; survives a crash
  exec,          \* the executors and their abort entries, by row
  prompts        \* the tasks that have ever put a question to the user

vars == <<db, exec, prompts>>

NoRow == [task |-> NoTask, state |-> "none", attempts |-> 0]
NoExec == [phase |-> "none", intent |-> "none"]

\* A row's state leaves out the terminal ones: a closed row is history.
RowType == [task: Tasks \cup {NoTask},
            state: {"none", "pending", "running", "paused"},
            attempts: 0..1]

\* status "absent": not created yet, or deleted.  before: the pairs <<q, r>> of
\* active rows such that q's position is below r's.  answered: the tasks with
\* a resume_answer.
DbType == [status: [Tasks -> TaskStatuses \cup {"absent"}],
           assignedTo: [Tasks -> {"user", "agent"}],
           row: [Runs -> RowType],
           before: SUBSET (Runs \X Runs),
           answered: SUBSET UserTasks]

ExecType == [phase: {"none", "starting", "streaming", "closing"},
             intent: {"none", "cancel", "pause", "take-over"}]

TypeOK ==
  /\ db \in DbType
  /\ exec \in [Runs -> ExecType]
  /\ prompts \subseteq UserTasks

Init ==
  /\ db = [status     |-> [t \in Tasks |-> IF t \in SubAgents THEN "absent" ELSE "pending"],
           assignedTo |-> [t \in Tasks |-> IF t \in SubAgents THEN "agent" ELSE "user"],
           row        |-> [r \in Runs |-> NoRow],
           before     |-> {},
           answered   |-> {}]
  /\ exec = [r \in Runs |-> NoExec]
  /\ prompts = {}
-----------------------------------------------------------------------------
(* The store's statements, as functions of the tables.                     *)

TaskOf(d, r) == d.row[r].task
RowsOf(d, t) == {r \in Runs : TaskOf(d, r) = t}
RowsIn(d, t, state) == {r \in RowsOf(d, t) : d.row[r].state = state}

WithTask(d, t, s, a) == [d EXCEPT !.status[t] = s, !.assignedTo[t] = a]

ActiveRows(d) == {r \in Runs : d.row[r] # NoRow}

\* enqueueTask: max(position) + 1 over the active rows is after all of them.
Enqueued(d, r, t) ==
  [d EXCEPT !.row[r] = [task |-> t, state |-> "pending", attempts |-> 0],
            !.before = @ \cup (ActiveRows(d) \X {r})]

Closed(d, r) ==
  [d EXCEPT !.row[r] = NoRow,
            !.before = {p \in @ : p[1] # r /\ p[2] # r}]

\* Mutant: the row is closed, the task is not settled.
CompletedRowOnly(d, r, outcome) == Closed(d, r)

\* Mutant: a hand-off is mirrored by its own name.
CompletedAsIs(d, r, outcome) == [Closed(d, r) EXCEPT !.status[TaskOf(d, r)] = outcome]

\* completeQueueEntry: the run's outcome overwrites the task's status,
\* whatever that is by now.
Completed(d, r, outcome) ==
  [Closed(d, r) EXCEPT !.status[TaskOf(d, r)] =
     IF outcome = "handed_off" THEN "blocked" ELSE outcome]

Parked(d, r) ==
  [d EXCEPT !.row[r].state = "paused", !.status[TaskOf(d, r)] = "blocked"]

ParkedForHitl(d, r) ==
  [d EXCEPT !.row[r].state = "paused",
            !.status[TaskOf(d, r)] = "waiting_on_user",
            !.assignedTo[TaskOf(d, r)] = "user"]

Resumed(d, r) == [d EXCEPT !.row[r].state = "pending"]

\* Mutant: no scope is ever busy.
OccupiedNever(d, scope) == FALSE

\* dequeueNext's runningScopes: a sub-agent occupies no scope, and a task
\* waiting for an answer still occupies its own.
Occupied(d, scope) ==
  \E t \in UserTasks :
    ScopeOf[t] = scope /\ d.status[t] \in {"running", "waiting_on_user"}

Contends(d, r) == d.row[r].state = "pending" /\ TaskOf(d, r) \in UserTasks

Overtaken(d, r) ==
  \E q \in Runs :
    /\ <<q, r>> \in d.before
    /\ Contends(d, q)
    /\ ScopeOf[TaskOf(d, q)] = ScopeOf[TaskOf(d, r)]

Dispatchable(d, r) ==
  /\ d.row[r].state = "pending"
  /\ \/ TaskOf(d, r) \in SubAgents
     \/ ~Occupied(d, ScopeOf[TaskOf(d, r)]) /\ ~Overtaken(d, r)

\* tick(): dequeueNext until it finds nothing.  Each call occupies the scope
\* it takes from, so the loop takes the first row of every free scope.
Dispatched(d) ==
  LET taken == {r \in Runs : Dispatchable(d, r)} IN
  [d EXCEPT
    !.row = [r \in Runs |-> IF r \in taken THEN [@[r] EXCEPT !.state = "running"]
                                           ELSE @[r]],
    !.status = [t \in Tasks |-> IF t \in {TaskOf(d, r) : r \in taken}
                                THEN "running" ELSE @[t]]]

\* wake(): the tables become d after a tick, the executors e with one more
\* for each row taken, its abort entry registered before its first await.
Wake(d, e) ==
  LET after == Dispatched(d) IN
  /\ db' = after
  /\ exec' = [r \in Runs |->
                IF after.row[r].state = "running" /\ d.row[r].state = "pending"
                THEN [phase |-> "starting", intent |-> "none"] ELSE e[r]]

Unused(r) == db.row[r] = NoRow /\ exec[r] = NoExec
-----------------------------------------------------------------------------
(* The users' handlers.  A refused request (409, 400) changes nothing and  *)
(* is no step.                                                             *)

\* patchTaskHandler: Save in the task drawer, which sends back the status it
\* was opened with, or the one picked there; Resume and the board's moves
\* are such a patch too.
Save(t, s, a) ==
  LET from == db.status[t]
      d    == WithTask(db, t, s, a) IN
  /\ s = from \/ <<from, s>> \in Edits
  /\ from \in {"ready", "running"} /\ db.assignedTo[t] = "agent" => a = "agent"
  /\ IF from = "blocked" /\ s = "ready"
     THEN \/ \E r \in RowsIn(d, t, "paused") : Wake(Resumed(d, r), exec)
          \/ /\ RowsIn(d, t, "paused") = {}
             /\ IF a = "agent"
                THEN \E r \in Runs : Unused(r) /\ Wake(Enqueued(d, r, t), exec)
                ELSE Wake(d, exec)
     ELSE IF a = "agent" /\ s = "ready" /\ RowsOf(d, t) = {}
          THEN \E r \in Runs : Unused(r) /\ Wake(Enqueued(d, r, t), exec)
          ELSE Wake(d, exec)
  /\ UNCHANGED prompts

\* Mutant: the check for an active row is dropped.
RunNowAgain(t) ==
  /\ \E r \in Runs :
       /\ Unused(r)
       /\ Wake([Enqueued(db, r, t) EXCEPT !.status[t] = "ready"], exec)
  /\ UNCHANGED prompts

\* enqueueTaskHandler: Run now, a webhook, a move to the Queue lane.
RunNow(t) ==
  /\ RowsOf(db, t) = {}
  /\ \E r \in Runs :
       /\ Unused(r)
       /\ Wake([Enqueued(db, r, t) EXCEPT !.status[t] = "ready"], exec)
  /\ UNCHANGED prompts

\* getRunningEntry: some running row of the scope; with two, any (LIMIT 1
\* without an order).
RunningEntries(t) ==
  {r \in Runs : /\ db.row[r].state = "running"
                /\ TaskOf(db, r) \in UserTasks
                /\ ScopeOf[TaskOf(db, r)] = ScopeOf[t]}

\* setAbortIntent and abort(): the last intent wins.
Aborting(r, intent) == [exec EXCEPT ![r].intent = intent]
Abortable(r) == exec[r].phase # "none"

CancelRunning(t) ==
  /\ db.status[t] = "running"
  /\ \E r \in RunningEntries(t) :
       TaskOf(db, r) = t /\ Abortable(r) /\ Wake(db, Aborting(r, "cancel"))
  /\ UNCHANGED prompts

CancelReady(t) ==
  /\ db.status[t] = "ready"
  /\ \/ \E r \in RowsIn(db, t, "pending") : Wake(Completed(db, r, "cancelled"), exec)
     \/ /\ RowsIn(db, t, "pending") = {}
        /\ Wake([db EXCEPT !.status[t] = "cancelled"], exec)
  /\ UNCHANGED prompts

Pause(t) ==
  /\ db.status[t] = "running"
  /\ \E r \in RunningEntries(t) :
       TaskOf(db, r) = t /\ Abortable(r) /\ Wake(db, Aborting(r, "pause"))
  /\ UNCHANGED prompts

\* Mutant: any blocked task can be taken over.
CanTakeOverBlocked(t) == db.status[t] \in {"ready", "running", "blocked"}

CanTakeOver(t) == db.status[t] \in {"ready", "running"}

\* takeOverTaskHandler: the reassignment first, then the run is told.
TakeOver(t) ==
  LET d == WithTask(db, t, "pending", "user") IN
  /\ CanTakeOver(t)
  /\ IF db.status[t] = "running"
     THEN \/ \E r \in RunningEntries(t) :
               IF TaskOf(db, r) # t THEN Wake(d, exec)
               ELSE IF Abortable(r) THEN Wake(d, Aborting(r, "take-over"))
               ELSE Wake(Closed(d, r), exec)
          \/ RunningEntries(t) = {} /\ Wake(d, exec)
     ELSE \/ \E r \in RowsIn(db, t, "pending") : Wake(Closed(d, r), exec)
          \/ RowsIn(db, t, "pending") = {} /\ Wake(d, exec)
  /\ UNCHANGED prompts

\* answerTaskPrompt: the card may be an old one, or a second copy of one
\* that has been answered.
Answer(t) ==
  LET d == [WithTask(db, t, "ready", "agent") EXCEPT !.answered = @ \cup {t}] IN
  /\ t \in prompts
  /\ \/ \E r \in RowsIn(db, t, "paused") : Wake(Resumed(d, r), exec)
     \/ /\ RowsIn(db, t, "paused") = {}
        /\ db.status[t] = "waiting_on_user"
        /\ \E r \in Runs : Unused(r) /\ Wake(Enqueued(d, r, t), exec)
  /\ UNCHANGED prompts

\* moveTaskHandler, out of the Queue lane: dequeueTask deletes the pending row.
MoveOutOfQueue(t, s) ==
  /\ db.status[t] = "ready"
  /\ \E r \in RowsIn(db, t, "pending") :
       Wake([Closed(db, r) EXCEPT !.status[t] = s], exec)
  /\ UNCHANGED prompts

\* moveTaskHandler, out of Needs attention: detach_paused, patch_status.  A
\* task that was handed off has no paused row.
Shelve(t, s) ==
  /\ db.status[t] = "blocked"
  /\ \/ \E r \in RowsIn(db, t, "paused") :
          Wake([Closed(db, r) EXCEPT !.status[t] = s], exec)
     \/ /\ RowsIn(db, t, "paused") = {}
        /\ Wake([db EXCEPT !.status[t] = s], exec)
  /\ UNCHANGED prompts

\* deleteTaskHandler: its route is the only one that does not wake.
Delete(t) ==
  /\ t \in Deletable
  /\ RowsOf(db, t) = {}
  /\ db' = [db EXCEPT !.status[t] = "absent"]
  /\ UNCHANGED <<exec, prompts>>

UserStep(t) ==
  /\ db.status[t] # "absent"
  /\ \/ \E s \in TaskStatuses, a \in {"user", "agent"} : Save(t, s, a)
     \/ RunNow(t) \/ CancelRunning(t) \/ CancelReady(t) \/ Pause(t)
     \/ TakeOver(t) \/ Answer(t) \/ Delete(t)
     \/ \E s \in {"pending", "done"} : MoveOutOfQueue(t, s) \/ Shelve(t, s)

\* spawn_sub_agent: createSubAgentTask, then a wake.
Spawn(t) ==
  /\ db.status[t] = "absent"
  /\ \E r \in Runs :
       /\ Unused(r)
       /\ Wake(Enqueued(WithTask(db, t, "ready", "agent"), r, t), exec)
  /\ UNCHANGED prompts
-----------------------------------------------------------------------------
(* executeTask.                                                            *)

Phase(r, phase) == [exec EXCEPT ![r].phase = phase]

\* The row is settled; what is left are awaits (git, the Task File, the
\* notification of a parent agent) before the executor returns.
Settle(r, outcome) ==
  /\ db' = Completed(db, r, outcome)
  /\ exec' = Phase(r, "closing")
  /\ UNCHANGED prompts

\* The thread and the workspace are resolved, the user's answer, if any, is
\* taken off the task, and the stream begins ...
Begin(r) ==
  /\ exec[r].phase = "starting"
  /\ db' = [db EXCEPT !.answered = @ \ {TaskOf(db, r)}]
  /\ exec' = Phase(r, "streaming")
  /\ UNCHANGED prompts

\* ... or not; an abort in the meantime is not looked at.
SetupFails(r) == exec[r].phase = "starting" /\ Settle(r, "failed")

\* The stream ends by itself: complete_task, hand_off_task, or neither.  An
\* abort that came too late to break it is not looked at.
Finish(r) ==
  /\ exec[r].phase = "streaming"
  /\ \E outcome \in {"done", "failed", "handed_off"} : Settle(r, outcome)

\* ask_user: nothing of the run is left to await, so it returns at once.
Ask(r) ==
  /\ exec[r].phase = "streaming"
  /\ TaskOf(db, r) \in UserTasks
  /\ Wake(ParkedForHitl(db, r), [exec EXCEPT ![r] = NoExec])
  /\ prompts' = prompts \cup {TaskOf(db, r)}

\* The stream throws because it was aborted: the intent says what for.
Aborted(r) ==
  /\ exec[r].phase = "streaming"
  /\ \/ exec[r].intent = "cancel" /\ Settle(r, "cancelled")
     \/ /\ exec[r].intent = "pause"
        /\ Wake(Parked(db, r), [exec EXCEPT ![r] = NoExec])
        /\ UNCHANGED prompts
     \/ /\ exec[r].intent = "take-over"
        /\ db' = Closed(db, r)
        /\ exec' = Phase(r, "closing")
        /\ UNCHANGED prompts

\* Mutant: the finally does not wake.
ReturnSilently(r) ==
  /\ exec[r].phase = "closing"
  /\ exec' = [exec EXCEPT ![r] = NoExec]
  /\ UNCHANGED <<db, prompts>>

\* The executor returns and runTask's finally wakes the scheduler.
Return(r) ==
  /\ exec[r].phase = "closing"
  /\ Wake(db, [exec EXCEPT ![r] = NoExec])
  /\ UNCHANGED prompts

ExecutorStep(r) ==
  Begin(r) \/ SetupFails(r) \/ Finish(r) \/ Ask(r) \/ Aborted(r) \/ Return(r)

(***************************************************************************)
(* The process dies and starts again: recoverRunningQueueEntries retries   *)
(* every running row once and gives up on the second crash, then the       *)
(* scheduler starts with a wake.  The first of a task's rows settles its   *)
(* status, should it have two.                                             *)
(***************************************************************************)
\* Mutant: the rows of the dead process stay as they were.
RecoveredNothing(d) == d

GivenUp(d, r) == d.row[r].state = "running" /\ d.row[r].attempts = 1

Recovered(d) ==
  LET stuck(t) == RowsIn(d, t, "running")
      hit(t) == stuck(t) # {} /\ d.status[t] = "running"
      lost(t) == hit(t) /\ \E r \in stuck(t) :
                   GivenUp(d, r) /\ \A q \in stuck(t) : <<q, r>> \notin d.before IN
  [status     |-> [t \in Tasks |->
                     IF ~hit(t) THEN d.status[t]
                     ELSE IF ~lost(t) THEN "ready"
                     ELSE IF t \in SubAgents THEN "failed" ELSE "waiting_on_user"],
   assignedTo |-> [t \in Tasks |-> IF lost(t) /\ t \in UserTasks
                                   THEN "user" ELSE d.assignedTo[t]],
   row        |-> [r \in Runs |->
                     IF GivenUp(d, r) THEN NoRow
                     ELSE IF d.row[r].state = "running"
                     THEN [task |-> TaskOf(d, r), state |-> "pending", attempts |-> 1]
                     ELSE d.row[r]],
   before     |-> {p \in d.before : ~GivenUp(d, p[1]) /\ ~GivenUp(d, p[2])},
   answered   |-> d.answered]

Restart ==
  /\ Wake(Recovered(db), [r \in Runs |-> NoExec])
  /\ UNCHANGED prompts

Next ==
  \/ \E t \in UserTasks : UserStep(t)
  \/ \E t \in SubAgents : Spawn(t)
  \/ \E r \in Runs : ExecutorStep(r)
  \/ Restart

\* Model calls time out and agents have a recursion limit, so every run ends
\* and every executor returns.  Users and crashes get no fairness.
Fairness ==
  \A r \in Runs : WF_vars(ExecutorStep(r))

Spec == Init /\ [][Next]_vars /\ Fairness
-----------------------------------------------------------------------------
Active(r) == exec[r].phase \in {"starting", "streaming"}

\* A row is running exactly while an executor in this process works on it:
\* a crash, a late abort or a settled row never leaves one without the other.
ExecutorOwnsRow == \A r \in Runs : (db.row[r].state = "running") = Active(r)

\* "One active run per task": however it is enqueued, resumed, answered or
\* recovered, a task never has two rows in the queue.
OneActiveRun ==
  \A q, r \in Runs :
    TaskOf(db, q) = TaskOf(db, r) /\ db.row[q] # NoRow => q = r

\* A parked run can be reached: its task is paused (Resume, or a move to
\* Backlog) or waits for an answer.
ParkedIsReachable ==
  \A r \in Runs :
    db.row[r].state = "paused" =>
      db.status[TaskOf(db, r)] \in {"blocked", "waiting_on_user"}

\* A task that shows as running, and so holds its scope, has a run that will
\* end: the scope is not held by nobody.
RunningHasRun ==
  \A t \in Tasks : db.status[t] = "running" => RowsIn(db, t, "running") # {}

\* Work that could start has a wake coming: wherever a scope is freed
\* without one, an executor is about to return.
NoStrandedWork ==
  (\E r \in Runs : Dispatchable(db, r)) => \E r \in Runs : exec[r].phase = "closing"

SameScope(q, r) ==
  /\ {TaskOf(db, q), TaskOf(db, r)} \subseteq UserTasks
  /\ ScopeOf[TaskOf(db, q)] = ScopeOf[TaskOf(db, r)]

\* Two runs of one workspace overlap only where a task was taken over, which
\* frees its scope before its run is aborted: never do both show as running.
OneShownRunPerScope ==
  \A q, r \in Runs :
    /\ Active(q) /\ Active(r) /\ SameScope(q, r)
    /\ db.status[TaskOf(db, q)] = "running"
    /\ db.status[TaskOf(db, r)] = "running"
    => q = r

\* A taken-over task stays as its new owner has it, "no matter how the abort
\* resolves": the end of its run does not write its status.
TakeOverStands ==
  [][\A r \in Runs :
       exec[r].intent = "take-over" /\ Active(r) /\ exec'[r].phase = "closing"
         => db'.status[TaskOf(db, r)] = db.status[TaskOf(db, r)]]_vars

\* An answer is given only to a task that waits for one: a stale card never
\* reopens a task that has moved on.
AnswerWakesOnlyWaiting ==
  [][\A t \in db'.answered \ db.answered : db.status[t] = "waiting_on_user"]_vars

\* A queued run starts, unless it is taken out of the queue, once users have
\* answered what was asked: no scope is held for ever.
QueuedIsServed ==
  <>[](\A t \in UserTasks : db.status[t] # "waiting_on_user") =>
     \A r \in Runs : db.row[r].state = "pending" ~> db.row[r].state # "pending"
=============================================================================
