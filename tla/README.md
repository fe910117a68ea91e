# amazing-hashbrown in TLA+

A verification project for the API server of amazing-hashbrown, a locally hosted
harness for LLM agents (`src/api`, Express, LangGraph and SQLite). It models the
parts of the server whose correctness depends on the order in which things
happen: who may call a provider, who may run on a thread, which task runs when,
and what wakes a task or a thread that waits for a time.

All paths below are relative to `src/api/src` unless they start with `lib/` or
`ui/`.

## 1. Inventory

| Component | State | Operations | Hard part | What makes it correct |
|---|---|---|---|---|
| Provider queue `services/provider-queue.ts` | per provider: `activeCount`, `syncQueue`, `asyncQueue` | `acquireSlot`, `releaseSlot`, abort listener, `withSlot` | abort against dispatch; nothing polls the queue | no slot lost or doubled, interactive first, FIFO, no waiter beside a free slot |
| Thread turns `agents/active-sse-writer.ts`, `agents/pending-thread-turns.ts`, the stream handlers, `agents/headless-turn.ts` | `_writers`, `_controllers`, `_queues` | busy check, register, defer, drain, stop, end | check and registration separated by awaits; a failing `finally` | one turn at a time, deferred turns run once and in order |
| Task queue `services/workspace-store.ts`, `services/task-scheduler.ts`, `agents/task-execution.ts`, `agents/active-task-abort.ts`, `routes/v1/tasks.handlers.ts` | `tasks`, `task_queue`, abort registry | enqueue, dispatch, run, park, resume, answer, cancel, pause, take over, delete, recover | user acts between two awaits of a run; crashes; event-driven wake | one run per task, one shown run per workspace, every running row has an executor, no stranded work |
| Board moves `services/board-rules.ts`, `routes/v1/tasks-board.handlers.ts` | none of its own | a move is a list of task operations | the plan's steps run one after another | a move ends in the lane it names, and off the queue leaves no run behind |
| Dependencies, cohorts (in `workspace-store.ts`), `agents/tools/create-tasks.tool.ts` | `task_dependencies`, `task_cohorts` | add and remove an edge, batch, release, open, freeze, settle | counting settlements of children that rerun, hand off or vanish; edges from three places | no task waits for itself; a dependent starts when and only when its edges allow; a cohort closes with its last child |
| Cron `services/cron-registry.ts`, `cron-schedule.ts`, `cron-settlement.ts`, `cron-config.ts` | timers, `trigger_config`, runs by source | boot, sync, resync, fire, settle, save | fire against busy, edits, downtime, 32-bit timers | whoever waits for a time has its timer; no run off the schedule; no one-shot is lost |
| Wake-ups `services/wakeup-registry.ts`, `wakeup-store.ts`, `agents/wakeup-delivery.ts` | timers, `thread_wakeups` rows | schedule, fire, trigger now, cancel, drop | three hands on one row; fired but not delivered | a wake-up is pending just when it is armed |
| Context window `agents/summary-boundary.ts`, `history-cap.ts`, `recursion-guard.middleware.ts` | message lists | trim, cap, count repeats | boundaries | never splits a call from its answer |
| Agents, tools, middleware `agents/` | none of their own | assembly of LangGraph agents | | |
| Threads and messages, artifacts, API keys, providers, live events | rows and files | CRUD | token refresh in flight | |
| `lib/*` (wiki, evaluations, rlm, widgets, skills, shell), `ui/`, `bin/`, `e2e/` | files, processes, view state | | | |

How they interact. A chat, workspace-chat or headless turn takes its **thread**,
then a **provider slot** for each model call, and gives both back in `finally`
blocks. A task run does the same on a thread of its own. The **scheduler**
dispatches from the **task queue** whenever something calls `wake()`: every task
route, the tools that create tasks, the end of a run, the boot. Finished
sub-agents and due wake-ups are **delivered** to a thread as deferred turns. Cron
timers and dependency releases **enqueue** task runs.

Node runs one handler at a time and SQLite is called synchronously. Code between
two awaits is therefore one step, and everything hard happens at the awaits.

Every hazard found, with the line where it bites, is in `PROJECT.json`
("hazards"), with the properties that cover it or the reason none does.

## 2. The modules

### ProviderQueue

One gate. `maxConcurrency`, `activeCount`, `syncQueue`, `asyncQueue` are the
fields of `ProviderGate`; `pc` says where each caller of `withSlot` stands;
`waiting` is what its `onWaitChange` callback last reported; `aborted` is its
signal. `AcquireNow` and `AcquireLater` are the two ends of `acquireSlot`,
`Abort` is its listener, `Release` is the `finally` of `withSlot` with the whole
drain loop of `releaseSlot`, `Unwind` is the caller of a wait that was aborted.
The loop is given in closed form: nothing joins a queue while it runs, so it
hands the free slots to the first entries of `syncQueue \o asyncQueue`. A caller
that is done may call again, with a new signal and the same kind.

### SerialTurns and ThreadTurns

`SerialTurns` is what a thread promises: accepted turns run one at a time, in the
order of acceptance, and all of them finish. `ThreadTurns` is the code: `writer`
and `controller` are the thread's entries in `_writers` and `_controllers`,
`queue` its entry in `_queues`. A request (`Check`, then `Claim` after its
awaits) and a delivery (`Enqueue`, no await in between) take the thread in
different ways. `End` is `endThreadTurn`: it clears both maps, whoever is in
them, and starts the next deferred turn in the same step. `BrokenTraces` are the
turns whose closing trace write throws: an unguarded `finally` then never reaches
`endThreadTurn`.

The refinement mapping shows the running turn and then the line:
`line <- (IF Busy THEN <<writer>> ELSE <<>>) \o queue`.

### TaskQueue

`db` holds the two tables. A task has a status and an assignee; a row has a task,
a state (`pending`, `running`, `paused`; a closed row is history and its id is
used again) and the number of crash retries; `before` is the order of the active
rows by their `position`, as a set of pairs (only which of two rows comes first is
ever asked). `exec` holds the executors of this process by row,
with the intent of their abort entry. `prompts` are the tasks whose question card
a user may still have on screen.

The statements of the store are functions from tables to tables (`Enqueued`,
`Completed`, `Parked`, `Recovered`, ...). A handler composes them and ends with
`Wake`, because its route ends with a wake of the scheduler; `Delete` is the one
that does not. `Dispatched` is the loop of `tick()` in closed form: each dequeue
occupies the scope it takes from, so the loop takes the first row of every free
scope, and every row of a sub-agent. An executor is several steps: `Begin` or
`SetupFails`, then `Finish`, `Ask` or `Aborted`, then `Return`, which wakes.
Parking runs to the executor's return without an await that yields, so it is one
step. `Restart` is a crash and the boot after it: `recoverRunningQueueEntries`,
then the scheduler's first wake.

`Save` is the PATCH route, whose status change is chosen by the constant `Edits`:
those of the buttons and the board (`Deliberate`) in most runs, all of them in one.

### BoardRules and TaskDependencies

`BoardRules` is `board-rules.ts` as operators: the source of a card, its lane, and
the move table, which gives for each source and lane the list of steps of a move,
or none.

`TaskDependencies` is what those steps, the routes and the settlement of runs do
to the tables. `db` holds the tasks, the number of their active rows by state
(what a row does in between is TaskQueue's), the holder each task is a child of,
and the cohorts; `edges` is `task_dependencies`; `made` the tasks there is a row
of. `reused`, `waiting`, `unsettled`, `astray`, `planned` and `unplanned` are history
for the properties.
`Finish` is the whole of `settleTaskAfterRun`: the task's own settlement (or the
freeze of a holder whose cohort is open), the count of the cohort it belongs to,
the settlement of that holder with it, and the releases all of these set off.
`Released` goes through the dependents in the order the query returns them, one of
`Orders`, since it has no ORDER BY. `Throws` is the exception `applyCronSettlement`
raises for a holder whose schedule was dropped, and `SettledByExecutor` the second
settlement the executor's catch block then makes. `CreateTasks` and
`CreateCohort` are a batch of `create_tasks`, from a chat and from the run of a
scheduled task; an input may turn out to match a schedule that is there already
(`Duplicates`), which then gets the input's dependencies. `Move` runs the steps of
a plan in order until one fails (`NextStep`), and keeps what the earlier ones wrote.
The two loops, over dependents and over steps, are recursive functions.

`MovesLand` is about tasks that were never on a schedule (`planned`) and show the run
they have (`ShowsItsRun`): a schedule that was dropped can leave a card whose status
and rows disagree, as the violation in section 4 does. `AwaitingHasFrozenCohort`
exempts a holder whose schedule was dropped while it was held (`unplanned`), and
`ReleasedOnlyWhenMet` counts a dependency as answered when its target holds a
cohort, or is a child whose settlement throws: one step may settle such a target twice.

### Server, CronRegistry, Wakeups and Registries

`Server` is the clock, the process and its crashes. `CronRegistry` has the row of
each scheduled task with its active run (`cron`), and what lives in memory: the
time each task is armed for (`timer`) and the tasks that an executor settled and has
yet to resync (`owed`). Pure operators give what the code computes:
`NextFireAt` and `LatestMissedFireAt` from `cron-schedule.ts`, `Settled` from
`cron-settlement.ts`, `Resolved` and `StatusForSavedSchedule` from
`cron-config.ts`, and `Synced`, `FiredOrSynced`, `Recovered` and `Booted` are the
registry's handlers, each from a row to a row and its timer. The actions save what
these return. A timer may wake before its time (the code arms a long wait in
chunks of a signed 32-bit delay) and as late as it likes. A cron expression is the
set of multiples of `Period`: its calendar is a library's.

Who syncs what decides which timers are right. A route ends with the sync of the one
task in its URL (`Saves`). An executor settles its run first, and resyncs all tasks
some time later (`ExecutorSettles`, `ExecutorResyncs`). A settlement changes other
tasks too: it releases dependents onto their schedules, blocks those whose
dependency failed, and the last child of a cohort settles its holder. `After` gives
the rows once it has; which tasks those are is `TaskDependencies`', here it may be
any that wait (`MayTouch`, `Fates`). Behind an executor the resync finds them. Behind
a request (`Cancel` and `MarkDone` of a task on a schedule, `OtherIsSettled` of one
that has none) nothing does, and `unseen` records them until the registry looks.

The user's steps are the routes and the board moves by their effect on the row:
`RunNow`, `Cancel`, `Dequeue` (the run never was and counts no more), `Resume`,
`TakeOver`, `PatchStatus`, `MarkDone`, `Delete`, `SaveSchedule`. Pausing or cancelling a
run under way sets an intent, on which the executor stops it (`RunStops`).

`Wakeups` has the pending row of each thread (`wakeup`), its timer (`alarm`), the
fired wake-ups on their way to a turn (`fired`) and the depth of the turn that
runs (`turn`). Deleting a thread is two steps, as in its handler: the row goes
first and the timer once the checkpoints are gone.

`Registries` puts both on one clock in one process, as `index.ts` boots them: a
crash takes the timers, deliveries and turns of both, the boot recovers the runs
and arms or fires what is due.

### The MC modules

`MCProviderQueue`, `MCTaskQueue`, `MCTaskDependencies` and `MCRegistries` give
values to constants that are not sets of model values; `MCThreadTurns` needs none.

## 3. The runs

| Run | Instance | Shows |
|---|---|---|
| `provider_queue` | 4 callers, limit -1, 1 or 2, every mix of kinds | slot accounting, limit, no idle slot, queues and indicator exact; interactive first, FIFO; interactive waiters are served, background ones once the interactive queue stays empty |
| `thread_turns` | 2 requests, 2 headless deliveries, 1 task run, failing traces of one request and of the task run | the line is exact, a deferred turn has a turn that will start it, order, eventual start |
| `thread_turns_deliveries` | 3 headless deliveries, 1 task run | mutual exclusion, `/stop` reaches the live turn, implements SerialTurns with its liveness |
| `thread_turns_race` (violation) | 2 requests, nothing else | two requests pass the busy check and both stream |
| `task_queue` | 2 tasks of one workspace, 3 rows, buttons and board | running row = executor, one active run per task, parked runs reachable, running task has a run, no stranded work, one shown run per workspace |
| `task_queue_live` | 2 tasks, 2 rows, Run now and Resume | a queued run starts or leaves the queue |
| `task_queue_edits` | a task, a sub-agent in its workspace, any status edit, deletion | running row = executor whatever a drawer saves |
| `task_queue_take_over` (violation) | 2 tasks | a run's own outcome overwrites a take-over |
| `task_queue_answer` (violation) | 2 tasks | a second answer resumes a paused run |
| `task_dependencies` | 3 tasks, one on a schedule, any batch or cohort of the others, two user steps | no cycle; dependents wait only for what will come and start only when it came; a cohort closes with its last child and its holder is released; cards land where they are dropped |
| `task_dependencies_by_hand` (violation) | the same | a task held by a failed dependency has a parked run |
| `registries` | a scheduled task (one-shot at 2 or 4, or every 2 for one run, off after one failure), a thread with wake-ups, times to 4, two crashes, two user steps, any number of settlements by executors | who waits for a time has its timer, but for tasks a request for another one put there; no run off the schedule; no one-shot and no wake-up lost |

**Bounds.** Four callers are the least for which a release can find both queues
occupied with an order to keep in one of them while a slot is still held by
another. Three deliveries are the least for a line of two behind a live turn;
the fourth, a task run, has no controller. Two requests are enough to race and
their registrations to wipe each other's. Two tasks of one workspace contend for
its scope, and a third row lets a task be queued again while a taken-over run of
it is still ending. A turn and a delivery happen once; a caller, a run, a crash
may come again without limit, and no counter grows: a row has at most one retry.

Three tasks are the least for a holder with two children one of which depends on
the other, and for a chain of dependencies that a release has to go down. Two user
steps are enough to spoil an edge and to move the card that hangs on it; a batch
that reuses a task counts as one, because it too comes at a moment nobody
planned. One row per state and task is what the code means to have; a step that
would add a second is cut off (`FewRows`). The check runs one order of the query
and two kinds of edge; with the orders `<<t1, t2, t3>>` and `<<t3, t2, t1>>` the
same properties hold (397,266 states).

In `registries` the clock runs to 4, so that a recurring task of period 2 has a fire
and a second match that its limit of one run must stop, and a one-shot can be moved
from the past to the future. Two crashes give a retry and a run that is given up.
Limits by date (`stopAfter`) are only in the proofs, which are for all limits. One
task and one thread are enough: a task meets the others in a bulk resync, which may
come at any moment (`Resync`), and in their settlements, which are steps of tasks that
are not named (`OtherRunEnds`, `OtherIsSettled`); a thread meets no other.

**Symmetry** is used only in runs without temporal properties, on row ids (and on
the two tasks that share a workspace).

**Deadlock** is off where the system may stop: a thread on which all turns are
over; a task queue is never stuck, but with a bounded number of rows a handler
may find none; a schedule that is over, on a clock that has stopped.

**Fairness.** A provider call ends, since every client has a timeout
(`WF(Release)`). A turn's stream ends and its `finally` runs on
(`WF(Running)`): calls time out and agents have a recursion limit. A run ends and
its executor returns (`WF(ExecutorStep)`), for the same reasons. In `registries` the process is
restarted (`WF(Boot)`), time passes, a due timer or alarm wakes, a queued run starts, a run
stops, one way or another, and its executor resyncs: the event loop and the scheduler see to each of
them as long as the process is up. Users, aborts and crashes get none: they need
never happen.

The premise of `QueuedIsServed` is that no user task stays waiting for an answer:
a question holds its workspace by design. The premise of `AsyncServedWhenQuiet`
is that the interactive queue stays empty from some moment: strict priority is by
design too.

## 4. What the violations say

* **Two turns on one thread** (`agents/stream-handler.ts:976`).
  `refuseIfThreadBusy` exists to refuse "rather than race a second
  agent.streamEvents() against the same LangGraph checkpoint", but the handler
  awaits between that check and the registration. What survives such a race is
  checked in `thread_turns` and proved: deferred turns are still run once, in
  order.
* **Take-over overwritten** (`services/workspace-store.ts:2737`). The handler
  commits the reassignment first so that the run's end "can never clobber it, no
  matter how the abort resolves"; that holds of the take-over branch of the catch
  block, not of a run that ends without noticing its abort.
* **A stale answer** (`routes/v1/tasks.handlers.ts:517`). "Never let a stale
  answer reopen or re-run a task that has already moved on": a task that was
  answered, resumed and then paused has a paused row, which lets an old card's
  answer through.
* **A held task with a run** (`routes/v1/tasks.handlers.ts:447`). "A task blocked by
  a failed required dependency never had a queue row" (line 310): Run now enqueues
  such a task and leaves its reason, so that once paused it is still shown as held,
  Resume answers 409, and take-over leaves the parked row behind.

Met while modelling, reachable in the model, and promised otherwise by no line
that a run could refute; each is a hazard in `PROJECT.json` or an exemption in a
property:

* The comment at `workspace-store.ts:2600` has edges to earlier inputs alone rule
  out any cycle. An input that matches a schedule is not a new task: the edge it
  gets may close a cycle, even from the task to itself. `EdgesAcyclic` exempts
  `reused`; without that TLC finds the cycle. A dependent on a reused one-shot that
  is over waits for a release that will not come, and a cohort that counts a reused
  input never closes.
* `cron-registry.ts:77` asks for a sync "after anything that may change a cron task's
  trigger, status or existence". A request that cancels a queued task or marks a card
  done also releases that task's dependents onto their schedules
  (`workspace-store.ts:2014`), and a cancel that ends the last child of a cohort settles
  its holder (line 2840), but the route syncs the timer of the task it names only
  (`tasks.route.ts:205` and 275). The others wait at `scheduled` without a timer until
  an unrelated run ends or the server restarts. `IdleIsArmed` and `OneShotNotLost`
  exempt them (`unseen`); without that TLC finds such a task in two steps
  (`OtherIsSettled`).
* A one-shot whose time is moved while its scheduled run is under way settles as
  done when that run ends (`cron-settlement.ts:46`), although moving it re-arms it
  (`cron-config.ts:98`): enabled, unfired, and armed by nothing. One that is run by
  hand and dragged out of the queue is `pending` in the same way
  (`workspace-store.ts:2286`), as is one whose run is taken over.
* A resync for some other task clears a timer that is due and not yet run
  (`cron-registry.ts:80`). A one-shot is caught up; an idle recurring task misses
  that fire. A recurring fire skipped because the task was busy is, on the other
  hand, caught up at the next boot.
* A one-shot that expired while it was off returns to `scheduled` when it is turned
  on and run by hand, with nothing to wait for.
* The chain of wake-ups is capped by depth and not by count.
* A holder whose schedule is dropped while its children are out makes the
  settlement of the last child throw; the child is settled twice and the holder
  waits for ever (`Throws`).
* A user who takes a queued task over, runs it by hand and resumes it after it was
  handed off leaves it `ready` without a row: Resume enqueues for the agent only
  (`routes/v1/tasks.handlers.ts:406`), Run now for anyone. Cancelling such a task takes
  the branch meant for an impossible state (line 573), which releases none of its
  dependents; `Cancel` models it. It takes three user steps, one more than the run
  allows.
* A move of the board that fails half-way keeps its first steps.
* Deleting a dependency strands its dependents, and an edge by hand to a task that
  has failed is never flagged.

## 5. What is proved

`ThreadTurns_proofs`, for every set of requests, deliveries, task runs and failing
traces that satisfies `TurnsAssumption`:

* `TypeCorrect`: the type invariant.
* `LineStaysExact`: a deferred turn is in the line once and nothing else is. It is
  inductive with the types; two lemmas say what `Append` and `Tail` do to the set
  of a sequence's elements (`AppendRange`, `TailRange`).
* `DriverExists`: behind a non-empty line stands a turn that will start it, or a
  wedged one. Not inductive as it stands: a line could arise behind no one, or the
  registered turn be over. `DriverInv` adds that a registered turn is live or has
  wedged the thread, and that a line needs a registered turn.
* `OrderKept`: as long as a delivery waits, none that came later gets in front of
  it or starts. From the two above: a newcomer joins the end of the line; only
  `End` starts a deferred turn, the head of an exact line; a delivery starts at
  once only on a thread that is free, hence has no line.
* `DeliveriesExclude`: without requests no two turns overlap. The inductive form
  is that only the registered turn is live (`OnlyWriterLive`).
* `StopReachesDeliveries`: without requests, the turn that streams is the one Stop
  reaches. (With requests neither holds: see the violations.)
* `ImplementsSerialSafety`: without requests, and if only task runs have failing
  traces, every step is a step of `SerialTurns` or a stutter.

`ProviderQueue_proofs`, for every set of callers, finite or not, and every set of
integer limits:

* `WaitersStayQueued`: a request is in the queue of its kind, once, exactly while it
  waits. Proved first and from the shapes of the state alone (`QueueInv`); its
  lemmas say what an append, an abort's splice (`WithoutFacts`) and a drain
  (`DrainFacts`) leave of a queue.
* `SlotsAccounted`, `LimitKept`, `NoSlotIdles` and the types (`TypeCorrect`) stand or
  fall together: `activeCount` stays a natural number because it counts the
  holders, and a drain reaches the limit exactly because nobody waited while a
  slot was free. Their conjunction `SlotInv` is inductive given `QueueInv`. The
  heart of it is the drain: the requests it wakes are as many as the slots it
  hands out (`FirstOfCardinality`, `HandedFacts`), none of them held a slot, and the
  two queues share none. That the holders are finite is part of the invariant.
* `PriorityKept`: no slot is taken over the head of a waiting interactive request.
* `ServedInOrder`: as long as a request waits, no later one of its kind gets in front
  of it or gets a slot. A newcomer gets no slot because of `SlotInv`; an append, a
  splice and a drain keep the order of those they leave (`AppendOrder`,
  `WithoutOrder`), and a drain that does not reach a request reaches nobody behind it
  (`DrainOrder`).

`TaskQueue_proofs`, for every set of tasks, sub-agents, scopes and rows, across
any number of crashes:

* `TypeCorrect` and `ExecutorsOwnRows` (a row is running exactly while an executor of
  this process works on it), whatever status changes users save (`Edits`) and
  whichever tasks they delete.
* `NoWorkStranded`: a row that could start has a wake coming, whatever users save.
  From `Deletable = {}`: `deleteTaskHandler` does not wake, and deleting a task that
  holds its scope does strand the rows behind it (a hazard listed without a property).
* `OneRunPerTask`, `ParkedStaysReachable`, `RunningTasksHaveRuns`, `OneShownRun`, from
  `Edits \subseteq Deliberate`: the PATCH route takes any status, and a status put
  into it by hand ("ready" on a running task, say) breaks each of them. Deletions
  and everything else is unrestricted.

They share one inductive invariant, `Inv`. Its part about the tables says that every
row in use is a task's and that `before` orders the active rows, every set of which
has a first (`Positioned`, without which a dispatch might find no row to take); with
`Deliberate` edits, that a task has one row, that its status is one the row's state
allows (`Fits`), that a task without a row does not show as running, that a scope has
one running task (`Orderly`), and that a run being taken over no longer shows
(`TakenOverHidden`, why the end of a taken-over run may write its status without
freeing a scope twice). The proof has three layers, as the code does: what the
dispatch loop keeps of any tables it is given (`DispatchedTables`,
`DispatchedOrderly`) and that it leaves nothing startable (`DispatchedExhausts`,
`WakeGood`); what each statement of the store keeps (`StatusGood`, `EnqueuedGood`,
`ClosedGood`, `RecoveredGood`, ...); and for each handler, that it hands the dispatch
tables that are still good.

`TaskDependencies_proofs`, for every set of tasks, orders and kinds of edges:

* `GraphStaysAcyclic`: but for tasks that a batch reused, the dependencies have no
  cycle. Inductive with "the ends of an edge are tasks of the table", so that a new
  task comes with no edge into it (`GraphInv`). A cycle is a nonempty set all of
  whose members have an edge into the set. A batch adds none because of the member
  whose input comes first (`FirstPosition`, `BatchHasFirst`); an edge by hand adds
  none because the search of `wouldCreateCycle` failed: the closed set that
  witnesses this would, cut with the cycle, be a smaller one among the old edges.

`TaskWaiters_proofs`, for every finite set of tasks, every order of the query and
however often users step in. The six theorems share one inductive invariant,
`TablesInv`: the types, and what the tables have to do with each other.

* `DependencyTypes`: the tables are of their types, the ends of an edge among them.
* `NoWaiterIsStranded`: a task left to the release has an open dependency and none
  that failed for good. Inductive once the waiters are known to be pending tasks of
  the agent without a schedule, with the edges of a batch (`LeftIn`, `WaitsIn`): the
  step that closes the last dependency is the one that releases the waiter.
* `HolderIsFrozen`: who waits for its children has an open cohort that knows the
  outcome (`HeldIn`), and is on a schedule unless it is recorded as `unplanned`
  (`HeldByCron`).
* `CohortClosesOnce`: a cohort closes exactly with its last child. `Counts` has it:
  the settlements counted and the children left make up the total, and the count is
  below it.
* `ReleaseOnlyOfMet`: a step without a user, or the removal of a dependency by one,
  queues no task with an unanswered dependency. By `SettlementQueues`: only a release
  or a batch queues a task, and what a release took for an answer is one still when
  the step is over, but for targets that are settled twice.
* `MovesLandWhereDropped`: every successful move of a task made without a schedule
  lands where it was dropped. `PlainIn` has the rows such a task can have
  (`PlainTask`), and `PlainMove` runs every plan of the move table on them.

They rest on two modules of lemmas, layered as the code is. `TaskTables_proofs` is
about `releaseEligibleDependents` and the settlement. A release is a loop
(`ReleaseIsLoop`), a loop keeps what its rounds keep (`LoopKeeps`), and a release
changes pending dependents only (`ReleaseReleases`,
`ReleaseQueuesMet`, `ReleaseLeavesWaiters`). `Settles` is what one or several answers
and their releases make of the tables; `SettledFacts` goes through the holder's
freeze, the cohort's count and the settlement that follows.
`TaskMoves_proofs` has what each step of a move does, that a plan has at most three
(`PlanTable`), and, for the invariant, that a move of any task either answers it as a
settlement would or changes only that task's card and rows (`PlansOfTwoKinds`).

`Registries_proofs`, for every set of tasks and threads, every period, limit, delay
and number of crashes:

* `IdleTasksAreArmed`: while the process runs, an idle task that has a time has a
  timer for it, and a busy one has none, unless its executor has yet to resync
  (`owed`) or a request for another task put it there (`unseen`). Not inductive as it
  stands. `CronInv` adds that a timer is armed for a time its schedule names and no
  run was started for (`TimerFits`), and that a task with a run shows as busy, with
  its stamps in the past, a held one with its outcome, and a run of the schedule
  counted (`RowOK`). A handler makes of a row another with the same stamps and no run
  more (`Quiet`, one lemma per operator); the registry then makes of it a row with
  the right timer (`Kept`: `SyncedKept`, `WakeKept`, `BootedKept`). A step does to each
  task one of three things (`StepOK`): nothing, what the registry does, or a quiet
  change of a row that has no timer, which is where `owed` and `unseen` come in. That a tick breaks nothing is a fact about multiples of the
  period (`DivStep`): the next match stays, or is now.
* `RunsAreOnSchedule`: no run but for a time of the schedule, once, within its
  limits. From the same invariant: a timer that fires was armed for such a time.
* `PendingWakeupsAreArmed`, with the depth of a pending row as strengthening.
* `TypesCorrect`: the types of all of it.

Only model-checked: liveness and fairness (`DeferredRuns`, `QueuedIsServed`,
`SyncServed`, `AsyncServedWhenQuiet`, `OneShotNotLost`, `WakeupSettles`, the fairness
part of `ImplementsSerialTurns`), which the prover cannot do. Every invariant and
every action property that a passing run checks is also a theorem.

## 6. What is not modelled

* What a turn says: tokens, tool calls, message rows, artifacts, traces.
* Of dependencies and cohorts: fresh scheduled tasks in a batch, a crash between
  `createTasks` and `openCohort`, the deletion of a workspace (which leaves
  `task_cohorts` rows behind), several workspaces, reordering, archiving.
* Of the registries: the calendar of cron expressions and its time zones; a change of
  a task's trigger type (a board move that drops or adds a schedule included) and of
  its limits; a second active row of a task; the row of a taken-over run until its
  executor detaches it, and a run that outlives its take-over (both TaskQueue's); a
  status of ready or running saved by hand, beyond Run now; what users do to a holder
  that waits for its children, besides editing its schedule; a database call that
  throws in a timer's callback; the cards and markers of wake-ups in the transcript.
  The end of a task's last open dependency by `removeTaskDependencyHandler` has the
  effect of `RunNow`.
* The wiki chat, whose handlers register without a busy check.
* A crash in the middle of a thread's or a gate's life: both live in memory and
  start empty.
* Libraries: LangGraph (a stream that ends, throws or interrupts), SQLite (a
  statement is atomic), Express, timers.
* Files, processes, the web UI, the evaluation tools: I/O without control state
  that interleaves.

## 7. Plan

1. ProviderQueue, ThreadTurns, TaskQueue, the proofs of the first two (done).
2. `TaskDependencies` with the board's rules, and that its graph stays acyclic
   (done). Left: `Reorder` as a permutation that leaves other workspaces alone.
3. `CronRegistry` and `Wakeups` in `Registries`, and their safety for every instance
   (done).
4. Proofs of TaskQueue's and TaskDependencies' safety (done). Left for
   TLC: the liveness properties.
5. Then, as pure operators over bounded inputs: the boundaries of the context window
   (`agents/summary-boundary.ts`, `history-cap.ts`).
