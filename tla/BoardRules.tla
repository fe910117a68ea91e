----------------------------- MODULE BoardRules -----------------------------
(***************************************************************************)
(* The Kanban board's lane and move rules (services/board-rules.ts): where *)
(* a card stands and the steps a drop on another lane takes.  Pure, as in  *)
(* the code; TaskDependencies executes the steps.                          *)
(*                                                                         *)
(* A task here is the record of the columns the rules read.  Left out:     *)
(* webhooks, archived tasks, the answer to a prompt, the retry limit of a  *)
(* handed-off run.                                                         *)
(***************************************************************************)
EXTENDS Sequences

Lanes == {"backlog", "scheduled", "queue", "attention", "done"}

Statuses == {"pending", "scheduled", "ready", "running", "waiting_on_user",
             "blocked", "done", "failed", "cancelled"}

\* ended: why an enabled or paused schedule fires no more, "no" while it may.
Configs == [enabled: BOOLEAN, ended: {"no", "failures", "over"}]

CardTypes == [status: Statuses,
              reason: {"none", "dependency_failed", "awaiting_children"},
              by: {"user", "agent"},
              trigger: {"manual", "cron_once", "cron_repeat"},
              config: Configs]

IsCron(task) == task.trigger # "manual"

IsSchedulePaused(task) == IsCron(task) /\ task.config.ended = "failures"

\* A schedule that was turned off by hand is 'disabled', finished or not.
IsScheduleFinished(task) ==
  IsCron(task) /\ task.config.ended = "over" /\ task.config.enabled

BlockedBy == [none |-> "blocked_paused",
              dependency_failed |-> "blocked_dependency_failed",
              awaiting_children |-> "blocked_awaiting_children"]

\* unmet: some dependency is not satisfied.
PendingSource(task, unmet) ==
  IF IsSchedulePaused(task) THEN "schedule_paused"
  ELSE IF IsScheduleFinished(task) THEN "done"
  ELSE IF task.by = "user" THEN "pending_user"
  ELSE IF unmet THEN "pending_waiting_dependency" ELSE "pending_agent"

\* The rows of the move table.
SourceOf(task, unmet) ==
  CASE task.status = "blocked"              -> BlockedBy[task.reason]
    [] task.status \in {"done", "cancelled"} -> "done"
    [] task.status = "pending"              -> PendingSource(task, unmet)
    [] OTHER                                -> task.status

LaneOf(source) ==
  CASE source \in {"waiting_on_user", "failed", "blocked_dependency_failed",
                   "blocked_paused", "schedule_paused"}          -> "attention"
    [] source \in {"scheduled", "blocked_awaiting_children"}     -> "scheduled"
    [] source \in {"ready", "running"}                           -> "queue"
    [] source = "done"                                           -> "done"
    [] OTHER                                                     -> "backlog"

MarkDone == <<"patch_done", "release_dependents">>

Rejected == <<>>

\* scheduleOnce: a drop on Scheduled gives the task a one-off start time.
ScheduleOnce(task, prefix) ==
  IF task.trigger = "cron_repeat" THEN Rejected ELSE Append(prefix, "save_cron_once")

\* planFrom's table: for a task at each source, the lanes it may be dropped on
\* and the steps of the move.  queued: the task has a pending row.
MoveTable(task, queued) ==
  LET takeOut == <<IF queued THEN "dequeue" ELSE "patch_pending">>
      detach  == <<"detach_paused">>
      reopen  == IF IsCron(task) THEN <<"clear_trigger", "patch_pending">>
                 ELSE <<"patch_pending">>
      once    == ScheduleOnce(task, <<>>)
  IN [pending_agent   |-> [scheduled |-> once, queue |-> <<"enqueue">>, done |-> MarkDone],
      pending_user    |-> [scheduled |-> once, done |-> MarkDone,
                           queue |-> <<"reassign_to_agent", "enqueue">>],
      pending_waiting_dependency |-> [done |-> MarkDone],
      scheduled       |-> [backlog |-> <<"disable_trigger">>, scheduled |-> once,
                           queue |-> IF task.trigger = "cron_once"
                                     THEN <<"clear_trigger", "enqueue">> ELSE <<"enqueue">>,
                           done |-> <<"disable_trigger">> \o MarkDone],
      ready           |-> [backlog |-> takeOut, scheduled |-> ScheduleOnce(task, takeOut),
                           queue |-> IF queued THEN <<"reorder">> ELSE Rejected,
                           done |-> takeOut \o MarkDone],
      running         |-> [attention |-> <<"pause">>],
      waiting_on_user |-> [attention |-> Rejected],
      blocked_paused  |-> [backlog |-> detach \o <<"patch_pending">>, queue |-> <<"resume">>,
                           scheduled |-> ScheduleOnce(task, detach \o <<"patch_pending">>),
                           done |-> detach \o MarkDone],
      blocked_dependency_failed |-> [backlog |-> <<"patch_pending">>, done |-> MarkDone],
      blocked_awaiting_children |-> [backlog |-> <<"disable_trigger">>],
      failed          |-> [backlog |-> <<"patch_pending">>, scheduled |-> once,
                           queue |-> <<"enqueue">>, done |-> MarkDone],
      schedule_paused |-> [scheduled |-> <<"enable_trigger">>, queue |-> <<"enqueue">>,
                           backlog |-> <<"clear_trigger">>, done |-> MarkDone],
      done            |-> [backlog |-> reopen, scheduled |-> once, queue |-> <<"enqueue">>]]

\* Mutant: a paused card is put back without closing its parked run.
PlanFromKeepsParked(task, queued, source, to) ==
  LET row == MoveTable(task, queued)[source]
  IN IF source = "blocked_paused" /\ to = "backlog" THEN <<"patch_pending">>
     ELSE IF to \in DOMAIN row THEN row[to] ELSE Rejected

PlanFrom(task, queued, source, to) ==
  LET row == MoveTable(task, queued)[source]
  IN IF to \in DOMAIN row THEN row[to] ELSE Rejected
=============================================================================
