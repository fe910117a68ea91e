---------------------------- MODULE MCTaskQueue ----------------------------
(* TaskQueue for TLC: two tasks that share a workspace, or one task and a   *)
(* sub-agent in its workspace.                                             *)
EXTENDS TaskQueue, TLC

CONSTANTS t1, t2, sub, ws

OneScope == [t \in Tasks |-> ws]
RunIds == Permutations(Runs)
RunIdsAndTasks == RunIds \cup Permutations({t1, t2})

\* Tasks are queued by Run now; paused ones are resumed.
JustResume == {<<"blocked", "ready">>}

\* Whatever the status select of a drawer offers, or a drawer opened long ago
\* sends back.
AllEdits == TaskStatuses \X TaskStatuses
=============================================================================
