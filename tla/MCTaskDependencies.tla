------------------------- MODULE MCTaskDependencies -------------------------
(* TLC instance: three tasks, the first on a schedule.                     *)
EXTENDS TaskDependencies

CONSTANTS t1, t2, t3

MCTasks == {t1, t2, t3}
MCOrders == {<<t2, t1, t3>>}
MCEdgeKinds == {<<TRUE, FALSE>>, <<FALSE, TRUE>>}
=============================================================================
