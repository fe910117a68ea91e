SPECIFICATION Spec
CONSTANTS
  t1 = t1
  t2 = t2
  t3 = t3
  Tasks <- MCTasks
  Orders <- MCOrders
  Scheduled = {t1}
  Duplicates = {t1}
  EdgeKinds <- MCEdgeKinds
  DropLanes = {"backlog", "queue", "done"}
  MaxRows = 1
  MaxEdits = 2
INVARIANTS
  TypeOK
  EdgesAcyclic
  WaitersAreWaiting
  AwaitingHasFrozenCohort
  MovesLand
PROPERTIES
  ReleasedOnlyWhenMet
  CohortClosesWithLastChild
CHECK_DEADLOCK FALSE
