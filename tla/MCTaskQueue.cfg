SPECIFICATION Spec
CONSTANTS
  t1 = t1
  t2 = t2
  sub = sub
  ws = ws
  NoTask = NoTask
  Tasks = {t1, t2}
  SubAgents = {}
  ScopeOf <- OneScope
  Runs = {r1, r2, r3}
  Edits <- Deliberate
  Deletable = {}
SYMMETRY RunIdsAndTasks
INVARIANTS
  TypeOK
  ExecutorOwnsRow
  OneActiveRun
  ParkedIsReachable
  RunningHasRun
  NoStrandedWork
  OneShownRunPerScope
CHECK_DEADLOCK FALSE
