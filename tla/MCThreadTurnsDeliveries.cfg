SPECIFICATION Spec
CONSTANTS
  Requests = {}
  Deliveries = {d1, d2, d3, t1}
  TaskRuns = {t1}
  BrokenTraces = {t1}
  None = None
INVARIANTS
  MutualExclusion
  StopReachesLiveTurn
PROPERTIES
  ImplementsSerialTurns
CHECK_DEADLOCK FALSE
