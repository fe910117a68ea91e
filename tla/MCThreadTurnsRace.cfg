SPECIFICATION Spec
CONSTANTS
  Requests = {r1, r2}
  Deliveries = {}
  TaskRuns = {}
  BrokenTraces = {}
  None = None
INVARIANT
  MutualExclusion
CHECK_DEADLOCK FALSE
