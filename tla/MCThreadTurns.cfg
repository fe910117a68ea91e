SPECIFICATION Spec
CONSTANTS
  Requests = {r1, r2}
  Deliveries = {d1, d2, t1}
  TaskRuns = {t1}
  BrokenTraces = {r2, t1}
  None = None
INVARIANTS
  TypeOK
  LineIsExact
  DeferredHasDriver
PROPERTIES
  DeliveredInOrder
  DeferredRuns
CHECK_DEADLOCK FALSE
