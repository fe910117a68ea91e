SPECIFICATION Spec
CONSTANTS
  Requests = {r1, r2, r3, r4}
  Limits <- LimitsAll
INVARIANTS
  TypeOK
  SlotAccounting
  WithinLimit
  NoIdleSlot
  WaitersAreQueued
PROPERTIES
  SyncFirst
  FifoWithinKind
  SyncServed
  AsyncServedWhenQuiet
