SPECIFICATION Spec
CONSTANTS
  c = c
  th = th
  Crons = {c}
  OnceTimes = {2, 4}
  Period = 2
  Limits <- MCLimits
  MaxEdits = 2
  MaxTime = 4
  MaxCrashes = 2
  Threads = {th}
  Delays = {2}
  MaxChain = 1
INVARIANTS
  TypeOK
  IdleIsArmed
  PendingIsArmed
PROPERTIES
  FiresOnItsSchedule
  OneShotNotLost
  WakeupSettles
CHECK_DEADLOCK FALSE
