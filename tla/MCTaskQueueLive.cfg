SPECIFICATION Spec
CONSTANTS
  t1 = t1
  t2 = t2
  sub = sub
  ws = ws
  NoTask = NoTask
  Tasks = {t1, t2}
  SubAgents = {}
  ScopeOf <- OneScope
  Runs = {r1, r2}
  Edits <- JustResume
  Deletable = {}
PROPERTY
  QueuedIsServed
CHECK_DEADLOCK FALSE
