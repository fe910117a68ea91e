SPECIFICATION Spec
CONSTANTS
  t1 = t1
  t2 = t2
  sub = sub
  ws = ws
  NoTask = NoTask
  Tasks = {t1, sub}
  SubAgents = {sub}
  ScopeOf <- OneScope
  Runs = {r1, r2}
  Edits <- AllEdits
  Deletable = {t1}
SYMMETRY RunIds
INVARIANT
  ExecutorOwnsRow
CHECK_DEADLOCK FALSE
