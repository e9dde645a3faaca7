CONSTANTS
  a1 = a1
  s1 = s1
  s2 = s2
  o1 = o1
  o2 = o2
  o3 = o3
  Agent = {a1}
  Sched = {s1, s2}
  Op = {o1, o2, o3}
  Request <- Stay
  None = None
  SendCap = 1
  MaxConn = 2
  MaxRestart = 1
SPECIFICATION Spec
INVARIANTS RunsAHubList NoOldConnection Settled
CHECK_DEADLOCK FALSE
