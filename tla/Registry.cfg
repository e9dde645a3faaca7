CONSTANTS
  a1 = a1
  a2 = a2
  x1 = x1
  x2 = x2
  y1 = y1
  Agent = {a1, a2}
  Conn = {x1, x2, y1}
  AgentOf <- TwoAgents
  Nil = Nil
SPECIFICATION FairSpec
INVARIANTS ServedIsRegistered NoGhost
PROPERTIES BrokenLeaves RegistrationEnds
CHECK_DEADLOCK FALSE
