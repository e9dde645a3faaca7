CONSTANTS
  Hub = {h1, h2}
  Sat = {a, b}
  Fresh = {a}
  Bare = {b}
  Trusted = {a, b}
  Skew <- Skews
  None = None
  Torn = Torn
  MaxFault = 1
SPECIFICATION FairSpec
INVARIANTS OneIdentity NoTakeover WholeUnlessCut
PROPERTIES KeyEverywhere
CHECK_DEADLOCK FALSE
