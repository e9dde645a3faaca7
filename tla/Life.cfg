CONSTANTS
  h1 = h1
  h2 = h2
  h3 = h3
  Hub = {h1, h2, h3}
  Configured <- TwoHubs
  Pushed <- Lists
  MaxPush = 3
  MaxBackoff = 8
SPECIFICATION FairSpec
INVARIANTS IdxInRange DialsListed
PROPERTIES FindsHub StopEnds
CHECK_DEADLOCK FALSE
