CONSTANTS
  r1 = r1
  r2 = r2
  Result = {r1, r2}
  MaxConn = 2
  MaxFault = 2
SPECIFICATION FairSpec
INVARIANTS NoDuplicates InOrder
PROPERTIES ImplementsOutbox FlushedWhileConnected
