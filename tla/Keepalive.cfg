CONSTANTS
  PingPeriod = 54
  PongWait = 60
  WriteWait = 10
  Hold = 1
  Delay = 2
SPECIFICATION KeepaliveSpec
INVARIANTS KeptAlive DeadNoticed
CHECK_DEADLOCK FALSE
