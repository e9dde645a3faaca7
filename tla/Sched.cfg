CONSTANTS
  every = every
  at = at
  Entry = {every, at}
  Type <- Recurring
  MaxList = 3
SPECIFICATION SchedulerFairSpec
INVARIANTS CurrentRuns
PROPERTIES OldEnd StopEnds
CHECK_DEADLOCK FALSE
