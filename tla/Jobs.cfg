CONSTANTS
  j1 = j1
  j2 = j2
  Job = {j1, j2}
  None = None
  Default <- Times
  Limit <- Limits
  Input <- Inputs
  Command <- Commands
  Longest = 3
  WriteWait = 1
  HubLimit = 512
  Size = {1, 2000}
  Inventory <- Machines
  BatchSize = 2
  Devices <- Hosts
SPECIFICATION Spec
INVARIANTS OutageBounded Truthful WholeInventory LevelKept NamesDistinct
CHECK_DEADLOCK FALSE
