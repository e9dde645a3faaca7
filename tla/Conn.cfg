CONSTANTS
  Call = {c1, c2}
  NoCall = NoCall
  SendCap = 1
  MaxNoise = 1
SPECIFICATION FairSpec
INVARIANTS NoPanic NoPendingLeak ReaderNeverBlocks
PROPERTIES ImplementsRPCCalls CloseReleasesCalls AnsweredWhileAlive
CHECK_DEADLOCK FALSE
