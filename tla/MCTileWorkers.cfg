CONSTANTS
  ThreadCount = 3
  MaxCalls = 2
  TaskCounts = {1, 2, 3, 4}
SPECIFICATION FairSpec
INVARIANTS
  TilesAccountedFor
  ReturnsWhenDone
  QueueHasOneUser
PROPERTIES
  ApplyReturns
  ShutdownCompletes
CHECK_DEADLOCK FALSE
