CONSTANTS
  ThreadCount = 3
  MaxCalls = 2
  TaskCounts = {0}
SPECIFICATION FairSpec
INVARIANTS
  TypeOK
PROPERTIES
  ApplyReturns
CHECK_DEADLOCK FALSE
