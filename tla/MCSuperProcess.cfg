CONSTANTS
  Capacity = 1
  Settings <- MCSettings
SPECIFICATION SuperFairSpec
INVARIANTS
  PadsInStep
  LanesMatchStatusQueue
  NothingOutlivesRun
PROPERTIES
  RunEnds
  CancelReturns
CHECK_DEADLOCK FALSE
