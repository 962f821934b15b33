CONSTANTS
  Capacity = 1
  Networks <- MCNetworks
SPECIFICATION FairSpecRecorded
INVARIANTS
  InputsSynchronized
  EdgesCountFrames
  RunIsComplete
  ValuesOfThisRun
PROPERTIES
  RunReturns
  CancelReturns
  ImplementsFrameStreams
CHECK_DEADLOCK FALSE
