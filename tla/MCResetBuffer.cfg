CONSTANTS
  Capacity = 1
  Networks <- ResetBufferNetworks
SPECIFICATION FairSpecRecorded
PROPERTIES
  RunReturns
CHECK_DEADLOCK FALSE
