CONSTANTS
  Capacity = 1
  Networks <- FlushPastFailureNetworks
SPECIFICATION FairSpecRecorded
PROPERTIES
  RunReturns
CHECK_DEADLOCK FALSE
