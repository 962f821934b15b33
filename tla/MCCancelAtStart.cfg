CONSTANTS
  Capacity = 1
  Networks <- CancelledAtStartNetworks
SPECIFICATION FairSpecRecorded
PROPERTIES
  CancelReturns
CHECK_DEADLOCK FALSE
