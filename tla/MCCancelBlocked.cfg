CONSTANTS
  Capacity = 1
  Networks <- EndlessNetworks
SPECIFICATION FairSpecRecorded
PROPERTIES
  CancelReachesEveryThread
CHECK_DEADLOCK FALSE
