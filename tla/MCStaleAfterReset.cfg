CONSTANTS
  Capacity = 1
  Networks <- RestartedNetworks
SPECIFICATION SpecRecorded
INVARIANTS
  ValuesOfThisRun
CHECK_DEADLOCK FALSE
