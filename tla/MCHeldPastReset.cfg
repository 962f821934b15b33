CONSTANTS
  Capacity = 1
  Networks <- HeldPastResetNetworks
SPECIFICATION SpecRecorded
INVARIANTS
  ValuesOfThisRun
CHECK_DEADLOCK FALSE
