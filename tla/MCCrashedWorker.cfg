CONSTANTS
  ThreadCount = 2
  MaxCalls = 2
  TaskCounts = {0, 1, 2, 3, 4}
  Outcomes = {"succeeds", "fails", "throws"}
SPECIFICATION DescriptorFairSpec
INVARIANTS
  DescriptorTypes
PROPERTIES
  AlwaysReturns
CHECK_DEADLOCK FALSE
