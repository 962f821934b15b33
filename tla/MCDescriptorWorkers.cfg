CONSTANTS
  ThreadCount = 2
  MaxCalls = 3
  TaskCounts = {0, 1, 2, 3, 4}
  Outcomes = {"succeeds", "fails", "throws"}
SPECIFICATION DescriptorFairSpec
INVARIANTS
  ResultTellsFailure
  EachTaskOnce
PROPERTIES
  ProcessReturns
CHECK_DEADLOCK FALSE
