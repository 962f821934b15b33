CONSTANTS
  Capacity = 1
  Data = {d1, d2}
  NoData = NoData
SPECIFICATION FairSpec
INVARIANTS
  DataMatchesStatus
  NoLostWakeup
  SizeIsCurrent
PROPERTIES
  WaitsEnd
  ImplementsChannel
