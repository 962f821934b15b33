CONSTANTS
  Readers = {r1, r2}
  Pipeline = pipeline
  MaxItems = 3
SPECIFICATION ObserverFairSpec
INVARIANTS
  EachItemOnce
PROPERTIES
  ReaderServed
CHECK_DEADLOCK FALSE
