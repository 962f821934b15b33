CONSTANTS
  MaxTasks = 2
  MaxResets = 1
SPECIFICATION Spec
INVARIANTS
  TypeOK
PROPERTIES
  FinishedWhenUnblocked
CHECK_DEADLOCK FALSE
