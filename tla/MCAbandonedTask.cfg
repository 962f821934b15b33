CONSTANTS
  MaxTasks = 2
  MaxResets = 1
SPECIFICATION Spec
INVARIANTS
  NoTaskAfterDestructor
CHECK_DEADLOCK FALSE
