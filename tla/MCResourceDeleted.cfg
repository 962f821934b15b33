CONSTANTS
  Users = {u1, u2, u3}
  Names = {n1}
  NoName = NoName
  MaxChanges = 3
  DestroyedRunning = TRUE
SPECIFICATION PoolSpec
SYMMETRY AnyUser
INVARIANTS
  FoundIsPresent
CHECK_DEADLOCK FALSE
