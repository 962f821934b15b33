CONSTANTS
  Users = {u1, u2, u3}
  Names = {n1}
  NoName = NoName
  MaxChanges = 3
  DestroyedRunning = FALSE
SPECIFICATION PoolSpec
SYMMETRY AnyUser
INVARIANTS
  ObserversUpToDate
  NoOrphans
CHECK_DEADLOCK FALSE
