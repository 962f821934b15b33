CONSTANTS
  Objects = {o1, o2}
  Threads = {t1, t2}
  Places = {1, 2}
  None = None
  SubtrackKinds = {"never"}
SPECIFICATION Spec
INVARIANTS
  Intact
CHECK_DEADLOCK FALSE
