CONSTANTS
  Objects = {o1, o2}
  Threads = {t1}
  Places = {1, 2}
  None = None
  SubtrackKinds = {"new_uuid"}
SPECIFICATION Spec
INVARIANTS
  Intact
CHECK_DEADLOCK FALSE
