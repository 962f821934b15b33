CONSTANTS
  Objects = {o1, o2, o3}
  Threads = {t1, t2, t3}
  Places = {1, 2}
  None = None
  SubtrackKinds = {"never", "same_uuid", "new_uuid"}
SPECIFICATION Spec
INVARIANTS
  PointersLive
  CacheExact
CHECK_DEADLOCK FALSE
SYMMETRY Alike
