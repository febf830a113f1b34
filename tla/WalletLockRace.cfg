CONSTANTS
  Procs = {p1, p2, p3}
  Nobody = Nobody
SPECIFICATION LockSpec
CHECK_DEADLOCK FALSE
INVARIANTS
  MutualExclusion
