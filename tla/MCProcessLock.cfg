SPECIFICATION Spec
CONSTANTS
  Process = {p1, p2}
  Object = {m1, m2}
  Guard = {g1, g2}
  Null = Null
  MaxHolds = 1
  MaxCrashes = 1
SYMMETRY Symmetric
INVARIANTS TypeOK Exclusive ReleaseSucceeds LockAccounted
