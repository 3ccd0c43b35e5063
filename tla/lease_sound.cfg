SPECIFICATION Spec
CONSTANTS
  Task = {t1}
  Key = {k1, k2}
  Worker = {w1, w2}
  Call = {c1, c2, c3}
  None = None
  TTL = 2
  MaxTime = 4
  Faults = {"restart"}
SYMMETRY Symmetry
INVARIANTS
  OneHolder
  ReleasedNotServed
PROPERTIES
  LeaseHonoured
CHECK_DEADLOCK FALSE
