SPECIFICATION FairSpec
CONSTANTS
  User = {u1}
  Watcher = w
  Task = {g1, g2}
  None = None
  MaxChanges = 2
  Faults = {}
INVARIANTS
  MapExact
PROPERTIES
  Converges
CHECK_DEADLOCK FALSE
