SPECIFICATION FairSpec
CONSTANTS
  Event = {e1, e2, e3}
  Loud = {e1, e2, e3}
  Match = {e1, e2}
  None = None
  BATCH = 2
  MAX_ATTEMPTS = 3
  MaxMishaps = 1
  Faults = {}
INVARIANTS
  NothingSkipped
PROPERTIES
  InOrder
  NeverWedged
CHECK_DEADLOCK FALSE
