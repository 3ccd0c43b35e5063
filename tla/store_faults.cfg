SPECIFICATION Spec
CONSTANTS
  Path = {p1}
  Clip = {c1}
  Session = {s1}
  MaxGen = 2
  Faults = {"restart", "long_outage", "lock_write", "unlock_write", "cancel",
            "double_close", "rmdir", "reindex", "hold_race", "count_error"}
INVARIANTS
  PinsHaveHolders
CHECK_DEADLOCK FALSE
