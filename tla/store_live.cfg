SPECIFICATION FairSpec
CONSTANTS
  Path = {p1}
  Clip = {c1}
  Session = {s1}
  MaxGen = 1
  Faults = {"restart", "lock_write", "double_close"}
PROPERTIES
  PinsLifted
  HoldDurable
  
CHECK_DEADLOCK FALSE
