SPECIFICATION Spec
CONSTANTS
  Path = {p1, p2}
  Clip = {c1}
  Session = {s1}
  MaxGen = 1
  Faults = {}
INVARIANTS
  PinsExact
  ExportPinned
CHECK_DEADLOCK FALSE
