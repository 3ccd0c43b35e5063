CONSTANTS
  Camera = {"c1", "c2"}
  Site = {"s1"}
  Id = {"x1", "x2", "n1"}
  NewId = {"n1"}
  ZoneName = {"a"}
  Incident = {"inc"}
  TaskType = {"t"}
  Provenance = "warn"
  Tier = "enforce"
  Claims = {"ungated", "fleet"}
  Key <- mcKey
  User = {"u1"}
  Sid = {"s1"}
  ApiKey = {"k1"}
  MaxAsks = 2
  MaxClock = 8
  MaxFailures = 2
  LOCKOUT = 2
  TTL = 4
  IDLE = 2
  MAX_LIFETIME = 6
  MaxWrong = 2
SPECIFICATION MCSpec
INVARIANT NonInterference
INVARIANT Confined
INVARIANT RevokedStays
INVARIANT AsPublished
 
PROPERTY NoSilentDetach
