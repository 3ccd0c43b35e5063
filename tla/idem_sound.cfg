SPECIFICATION FairSpec
CONSTANTS
  Request = {r1, r2, r3}
  Body = {b1, b2}
  None = None
  Faults = {"dies", "write"}
INVARIANTS
  HandlerExclusive
  ReplayGenuine
PROPERTIES
  ReleasesOwnClaim
  ClaimResolved
CHECK_DEADLOCK FALSE
