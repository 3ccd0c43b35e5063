CONSTANTS
  b1 = b1  b2 = b2  z = z  e = e  p1 = p1  p2 = p2  dr = dr
  Batch <- MCBatch
  Keyless <- MCKeyless
  Consumer <- MCConsumer
  Wants <- MCWants
  Post = {p1, p2}
  Drainer = dr
  DRAIN_BATCH = 1
  MaxFailures = 1
  MaxMishaps = 1
  FanFaults = {"crash", "hangup", "outage"}
  Track = {"t1", "t2"}
  Point = {1, 2, 3}
  Interior = {1}
  EPSILON = 2
  CONFIRM = 2
  Batcher = {"q1"}
  ZoneFaults = {"restart", "dbfail"}
SPECIFICATION PerceptionSpec
 
PROPERTIES ImplementsDelivery NothingOwedForEver 
CHECK_DEADLOCK FALSE
