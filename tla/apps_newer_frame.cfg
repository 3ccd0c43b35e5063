SPECIFICATION AppsSpec
CONSTANTS
  SrchCamera = {"c1", "c2"}
  SrchSource = {"entry", "zone"}
  MaxFacts = 3
  Hours = 2
  fetch_cap = 2
  max_results = 2
  CAMERA_PRED_MAX = 1
  Searcher = {"a1", "a2"}
  Cred = {"w1", "w2"}
  MAX_QUEUE_DEPTH = 1
  TrackKey = {"t1"}
  Plate = {"p1"}
  Junk = "junk"
  Guard = {"g1"}
  anpr_min_votes = 2
  MaxUid = 2
  MaxBatches = 4
  MaxDbErrors = 2
  WantedWindow = 5
  Day = 3
  retention_days = 0
  Transit = 1
  MinScore = 70
  MaxTime = 5
  MaxSweepErrors = 1
  TkWorker = {1, 2, 3}
  TkTask = {1, 2}
  TkKey = {"ka", "kb"}
  KeyOf <- MCKeyOf
  Sees <- MCSees
  CamOf <- MCCamOf
  Pulled = {2}
  LIVENESS_TTL = 1
  LEASE_TTL = 1
  TICKET_TTL = 2
  WarnEvery = 2
  QUIET_PERIOD = 2
  WINDOW = 3
  MaxTkTime = 3
  MaxNoteTime = 5
  MaxTickets = 2
  MaxTkErrs = 1
  Writer = {"k1", "k2"}
  Pct = 1
  MaxAsks = 2
  MaxDevFaults = 1
  PlateRead = {"r1", "r2", "r3"}
  Alert = {"motion", "tamper"}
  Rearm = 2
  Idle = 2
  MaxCamTime = 6
  MaxCamErrs = 2
  RelaySlot = {"s1", "s2"}
  Rdv = "rdv"
  Paths <- MCPaths
  MAX_RELAY_BODY = 1
  STALE_AFTER_S = 5
  BackoffCap = 2
  RespawnDelay = 1
  LongPoll = 1
  MaxRelayTime = 8
  MaxJobs = 1
  MaxRelayErrs = 2
  Urls <- MCUrls
  Refresher = {"loop", "admin"}
  TrustedKey = {"build", "operator"}
  allow_unverified = FALSE
  MaxIssues = 2
  MaxCatTime = 2
  MaxCatErrs = 1
  VecCam = {"c1", "c2"}
  VecFrame = {"f1"}
  VecCaller = {"w1", "w2"}
  MaxStored = 2
  MaxVec = 3
  MaxAngle = 2
  VecModel = {"m1", "m2"}
  SCAN_CAP = 2
  MAX_K = 2
  APPEARANCE_MIN_VECTORS = 2
  APPEARANCE_MAX_VECTORS = 3
  MaxVecErrs = 1
  PlugFile = {"f1", "f2"}
  PlugId = {"a", "b"}
  Reserved = {"b"}
  PlugCall = {"c1", "c2"}
  max_events = 1
  max_failures = 2
  MaxEmits = 2
  MaxCalls = 3
  MaxPlugErrs = 1
  BATCH = 2
  MaxEvents = 3
  SMART_INTERVAL = 1
  ALERT_WINDOW = 3
  Mdstat <- MCMdstat
  MediaJob = {"j1", "j2", "j3"}
  MEDIA_LIMIT = 2
  MaxShown = 1
  MaxProbes = 2
  MaxWatchTime = 5
  MaxWatchErrs = 1
INVARIANTS
  DuplicateIsRedelivery
CHECK_DEADLOCK FALSE
