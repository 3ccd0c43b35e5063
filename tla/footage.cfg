SPECIFICATION FootageSpec
CONSTANTS
  TlEnd = 6
  MinGap = 1
  threshold = 2
  anr_max_attempts = 2
  anr_max_gap = 5
  MaxProbeErrors = 1
  Posts = {1, 2, 4}
  CHECK_INTERVAL = 3
  GRACE = 1
  Healthy = 3
  BackoffMax = 4
  SpawnRetry = 2
  MaxEvTime = 9
  MaxEvErrs = 2
  MirEditor = {"e1", "e2"}
  MaxMirEdits = 2
  MaxMirErrors = 2
  Cams = 3
  Wanted <- MCWanted
  ai_budget = 288
  SamEditor = {"e1"}
  MaxSamEdits = 1
  MaxSamErrors = 1
  Viewer = {"v1", "v2"}
  Hls = {"v2"}
  TokenLife = 2
  StaleAge = 2
  LiveEnd = 4
  MaxLiveErrors = 2
  Watcher = {"w1"}
  Editor = {"e1", "e2"}
  MaxEdits = 2
  MaxReads = 1
  Cam = {"c1", "c2"}
  MaxSeg = 4
  max_bytes = 3
  Disk = 7
  floor = 3
  BATCH = 2
  MaxStirs = 1
  Row = {r1, r2}
  QueryPages = 2
  TTL = 1
  PRUNE_BATCH = 1
  VACUUM_PAGES = 1
  max_db = 1
  MaxDet = 1
  MaxUpNow = 3
  MaxUpErrors = 1
  Asker = {"a1", "a2"}
  Horizon = 5
  GAP_TOLERANCE = 1
  evidence_max = 6
  evidence_dir_max = 8
  MaxIndexErrors = 1
  Job = {"j1", "j2"}
  max_concurrent_jobs = 1
  RECHECK = 1
  FileTime = 1
  archive_dir_max = 2
  MaxNow = 4
  MaxDbFailures = 1
  Proc = {1, 2}
  Overlap = FALSE
  LfSegment = {"s"}
  MaxLfErrs = 2
  Key = {"k1", "k2"}
  NoKey = "none"
  MaxSecErrors = 2
INVARIANTS
  
  
  ExportsTrue
  WithdrawalEnds
  
PROPERTIES
  RunsAsOwed
CHECK_DEADLOCK FALSE
