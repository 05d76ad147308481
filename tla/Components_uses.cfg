CONSTANTS
  Conns = {x1, x2, x3, x4}
  Acquirers = {u1, u2}
  Cleaners = {n1, n2}
  None = None
  Limits <- MCLimits
  Calls = {"k1", "k2"}
  Clients = {"c1", "c2"}
  Devices = {"d1", "d2"}
  SomeClients = {"c1"}
  SomeDevices = {"d1"}
  MaxFailed = 2
  LockoutDuration = 1
  LockoutTime = 2
  Tokens = {"t1", "t2"}
  SessionDuration = 0
  MaxAuthConnections = 1
  MaxAborts = 1
  MaxInvolved = 3
  SessionTime = 1
  WindowMs = 2
  MaxRequests = 2
  LimiterTime = 3
  RotationInterval = 2
  MaxKeyAge = 3
  MaxKeys = 1
  MaxMade = 2
  KeyTime = 4
  Codes = {"a1", "a2"}
  OAuthSessions = {"s1", "s2"}
  Users = {"u1"}
  CodeExpiry = 1
  SessionExpiry = 1
  MaxSessions = 1
  TokenTime = 2
  Ips = {"i1"}
  MaxAuthFailures = 2
  MaxConcurrentAudits = 1
  MaxConcurrentScans = 1
  MaxListeners = 2
  MaxLost = 1
  QueuedOperations = {"o1", "o2", "o3", "o4"}
  Ranks = {1, 2}
  MaxBatchSize = 3
  Requests = {"k1", "k2"}
  MaxAttempts = 3
  MaxLimitConnections = 1
  MaxCpuUsage = 1
  MaxNetworkUsage = 2
  Sizes = {0, 1, 2}
  MaxOpen = 2
  MaxCpu = 4
  Bytes = {100, 500}
  Batteries = {10, 50, 100}
  CacheKeys = {"x", "y"}
  Buffers = {b1}
  MaxAge = 1
  PoolSize = 1
  PreloadBatch = 1
  Ttls = {1}
  MaxSets = 2
  MaxPending = 2
  Asked = {"medium"}
  MaxFailoverAttempts = 2
  MaxPingFailures = 2
  MaxErrors = 2
  MaxRuns = 2
  Txs = {"t1"}
  MaxCrashes = 1
  RecoveryAttempts = 2
  MaxSaved = 1
  Retries = {"r1", "r2"}
  MaxRetries = 2
  QuiescenceRetries = 2
SPECIFICATION ComponentsSpec
VIEW View
INVARIANTS BlePoolAccounted LockoutHonoured RemovedStaysRemoved RateBounded KeysSound CodeExchangedOnce ThreatsAnswered AuditsAccounted ScansAccounted ConnectionsReleased OperationsAccounted SubscriptionsAccounted LimitsAccounted TuningServes CachingSound NoOrphanTimer LogFollowsPool RecoverySound ClosedIsClean
PROPERTIES ExpiredRemoved EarlyOperationsRun LockedUntilSuccess
CHECK_DEADLOCK FALSE
