SPECIFICATION AllSpec
CONSTANTS
  Subjects = {"ConnectionPool", "HttpRequest", "PlainRequest", "TpLogger", "BlockingLogger", "FdPoller",
    "AsyncEventChannel", "SharedChannel", "StorageData", "CacheUpdates", "Dumper",
    "CacheDumper", "TestedDumper"}
  Owner = owner
  Worker = worker
  Task = task
  None = none
  Debuggers = {d1}
  MaxVersion = 2
  MaxFailures = 1
  MaxConfigs = 1
  MaxCrashes = 1
  Clients = {q1, q2}
  MinSize = 1
  MaxSize = 2
  MaxQueueSize = 1
  MaxConnects = 2
  MaxMaintains = 1
  MaxCleaned = 1
  Retries = 3
  MaxRequests = 3
  Loggers = {l1, l2}
  Flusher = flusher
  QueueBound = 2
  PushMayFail = TRUE
  kMaxVectorBatchSize = 2
  MaxLogs = 3
  MaxStarts = 1
  MaxEpoch = 2
  Senders = {s1, s2}
  Listeners = {k1, k2}
  Users = {u1}
  Timed = TRUE
  FailedUpdatesBeforeExpiration = 1
  MaxChanges = 2
  MaxInvalidations = 1
  MaxDebugs = 1
  Signallers = {g1}
  Caches = {c1}
  MaxCount = 1
  MaxChecks = 1
  Hosts = {h1}
  Nobody = Nobody
  Dead = Dead
  Ttls = {3}
  Margin = 2
  MaxAnswer = 1
CHECK_DEADLOCK FALSE
INVARIANTS
  ConnectionPoolSafe
  HttpRequestSafe
  TpLoggerSafe
  FdPollerSafe
  EventChannelSafe
  DumperSafe

  
