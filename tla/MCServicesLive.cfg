SPECIFICATION FairSpec
CONSTANTS
  Subjects = {"ConnectionPool", "PlainRequest", "BlockingLogger", "FdPoller", "CacheUpdates", "Dumper",
    "DistLockedTask"}
  Owner = owner
  Worker = worker
  Task = task
  None = none
  Debuggers = {}
  MaxVersion = 2
  MaxFailures = 0
  MaxConfigs = 0
  MaxCrashes = 0
  Clients = {q1, q2}
  MinSize = 1
  MaxSize = 1
  MaxQueueSize = 1
  MaxConnects = 1
  MaxMaintains = 1
  MaxCleaned = 1
  Retries = 3
  MaxRequests = 3
  Loggers = {l1, l2}
  Flusher = flusher
  QueueBound = 2
  PushMayFail = FALSE
  kMaxVectorBatchSize = 2
  MaxLogs = 2
  MaxStarts = 1
  MaxEpoch = 1
  Senders = {s1, s2}
  Listeners = {k1, k2}
  Users = {u1}
  Timed = FALSE
  FailedUpdatesBeforeExpiration = 0
  MaxChanges = 2
  MaxInvalidations = 2
  MaxDebugs = 0
  Signallers = {g1}
  Caches = {c1}
  MaxCount = 1
  MaxChecks = 0
  Hosts = {h1}
  Nobody = Nobody
  Dead = Dead
  Ttls = {3}
  Margin = 2
  MaxAnswer = 1
CHECK_DEADLOCK FALSE
PROPERTIES
  AnswersCome
