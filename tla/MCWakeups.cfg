SPECIFICATION AllSpec
CONSTANTS
  Subjects = {"Mutex", "Semaphore", "CancellableSemaphore", "LightMutex", "ConditionVariable",
    "SharedMutex", "WaitAny", "AutoResetEvent", "ManualResetEvent", "WaitAllChecked", "WorkStealing"}
  Tasks = {t1, t2, t3}
  Pair = {t1, t2}
  NoTask = none
  MaxLocks = 1
  MaxSets = 1
  CounterModulus = 64
  Consumers = {c1, c2}
  Producers = {p1}
  MaxItems = 2
  MaxWaits = 2
  Readers = {r1}
  Writers = {w1, w2}
  kWriterLock = 5
  Awaitables = {a1, a2}
  MaxAppends = 3
  Senders = {s1, s2}
  MaxSends = 2
  Size = 3
  Workers = {th1, th2}
  Stopper = stopper
  Jobs = {j1, j2}
  LocalCapacity = 1
  GrabBatchCap = 2
  StealSize = 2
  StealSeries = 1
CHECK_DEADLOCK FALSE
INVARIANTS
  MutualExclusion
  NoLostWakeup
  SemaphoreSafe
  LightListsSafe
  ConditionVariableSafe
  SharedMutexSafe
  WaitSetsSafe
  WorkStealingSafe
