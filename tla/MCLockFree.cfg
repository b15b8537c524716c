SPECIFICATION AllSpec
CONSTANTS
  Subjects = {"SpmcQueue", "MpscQueue", "ReadIndicator", "AsyncRcu", "SyncRcu", "MpmcQueue"}
  Owner = owner
  Thieves = {th1}
  BufferSize = 4
  MaxBatch = 2
  MaxTail = 7
  Nodes = {n1, n2, n3}
  Producers = {p1, p2}
  Stub = stub
  None = none
  Handles = {h1, h2}
  Stripes = {c1, c2}
  Modulus = 6
  MaxLocks = 4
  MaxChecks = 2
  Readers = {r1, r2}
  Writers = {w1, w2}
  MaxRecords = 3
  MaxCommits = 3
  Consumers = {q1, q2}
  MaxSize = 2
  MaxPushes = 3
  MaxLives = 6
CHECK_DEADLOCK FALSE
INVARIANTS
  HeadNotAfterTail
  RcuSafe
  MpmcQueueSafe
PROPERTIES
  TakesTheOldest
  MpscIsFifo
