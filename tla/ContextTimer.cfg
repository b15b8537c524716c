SPECIFICATION FairSpec
CONSTANT MaxPush = 4
CHECK_DEADLOCK FALSE
INVARIANTS
  BuffersExclusive
  NothingLost
PROPERTIES
  EventuallyArmed
