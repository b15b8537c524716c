SPECIFICATION FairSpec
CONSTANTS
  Workers = {w1}
  Clients = {c1}
  Creator = creator
  EvThread = ev
  MaxEpoch = 2
  EpochModulus = 8
CHECK_DEADLOCK FALSE
PROPERTIES
  SleepEnds
