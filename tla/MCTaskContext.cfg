SPECIFICATION Spec
CONSTANTS
  Workers = {w1, w2}
  Clients = {c1}
  Creator = creator
  EvThread = ev
  MaxEpoch = 2
  EpochModulus = 8
SYMMETRY ThreadSymmetry
CHECK_DEADLOCK FALSE
INVARIANTS
  SingleOwner
  SchedulableIffUnowned
  StateMatchesOwner
  WakeupSourceFound
PROPERTIES
  SleepOutcome
  FinishedIsFinal
  ImplementsTaskLife
