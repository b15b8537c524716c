SPECIFICATION Spec
CONSTANTS
  Hosts = {h1, h2}
  Nobody = Nobody
  Dead = Dead
  Ttls = {4}
  Margin = 2
  MaxAnswer = 2
  Mode = "kWorker"
  WaitingMode = "kWait"
  RetryMode = "kRetry"
  MaxCrashes = 1
INVARIANTS
  NoBrainSplit
PROPERTIES
  ReleasedWhenIdle
