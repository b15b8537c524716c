SPECIFICATION FairSpec
CONSTANTS
  Senders = {s1}
  Listeners = {k1, k2}
  MaxVersion = 1
  Kinds = {"add"}
  CallbackCalls = {"subscribe"}
CHECK_DEADLOCK FALSE
PROPERTIES
  SendReturns
