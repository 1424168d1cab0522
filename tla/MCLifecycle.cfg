SPECIFICATION FairSpec
CHECK_DEADLOCK FALSE
CONSTANTS
  Clients = {c1}
  Modes <- SomeModes
  CloseStatus = {"normal","transient","network","appPermanent","appTransient"}
  ChildErrors = {"overload", "denied", "other"}
  MaxDelayed = 1
INVARIANTS ClientIsTold
PROPERTIES LetGoIsDone StopOverridesRetry StoppingErrorIsKept StoppingEnds OneShotEnds
