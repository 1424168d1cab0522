SPECIFICATION FairSpec
CHECK_DEADLOCK FALSE
CONSTANTS
  Requests <- SomeRequests
  BigFrame = 2
  SmallFrame = 1
  MaxUnacked = 2
  AckThreshold = 2
  SendBuffer = 1
  Damaged = {"REQ", "RES"}
  MaxFaults = 1
INVARIANTS NoProtocolError FlowIsControlled OneOutcome ClosedSettlesAll
PROPERTY EveryRequestEnds
