SPECIFICATION FairSpec
CONSTANTS
  Connections = {c1, c2}
  MaxStarts = 2
INVARIANTS
  MapAgrees
  CloseReported
  HandlerBroadcast
PROPERTIES
  StopReturns
CHECK_DEADLOCK FALSE
