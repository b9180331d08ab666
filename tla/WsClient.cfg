SPECIFICATION FairSpec
CONSTANTS
  Callers = {a, b}
  MaxConnects = 3
INVARIANTS
  ConnectedAgrees
PROPERTIES
  ConnectReturns
  DeactivateReturns
CHECK_DEADLOCK FALSE
