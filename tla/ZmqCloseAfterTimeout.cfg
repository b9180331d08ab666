SPECIFICATION FairSpec
CONSTANTS
  Clients = {c1}
  SocketTypes = {"req"}
  Faults = {"timeout"}
  MaxMessages = 2
  MaxRequests = 0
PROPERTY
  CloseReturns
CHECK_DEADLOCK FALSE
