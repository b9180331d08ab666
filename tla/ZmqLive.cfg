SPECIFICATION FairSpec
CONSTANTS
  Clients = {c1}
  SocketTypes = {"req", "rep"}
  Faults = {}
  MaxMessages = 2
  MaxRequests = 2
INVARIANT
  NewestKept
PROPERTIES
  DoneOnReturn
  OpenReturns
  CloseReturns
CHECK_DEADLOCK FALSE
