SPECIFICATION Spec
CONSTANTS
  Clients = {c1, c2}
  SocketTypes = {"req", "rep"}
  Faults = {"timeout", "error"}
  MaxMessages = 3
  MaxRequests = 3
INVARIANTS
  InTurn
  ReplyAfterRequest
PROPERTIES
  StopReaches
  ImplementsChannel
CHECK_DEADLOCK FALSE
