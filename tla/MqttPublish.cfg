SPECIFICATION Spec
CONSTANTS
  Requests = {r1, r2, r3}
  Names = {a}
  Reserved = {}
  Wildcards = {}
  MaxLevels = 1
  Tokens = {k1, k2}
  Kinds = {"pub"}
  BufferSize = 0
  MaxClients = 2
  MaxMessages = 0
  None = None
INVARIANTS
  NeverTwice
  MisdeliveryCause
  SilentLossCause
  CorrelationInv
PROPERTY
  DeliveryCause
SYMMETRY Symmetry
CHECK_DEADLOCK FALSE
