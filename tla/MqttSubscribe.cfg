SPECIFICATION Spec
CONSTANTS
  Requests = {r1, r2, r3}
  Names = {a}
  Reserved = {}
  Wildcards = {}
  MaxLevels = 1
  Tokens = {k1, k2}
  Kinds = {"sub", "unsub"}
  BufferSize = 0
  MaxClients = 2
  MaxMessages = 1
  None = None
INVARIANTS
  ForwardedHasHandler
PROPERTIES
  RetiredHandlerSilent
SYMMETRY Symmetry
CHECK_DEADLOCK FALSE
