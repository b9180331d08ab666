SPECIFICATION Spec
CONSTANTS
  Requests = {r1, r2}
  Names = {a, sys}
  Reserved = {sys}
  Wildcards = {"+", "#"}
  MaxLevels = 2
  Tokens = {k1, k2}
  Kinds = {"sub"}
  BufferSize = 0
  MaxClients = 1
  MaxMessages = 1
  None = None
INVARIANTS
  HandledExactly
SYMMETRY Symmetry
CHECK_DEADLOCK FALSE
