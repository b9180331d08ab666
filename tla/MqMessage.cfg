SPECIFICATION FairSpec
CONSTANTS
  Descriptors = {d1, d2, d3}
  Invalid = Invalid
  MaxMessages = 2
  MaxForeign = 1
INVARIANTS
  HandlesOwned
  CrossedCause
PROPERTIES
  ImplementsChannel
  PushedIsFinished
  DeactivateReturns
CHECK_DEADLOCK FALSE
