SPECIFICATION FairSpec
CONSTANTS
  Pushers = {p1, p2}
  Stoppers = {s1}
  Owner = Owner
  Tasks = {a, b}
  MaxPushes = 3
  NoTask = NoTask
INVARIANTS
  TypeOK
  FifoNoLoss
  NoLostWakeup
PROPERTIES
  PushedIsProcessed
  DestructorReturns
  ImplementsExecutor
CHECK_DEADLOCK FALSE
