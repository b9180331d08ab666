SPECIFICATION FairSpec
CONSTANTS
  MaxDialogues = 2
  MaxCrashes = 1
  MaxLosses = 1
  MaxDuplicates = 1
INVARIANTS
  ProvisionedInv
  FramesAlive
  CleanEnd
PROPERTIES
  WorkerReturns
CHECK_DEADLOCK FALSE
