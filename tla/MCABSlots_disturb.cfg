CONSTANTS
  PartitionCount = 4
  MaxLuns = 1
  Base <- NestedBase
  SlotOf <- NestedSlotOf
  LunOf <- NestedLunOf
  MaxRetry = 1
  UserBuild = TRUE
  MaxCrashes = 0
  MaxFaults = 1
  MaxPreempts = 1

SPECIFICATION Spec

CONSTRAINT OneKind

INVARIANTS
  PassAgrees
  
  BootAgrees
