CONSTANTS
  PartitionCount <- MCPartitionCount
  MaxLuns = 2
  Base <- MCBase
  SlotOf <- MCSlotOf
  LunOf <- MCLunOf
  MaxRetry = 1
  UserBuild = FALSE
  MaxCrashes = 1
  MaxFaults = 0
  MaxPreempts = 0

SPECIFICATION Spec

PROPERTIES
  BothCopiesUpdated
