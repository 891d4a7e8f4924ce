CONSTANTS
  PartitionCount <- MCPartitionCount
  MaxLuns = 2
  Base <- MCBase
  SlotOf <- MCSlotOf
  LunOf <- MCLunOf
  MaxRetry = 2
  UserBuild = FALSE
  MaxCrashes = 0
  MaxFaults = 0
  MaxPreempts = 0

SPECIFICATION FairSpec

PROPERTIES
  BootTerminates
