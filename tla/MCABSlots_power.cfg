CONSTANTS
  PartitionCount <- MCPartitionCount
  MaxLuns = 2
  Base <- MCBase
  SlotOf <- MCSlotOf
  LunOf <- MCLunOf
  MaxRetry = 2
  UserBuild = FALSE
  MaxCrashes = 1
  MaxFaults = 0
  MaxPreempts = 0

SPECIFICATION Spec

INVARIANTS
  TypeOK
  PrimaryInSync
  BootAgrees
  AttemptsBounded
  SkewPersists
  LunFollows
  ActiveExists
  GuidsPaired

PROPERTIES
  SuccessOnlyFromHlos
  ImplementsPolicy
