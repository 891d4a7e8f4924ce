SPECIFICATION Spec
CONSTANTS
  SecureBoot = TRUE
  Keys = {}
  Digests = {}
  MaxIndex = 0
  UserBuild = TRUE
  MayCrash = TRUE
  MayFail = TRUE
INVARIANTS
  TypeOK
  WipePending
  RamAgrees
  FailureUndone
  
