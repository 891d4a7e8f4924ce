SPECIFICATION Spec
CONSTANTS
  SecureBoot = TRUE
  Keys = {}
  Digests = {}
  MaxIndex = 0
  UserBuild = TRUE
  MayCrash = FALSE
  MayFail = FALSE
INVARIANT DataDeleted
