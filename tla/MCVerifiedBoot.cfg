CONSTANTS
  SecureBoot = TRUE
  Keys = {"user"}
  Digests = {"os1", "os2"}
  MaxIndex = 1
  Images <- MCImages
  MaxRetry = 1
  MayCrash = TRUE
  MaxFaults = 1

SPECIFICATION Spec

INVARIANTS
  TypeOK
  ColourTrue
  RollbackEarned
  FallbackKept

PROPERTIES
  EioSticks
