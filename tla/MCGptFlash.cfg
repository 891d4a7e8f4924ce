CONSTANTS
  NumSectors = 9
  MaxParts = 2
  BlkSz = 4096
  Ids = {"boot", "data"}
  Images <- MCImages
  MayCrash = TRUE
  MayFail = TRUE

SPECIFICATION Spec

INVARIANTS
  TypeOK
  Flashed
  TableSurvives
