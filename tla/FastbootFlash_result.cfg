CONSTANTS
  MaxDownLoadSize = 2
  MaxImages = 3
  MaxFlashes = 3
  MaxUnplugs = 0

SPECIFICATION Spec

PROPERTIES
  LastResultChecked

CHECK_DEADLOCK FALSE
