CONSTANTS
  MaxDownLoadSize = 2
  MaxImages = 2
  MaxFlashes = 2
  MaxUnplugs = 1

SPECIFICATION FairSpec

INVARIANTS
  FlashTypeOK
  BuffersApart
  FlashIntact
  QuietWhenWaited

PROPERTIES
  HandlerReturns

CHECK_DEADLOCK FALSE
