CONSTANT ImageSizes = {0, 1, 2, 3, 4}

SPECIFICATION FairSpec

INVARIANTS
  Type
  AcceptedIsVerified
  GoodImageAccepted

PROPERTY
  ReturnsUnlessFirstReadFails

CHECK_DEADLOCK FALSE
