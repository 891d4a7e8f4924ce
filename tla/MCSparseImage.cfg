CONSTANTS
  BlockSize = 2
  PartitionBlocks = 4
  MaxUint32 = 5
  HeaderSz = 1
  ChunkHdrSz = 1
  FillSz = 1
  Headers <- MCHeaders
  Chunks <- MCChunks

SPECIFICATION Spec

INVARIANTS
  TypeOK
  InBounds
  Exact
  Accepts
