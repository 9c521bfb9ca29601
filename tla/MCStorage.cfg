CONSTANTS
  Block = {b1, b2, b3}
  NChunk = 2
  NoBlock = NoBlock
  FreeHead = FreeHead
  BlkHead = BlkHead
  Wild = Wild
  MaxNew = 2
  CopyMax = 2
  LazyThreshold = 2
  FillThreshold = 2
  DeepDepth = 4
  DeepSize = 100
  MaxDepth = 4
  BufLen = 4
  PathLen = 3
  MaxRope = 8
  MaxEdits = 1
  BufSize = 3
  Byte <- Cell
  Hole = 0
  OldContent <- NoContent
  WriteModes = {"write"}
  MaxShort = 0
  MaxSize = 11
  RecId = {1, 2}
  Datum = {0, 1}
  MaxData = 4
SYMMETRY BlockSymmetry
SPECIFICATION MCSpec
INVARIANTS
  ChunksPartitioned
  UsedCounted
  MemoryBounded
  PoolLinksOwned
  
  RopeIsString
  IteratorsRead
  RoundTrip
  CrashLeavesPrefix
PROPERTIES
  NoChunkPulledAway
  PoolImplementsFixedAlloc
CHECK_DEADLOCK FALSE
