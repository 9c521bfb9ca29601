\* One allocate followed by clear is enough to look at clear's erase.
CONSTANTS
  Block = {b1, b2, b3}
  NChunk = 2
  NoBlock = NoBlock
  FreeHead = FreeHead
  BlkHead = BlkHead
  Wild = Wild
SPECIFICATION Spec
INVARIANT EraseAssertionHolds
