\* Blocks of 4 units (3 after the header) with a usable size of 4 or 5, requests
\* of 1 and 2 units: plain ones share a block, with a managed one of 1 and its
\* node of 2 when the usable size is 5.  Otherwise that needs a block of its own
\* of just the size of a block; a managed one of 2 always does, of 5 units, more
\* than a block: the pool passes it on to the system, and keeps it afterwards if
\* the first block was as large.  Three addresses and three objects: Root, Sub
\* and the pool each hold a block at the same time.
CONSTANTS
  Addr = {a1, a2, a3}
  CbBlock = 4
  MaxSlack = 1
  FreeLimit = 1
  Root = Root
  Sub = Sub
  MaxObjs = 3
  ObjSize = {1, 2}
SPECIFICATION Spec
INVARIANTS
  PooledSizesFit
  AllocationsDisjoint
  NoBlockLeaked
  DestroyedOnce
PROPERTIES
  DestroyedBeforeReleased
  ClearReturns
