------------------------------ MODULE MCStorage ------------------------------
(***************************************************************************)
(* The allocator of fixed chunks by itself, an object pool over its lists, *)
(* ropes, and a file of records; a behaviour is that of one of the four.   *)
(*   pools: three block addresses of two chunks: enough for a block to be  *)
(*     freed while another is full and the last one is idle, for an        *)
(*     address to come back as a later block, and for a block to go back   *)
(*     in the middle of the walk that clears a pool, with destructors that *)
(*     take two chunks meanwhile: one from a block the walk has still to   *)
(*     come to and one from a new block, or two from either.               *)
(*   a rope: texts copied up to two characters and cut lazily from three   *)
(*     on, so that every node comes up in trees of a few; trees that have  *)
(*     to be balanced when they grow; an iterator that keeps three of the  *)
(*     nodes of its path and four produced characters.                     *)
(*   a recorder: a buffer of three cells, so that a header lies in the     *)
(*     buffer, on the disk or across the two; records of up to four cells, *)
(*     eleven cells in all.                                                *)
(***************************************************************************)
EXTENDS FixedAlloc, RecordFile, SequencesExt

CONSTANTS
  FreeHead, BlkHead, Wild, MaxNew,
  CopyMax, LazyThreshold, FillThreshold, DeepDepth, DeepSize, MaxDepth, BufLen, PathLen, MaxRope, MaxEdits

VARIABLES
  client,    \* "allocator", "pool", "rope" or "recorder"
  heap, used, last, allocated, failed, pod, marked, building, dying, live, born, again, walk, before,
  rope, text, iter

poolVars == <<heap, used, last, allocated, failed, pod, marked, building, dying, live, born, again, walk, before>>

ropeVars == <<rope, text, iter>>

P == INSTANCE ObjectPool WITH nUsed <- used, lastBlock <- last, held <- allocated

T == INSTANCE RopeTree

ASSUME MCStorageAssumption ==
  P!FixedAllocHeapAssumption /\ T!RopeAssumption /\ WriteSizesAssumption /\ RecordAssumption

\* The addresses of blocks are alike.
BlockSymmetry == Permutations(Block)

\* What the recorder puts, and what a file it opens to write held.
Cell == 0..11
NoContent == << >>

Char == {0}
Texts == {<< >>, <<8>>, <<8, 9>>}
Others == {T!Leaf(<<4>>), T!Function(<<5, 6, 7>>)}
Chain(n) == FoldLeft(LAMBDA t, i : T!Concat(t, T!Leaf(<<i, i>>)), T!Leaf(<<8, 9>>), [i \in 1..n |-> i])
Small == {T!Leaf(<<1, 2, 3>>), T!Concat(T!Leaf(<<1, 2>>), T!Leaf(<<3>>)), T!Function(<<1, 2, 3>>)}
Deep == FoldLeft(T!Concat, T!Leaf(<<1>>), <<T!Leaf(<<2, 3>>), T!Leaf(<<4>>), T!Leaf(<<5, 6>>), T!Leaf(<<7>>)>>)
Large ==
  {T!Null, Deep, T!Part(T!Function(<<1, 2, 3, 4, 5>>), 1, 5), Chain(2), T!Leaf(<<1, 2, 3>>), T!Function(<<1, 2, 3, 4, 5>>),
   T!Concat(T!Leaf(<<1, 2>>), T!Concat(T!Function(<<3, 4, 5, 6, 7>>), T!Leaf(<<8>>))),
   T!Concat(T!Concat(T!Leaf(<<1, 2>>), T!Leaf(<<3>>)), T!Concat(T!Leaf(<<4, 5>>), T!Leaf(<<6>>)))}
Scenes == [tree : Large, iters : {{"m"}, {"c"}}] \cup [tree : Small, iters : {{"m", "c"}}]

R == INSTANCE Rope WITH Careful <- TRUE, MaxSize <- MaxRope

MCInit ==
  /\ client \in {"allocator", "pool", "rope", "recorder"}
  /\ Init /\ P!PInit /\ R!RInit /\ RInit
  /\ client # "pool" => pod
  /\ client # "rope" => rope.tree = T!Null /\ DOMAIN iter = {"m"}

MCNext ==
  \/ client = "allocator" /\ Next /\ UNCHANGED <<client, poolVars, ropeVars, rvars>>
  \/ client = "pool" /\ P!PNext /\ UNCHANGED <<client, vars, ropeVars, rvars>>
  \/ client = "rope" /\ R!RNext /\ UNCHANGED <<client, vars, poolVars, rvars>>
  \/ client = "recorder" /\ RNext /\ UNCHANGED <<client, vars, poolVars, ropeVars>>

mcvars == <<client, vars, poolVars, ropeVars, rvars>>
MCSpec == MCInit /\ [][MCNext]_mcvars

\* ObjectPool: outside of clear no list operation follows a link of somebody else.
PoolLinksOwned == client = "pool" => P!PoolLinksOwned
\* ObjectPool: the lists keep what FixedAlloc promises of chunks and blocks.
PoolImplementsFixedAlloc ==
  P!Chunks!Init /\ [][client = "pool" => [P!Chunks!Next]_(P!Chunks!vars)]_mcvars
\* Rope: a rope is the string its client made it.
RopeIsString == client = "rope" => R!RopeIsString
\* Rope: an iterator reads the character at its position.
IteratorsRead == client = "rope" => R!IteratorsRead
=============================================================================
