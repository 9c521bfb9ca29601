----------------------------- MODULE FixedAlloc -----------------------------
(***************************************************************************)
(* boost::memory::fixed_alloc: an allocator of equal chunks, carved out of *)
(* blocks that come from an underlying allocator and that go back to it as *)
(* soon as none of their chunks is in use.                                 *)
(*                                                                         *)
(* This module says which chunks, blocks and counters every operation      *)
(* changes; the free list is the set of its nodes, so allocate may take    *)
(* any free chunk.  FixedAllocHeap adds the circular lists the code really *)
(* threads through the chunks and the order they impose, and implements    *)
(* this module.                                                            *)
(***************************************************************************)
EXTENDS Naturals, FiniteSets

CONSTANTS
  Block,     \* addresses the underlying allocator can hand out for a block
  NChunk,    \* m_nChunkPerBlock
  NoBlock    \* NULL

ASSUME FixedAllocAssumption ==
  /\ NChunk \in Nat \ {0}      \* asserted by init_
  /\ NoBlock \notin Block

(***************************************************************************)
(* A chunk is the i-th chunk of a block; chunkHeader_ of a chunk is its    *)
(* block, written once by do_allocate_block_ and never changed.            *)
(***************************************************************************)
Chunk == Block \X (1..NChunk)
chunkHeader(c) == c[1]
ChunksOf(b) == {c \in Chunk : chunkHeader(c) = b}

VARIABLES
  blks,       \* m_blks: the blocks the allocator owns
  freelist,   \* m_freelist: the nodes on the free list
  nUsed,      \* MemBlock::nUsed of every block
  lastBlock,  \* m_lastBlock
  held        \* the chunks the client holds: allocated, not yet deallocated

vars == <<blks, freelist, nUsed, lastBlock, held>>

TypeOK ==
  /\ blks \subseteq Block
  /\ freelist \subseteq Chunk
  /\ nUsed \in [Block -> Nat]
  /\ lastBlock \in Block \cup {NoBlock}
  /\ held \subseteq Chunk

Init ==
  /\ blks = {}
  /\ freelist = {}
  /\ nUsed = [b \in Block |-> 0]
  /\ lastBlock = NoBlock
  /\ held = {}

-----------------------------------------------------------------------------
(***************************************************************************)
(* allocate().  With a free chunk, count it in its block and unlink it;    *)
(* with none, do_allocate_block_ first takes a new block (an address the   *)
(* allocator does not own at the moment) and frees its chunks.             *)
(***************************************************************************)
\* Mutant: the chunk leaves the list without being counted in its block.
AllocateUncounted(c) ==
  /\ c \in freelist
  /\ freelist' = freelist \ {c}
  /\ held' = held \cup {c}
  /\ UNCHANGED <<blks, nUsed, lastBlock>>

AllocateFree(c) ==
  /\ c \in freelist
  /\ nUsed' = [nUsed EXCEPT ![chunkHeader(c)] = @ + 1]
  /\ freelist' = freelist \ {c}
  /\ held' = held \cup {c}
  /\ UNCHANGED <<blks, lastBlock>>

AllocateNew(b, c) ==
  /\ freelist = {}
  /\ b \notin blks
  /\ c \in ChunksOf(b)
  /\ blks' = blks \cup {b}
  /\ lastBlock' = b
  /\ nUsed' = [nUsed EXCEPT ![b] = 1]
  /\ freelist' = ChunksOf(b) \ {c}
  /\ held' = held \cup {c}

(***************************************************************************)
(* deallocate(p) of a chunk the client holds.  The chunk goes back to the  *)
(* free list; a block whose last chunk came back is unlinked and freed by  *)
(* do_deallocate_block_, its chunks leaving the free list, unless it is    *)
(* the block allocated last.                                               *)
(***************************************************************************)
\* Mutant: the counter tested before it is decremented; no block freed early.
KeepsUnlessTwo(b) == nUsed[b] # 2 \/ b = lastBlock
KeepsEveryBlock(b) == b \in blks

KeepsBlock(b) == nUsed[b] # 1 \/ b = lastBlock

\* Mutant: the block is freed and its chunks stay on the free list.
DeallocateChunksStay(c) ==
  LET b == chunkHeader(c) IN
  /\ c \in held
  /\ nUsed' = [nUsed EXCEPT ![b] = @ - 1]
  /\ held' = held \ {c}
  /\ freelist' = freelist \cup {c}
  /\ blks' = IF KeepsBlock(b) THEN blks ELSE blks \ {b}
  /\ UNCHANGED lastBlock

Deallocate(c) ==
  LET b == chunkHeader(c) IN
  /\ c \in held
  /\ nUsed' = [nUsed EXCEPT ![b] = @ - 1]
  /\ held' = held \ {c}
  /\ IF KeepsBlock(b)
     THEN /\ freelist' = freelist \cup {c}
          /\ UNCHANGED blks
     ELSE /\ freelist' = freelist \ ChunksOf(b)
          /\ blks' = blks \ {b}
  /\ UNCHANGED lastBlock

(***************************************************************************)
(* clear(), also the destructor's body: every block goes back, whatever    *)
(* the client still holds, and both lists become empty.  m_lastBlock keeps *)
(* its value.                                                              *)
(***************************************************************************)
Clear ==
  /\ blks' = {}
  /\ freelist' = {}
  /\ held' = {}
  /\ UNCHANGED <<nUsed, lastBlock>>

Next ==
  \/ \E c \in Chunk : AllocateFree(c)
  \/ \E b \in Block : \E c \in ChunksOf(b) : AllocateNew(b, c)
  \/ \E c \in Chunk : Deallocate(c)
  \/ Clear

Spec == Init /\ [][Next]_vars

-----------------------------------------------------------------------------
(***************************************************************************)
(* Every chunk of an owned block is either free or held, never both, and   *)
(* nothing outside the owned blocks is: no chunk is handed out twice, lost *)
(* or served from a block that went back to the underlying allocator.      *)
(***************************************************************************)
ChunksPartitioned ==
  /\ freelist \cap held = {}
  /\ freelist \cup held = {c \in Chunk : chunkHeader(c) \in blks}

(***************************************************************************)
(* The counter a block is freed by is the number of its chunks in use, so  *)
(* the assertion of deallocate (0 < nUsed <= m_nChunkPerBlock) holds for   *)
(* every chunk a client may pass.                                          *)
(***************************************************************************)
UsedCounted ==
  \A b \in blks : nUsed[b] = Cardinality(held \cap ChunksOf(b))

(***************************************************************************)
(* A block that stays although none of its chunks is in use is the one     *)
(* allocated last; MemoryBounded rests on it.                              *)
(***************************************************************************)
IdleBlockIsLast ==
  \A b \in blks : nUsed[b] = 0 => b = lastBlock

(***************************************************************************)
(* While a new block is only taken with no chunk free, at most one block   *)
(* is idle: the memory the allocator keeps is bounded by what its clients  *)
(* hold, whatever order they free in.                                      *)
(***************************************************************************)
MemoryBounded == Cardinality(blks) <= Cardinality(held) + 1

(***************************************************************************)
(* A step that takes a block back leaves no client with a chunk of it,     *)
(* and only clear takes a chunk away from a client that did not free it    *)
(* (at most one chunk changes hands in any other step).                    *)
(***************************************************************************)
NoPull ==
  \/ blks' = {} /\ held' = {}
  \/ \A b \in blks \ blks' : /\ Cardinality(held \cap ChunksOf(b)) = 1
                             /\ held' \cap ChunksOf(b) = {}

NoChunkPulledAway == [][NoPull]_vars
=============================================================================
