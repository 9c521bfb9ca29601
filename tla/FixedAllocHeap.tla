--------------------------- MODULE FixedAllocHeap ---------------------------
(***************************************************************************)
(* fixed_alloc with the memory it really works on: the free list is        *)
(* threaded through the free chunks, the block list through the block      *)
(* headers, so both live in memory that the client or the underlying       *)
(* allocator owns at other times.  ObjectPool adds its clients and shows   *)
(* that it implements FixedAlloc.                                          *)
(*                                                                         *)
(* Memory the allocator does not own is written by others; its links are   *)
(* Wild, a node no list may ever come to.                                  *)
(***************************************************************************)
EXTENDS DclListOps, FiniteSets

LOCAL INSTANCE SequencesExt

CONSTANTS Block, NChunk, NoBlock,
  FreeHead,  \* &m_freelist
  BlkHead,   \* &m_blks
  Wild       \* what a link in memory of somebody else points at

FixedAllocHeapAssumption ==
  /\ NChunk \in Nat \ {0}
  /\ NoBlock \notin Block
  /\ Cardinality({FreeHead, BlkHead, Wild} \ Block) = 3

Chunk == Block \X (1..NChunk)
chunkHeader(c) == c[1]
ChunksOf(b) == {b} \X (1..NChunk)
ChunkNode == {FreeHead, BlkHead, Wild} \cup Block \cup Chunk

VARIABLES
  heap,      \* the links of list heads, block headers and chunks
  nUsed, lastBlock, held,
  failed     \* history: list assertions that failed

vars == <<heap, nUsed, lastBlock, held, failed>>

Limit == Cardinality(Chunk) + 1
FreeNodes == Forward(heap, FreeHead, Limit)
BlkNodes  == Forward(heap, BlkHead, Limit)

\* The links of the nodes in S as their next owner leaves them.
Scribble(h, S) ==
  [next |-> [n \in ChunkNode |-> IF n \in S THEN Wild ELSE h.next[n]],
   prev |-> [n \in ChunkNode |-> IF n \in S THEN Wild ELSE h.prev[n]]]

Init ==
  /\ heap = Scribble(Unlinked(ChunkNode), Block \cup Chunk)
  /\ nUsed = [b \in Block |-> 0]
  /\ lastBlock = NoBlock
  /\ held = {}
  /\ failed = {}

-----------------------------------------------------------------------------
\* Mutant: one chunk too few is put on the free list.
NewBlockShort(h, b) ==
  FoldLeft(LAMBDA g, i : InsertFront(g, FreeHead, <<b, i>>),
           InsertFront(h, BlkHead, b),
           [i \in 1..(NChunk - 1) |-> i])

\* do_allocate_block_: the header joins m_blks, the chunks m_freelist, each in front
NewBlock(h, b) ==
  FoldLeft(LAMBDA g, i : InsertFront(g, FreeHead, <<b, i>>),
           InsertFront(h, BlkHead, b),
           [i \in 1..NChunk |-> i])

\* Mutant: only the header is unlinked, the chunks stay on the free list.
EraseHeaderOnly(h, b) == Scribble(Erase(h, b), {b} \cup ChunksOf(b))

\* do_deallocate_block_, and the block's memory after m_alloc.deallocate
EraseBlock(h, b) ==
  LET chunksOut == FoldLeft(LAMBDA g, i : Erase(g, <<b, i>>), h,
                            [i \in 1..NChunk |-> i])
  IN  Scribble(Erase(chunksOut, b), {b} \cup ChunksOf(b))

EraseAsserts(h, b) == \A n \in {b} \cup ChunksOf(b) : Valid(h, n)

\* front() and pop_front() of allocate, then the client's use of the chunk
TakeFront(h) ==
  LET c == FirstOf(h, FreeHead) IN
  /\ heap' = Scribble(Erase(h, c), {c})
  /\ held' = held \cup {c}
  /\ nUsed' = IF IsEmpty(heap, FreeHead)
              THEN [nUsed EXCEPT ![chunkHeader(c)] = 1]
              ELSE [nUsed EXCEPT ![chunkHeader(c)] = @ + 1]
  /\ failed' = failed \cup IF Valid(h, c) THEN {} ELSE {"pop_front"}

Allocate ==
  \/ /\ ~IsEmpty(heap, FreeHead)
     /\ TakeFront(heap)
     /\ UNCHANGED lastBlock
  \/ /\ IsEmpty(heap, FreeHead)
     /\ \E b \in {x \in Block : heap.next[x] = Wild} :
          /\ TakeFront(NewBlock(heap, b))
          /\ lastBlock' = b

Deallocate(c) ==
  LET b == chunkHeader(c)
      pushed == InsertBack(heap, FreeHead, c)
      left == nUsed[b] - 1
  IN
  /\ c \in held
  /\ held' = held \ {c}
  /\ nUsed' = [nUsed EXCEPT ![b] = left]
  /\ IF left = 0 /\ b # lastBlock
     THEN /\ heap' = EraseBlock(pushed, b)
          /\ failed' = failed \cup
               IF EraseAsserts(pushed, b) THEN {} ELSE {"erase_block"}
     ELSE /\ heap' = pushed
          /\ UNCHANGED failed
  /\ UNCHANGED lastBlock

(***************************************************************************)
(* clear() hands every block back first and erases the two list heads      *)
(* afterwards; that erase reads (and, built without assertions, writes)    *)
(* links in blocks that are no longer the allocator's.  Whether the links  *)
(* it reads are still there is up to their new owner: intact.              *)
(***************************************************************************)
Clear(intact) ==
  /\ heap' = Scribble(Unlinked(ChunkNode), Block \cup Chunk)
  /\ held' = {}
  /\ failed' = failed \cup
       IF intact \/ BlkNodes = << >> THEN {} ELSE {"clear"}
  /\ UNCHANGED <<nUsed, lastBlock>>

Next ==
  \/ Allocate
  \/ \E c \in Chunk : Deallocate(c)
  \/ \E intact \in BOOLEAN : Clear(intact)

Spec == Init /\ [][Next]_vars

-----------------------------------------------------------------------------
(***************************************************************************)
(* No list operation of allocate and deallocate follows a link in memory   *)
(* the client or the underlying allocator may have written: every erase    *)
(* finds its node valid, as it asserts.                                    *)
(***************************************************************************)
LinksOwned ==
  /\ failed \subseteq {"clear"}
  /\ \A head \in {FreeHead, BlkHead} :
       Wild \notin Elems(Forward(heap, head, Limit))
         /\ Wild \notin Elems(Backward(heap, head, Limit))

(***************************************************************************)
(* dcl_list.hpp asserts valid() in every erase.                            *)
(***************************************************************************)
EraseAssertionHolds == failed = {}
=============================================================================
