--------------------------- MODULE FixedAllocProofs ---------------------------
(***************************************************************************)
(* Proofs about FixedAlloc, for every set of block addresses and every     *)
(* number of chunks in a block.                                            *)
(*                                                                         *)
(* The inductive invariant is the conjunction of the safety invariants the *)
(* module states with the finiteness of what the allocator and its client  *)
(* hold; none of them is inductive alone.  Freeing the right block needs   *)
(* the counter to be right (UsedCounted), counting needs every chunk to be *)
(* in one place (ChunksPartitioned), and that at most one block is idle    *)
(* needs both when a new block is taken.                                   *)
(***************************************************************************)
EXTENDS FixedAlloc, FiniteSetTheorems, FunctionTheorems, TLAPS

IInv ==
  /\ TypeOK
  /\ ChunksPartitioned
  /\ UsedCounted
  /\ IdleBlockIsLast
  /\ IsFiniteSet(held)
  /\ IsFiniteSet(blks)

(***************************************************************************)
(* The chunks of a block are those whose header names it, and there is at  *)
(* least one (init_ asserts m_nChunkPerBlock > 0).                         *)
(***************************************************************************)
LEMMA ChunkFacts ==
  ASSUME NEW b \in Block
  PROVE  /\ ChunksOf(b) # {}
         /\ IsFiniteSet(ChunksOf(b))
         /\ \A c \in Chunk : c \in ChunksOf(b) <=> chunkHeader(c) = b
         /\ \A c \in Chunk : chunkHeader(c) \in Block
<1>1. <<b, 1>> \in ChunksOf(b)
  BY FixedAllocAssumption DEF ChunksOf, Chunk, chunkHeader
<1>2. ChunksOf(b) = {b} \X (1..NChunk)
  BY DEF ChunksOf, Chunk, chunkHeader
<1>3. IsFiniteSet({b}) /\ IsFiniteSet(1..NChunk)
  BY FixedAllocAssumption, FS_Singleton, FS_Interval
<1>4. IsFiniteSet(ChunksOf(b))
  BY <1>2, <1>3, FS_Product, ZenonT(30)
<1> QED
  BY <1>1, <1>4 DEF ChunksOf, Chunk, chunkHeader

(***************************************************************************)
(* Taking a chunk from the client, or giving it one, changes the number of *)
(* held chunks of its own block by one and of no other block.              *)
(***************************************************************************)
LEMMA HeldCounts ==
  ASSUME NEW H, IsFiniteSet(H), NEW c \in Chunk, NEW b \in Block
  PROVE  /\ Cardinality(H \cap ChunksOf(b)) \in Nat
         /\ c \notin H =>
              Cardinality((H \cup {c}) \cap ChunksOf(b)) =
                Cardinality(H \cap ChunksOf(b)) + (IF chunkHeader(c) = b THEN 1 ELSE 0)
         /\ c \in H =>
              Cardinality((H \ {c}) \cap ChunksOf(b)) =
                Cardinality(H \cap ChunksOf(b)) - (IF chunkHeader(c) = b THEN 1 ELSE 0)
<1> DEFINE K == H \cap ChunksOf(b)
<1>1. IsFiniteSet(K) /\ Cardinality(K) \in Nat
  BY FS_Intersection, FS_CardinalityType
<1>2. CASE chunkHeader(c) = b
  <2>1. (H \cup {c}) \cap ChunksOf(b) = K \cup {c} /\ (H \ {c}) \cap ChunksOf(b) = K \ {c}
    BY <1>2 DEF ChunksOf
  <2>2. c \in H <=> c \in K
    BY <1>2 DEF ChunksOf
  <2> HIDE DEF K
  <2>3. c \notin K => Cardinality(K \cup {c}) = Cardinality(K) + 1
    BY <1>1, FS_AddElement
  <2>4. c \in K => Cardinality(K \ {c}) = Cardinality(K) - 1
    BY <1>1, FS_RemoveElement
  <2> QED
    BY <1>1, <1>2, <2>1, <2>2, <2>3, <2>4 DEF K
<1>3. CASE chunkHeader(c) # b
  <2>1. (H \cup {c}) \cap ChunksOf(b) = K /\ (H \ {c}) \cap ChunksOf(b) = K
    BY <1>3 DEF ChunksOf
  <2>2. Cardinality(K) = Cardinality(K) + 0 /\ Cardinality(K) = Cardinality(K) - 0
    BY <1>1
  <2>3. (IF chunkHeader(c) = b THEN 1 ELSE 0) = 0
    BY <1>3
  <2> QED
    BY <1>1, <2>1, <2>2, <2>3, Zenon
<1> QED
  BY <1>2, <1>3

\* A new allocator has no block and no client.
LEMMA InitIInv == Init => IInv
<1> SUFFICES ASSUME Init PROVE IInv
  OBVIOUS
<1>1. TypeOK
  BY DEF Init, TypeOK
<1>2. ChunksPartitioned /\ UsedCounted /\ IdleBlockIsLast
  BY DEF Init, ChunksPartitioned, UsedCounted, IdleBlockIsLast
<1>3. IsFiniteSet(held) /\ IsFiniteSet(blks)
  BY FS_EmptySet DEF Init
<1> QED
  BY <1>1, <1>2, <1>3 DEF IInv

-----------------------------------------------------------------------------
\* allocate from a block with a free chunk.
LEMMA AllocateFreeIInv ==
  ASSUME IInv, NEW c \in Chunk, AllocateFree(c)
  PROVE  IInv'
<1> USE DEF IInv
<1>1. chunkHeader(c) \in blks /\ chunkHeader(c) \in Block /\ c \notin held
  BY DEF AllocateFree, ChunksPartitioned, Chunk, chunkHeader
<1>2. TypeOK'
  BY <1>1 DEF TypeOK, AllocateFree
<1>3. ChunksPartitioned'
  BY DEF TypeOK, AllocateFree, ChunksPartitioned
<1>4. IsFiniteSet(held)' /\ IsFiniteSet(blks)'
  BY FS_AddElement DEF AllocateFree
<1>5. UsedCounted'
  <2> SUFFICES ASSUME NEW b \in blks
               PROVE  nUsed'[b] = Cardinality(held' \cap ChunksOf(b))
    BY DEF UsedCounted, AllocateFree
  <2>1. b \in Block /\ nUsed[b] = Cardinality(held \cap ChunksOf(b))
    BY DEF TypeOK, UsedCounted
  <2>2. Cardinality(held' \cap ChunksOf(b)) =
          nUsed[b] + (IF chunkHeader(c) = b THEN 1 ELSE 0)
    BY <1>1, <2>1, HeldCounts DEF AllocateFree
  <2>3. nUsed'[b] = IF chunkHeader(c) = b THEN nUsed[b] + 1 ELSE nUsed[b]
    BY <2>1 DEF AllocateFree, TypeOK
  <2> QED
    BY <2>1, <2>2, <2>3 DEF TypeOK
<1>6. IdleBlockIsLast'
  <2> SUFFICES ASSUME NEW b \in blks, nUsed'[b] = 0
               PROVE  b = lastBlock
    BY DEF IdleBlockIsLast, AllocateFree
  <2>1. b \in Block /\ nUsed[b] \in Nat
    BY DEF TypeOK
  <2>2. nUsed[b] = 0
    BY <2>1 DEF AllocateFree, TypeOK
  <2> QED
    BY <2>2 DEF IdleBlockIsLast
<1> QED
  BY <1>2, <1>3, <1>4, <1>5, <1>6

\* allocate from a new block of the system.
LEMMA AllocateNewIInv ==
  ASSUME IInv, NEW nb \in Block, NEW c \in ChunksOf(nb), AllocateNew(nb, c)
  PROVE  IInv'
<1> USE DEF IInv
<1>1. c \in Chunk /\ chunkHeader(c) = nb
  BY DEF ChunksOf
<1>2. held \cap ChunksOf(nb) = {} /\ c \notin held
  BY <1>1 DEF AllocateNew, ChunksPartitioned, ChunksOf
<1>3. TypeOK'
  BY <1>1 DEF TypeOK, AllocateNew, ChunksOf
<1>4. ChunksPartitioned'
  <2>1. freelist' \cap held' = {}
    BY <1>2 DEF AllocateNew
  <2>2. held = {d \in Chunk : chunkHeader(d) \in blks}
    BY DEF AllocateNew, ChunksPartitioned
  <2>3. freelist' \cup held' = {d \in Chunk : chunkHeader(d) = nb} \cup held
    BY <1>1 DEF AllocateNew, ChunksOf
  <2>4. freelist' \cup held' = {d \in Chunk : chunkHeader(d) \in blks'}
    BY <2>2, <2>3 DEF AllocateNew
  <2> QED
    BY <2>1, <2>4 DEF ChunksPartitioned
<1>5. IsFiniteSet(held)' /\ IsFiniteSet(blks)'
  BY FS_AddElement DEF AllocateNew
<1>6. UsedCounted'
  <2> SUFFICES ASSUME NEW b \in blks'
               PROVE  nUsed'[b] = Cardinality(held' \cap ChunksOf(b))
    BY DEF UsedCounted
  <2>1. b \in Block
    BY <1>3 DEF TypeOK
  <2>2. Cardinality(held' \cap ChunksOf(b)) =
          Cardinality(held \cap ChunksOf(b)) + (IF nb = b THEN 1 ELSE 0)
    BY <1>1, <1>2, <2>1, HeldCounts DEF AllocateNew
  <2>3. CASE b = nb
    <3>1. Cardinality(held \cap ChunksOf(b)) = 0
      BY <1>2, <2>3, FS_EmptySet
    <3>2. nUsed'[b] = 1
      BY <2>1, <2>3 DEF AllocateNew, TypeOK
    <3> QED
      BY <2>2, <2>3, <3>1, <3>2
  <2>4. CASE b # nb
    <3>1. b \in blks /\ nUsed'[b] = nUsed[b] /\ nUsed[b] \in Nat
      BY <2>1, <2>4 DEF AllocateNew, TypeOK
    <3> QED
      BY <2>2, <2>4, <3>1 DEF UsedCounted
  <2> QED
    BY <2>3, <2>4
<1>7. IdleBlockIsLast'
  <2> SUFFICES ASSUME NEW b \in blks', b # nb
               PROVE  nUsed'[b] # 0
    BY DEF IdleBlockIsLast, AllocateNew
  <2>1. b \in blks /\ b \in Block /\ nUsed'[b] = nUsed[b]
    BY DEF AllocateNew, TypeOK
  <2>2. held \cap ChunksOf(b) # {}
    BY <2>1, ChunkFacts DEF AllocateNew, ChunksPartitioned, ChunksOf
  <2>3. IsFiniteSet(held \cap ChunksOf(b))
    BY FS_Intersection
  <2>4. Cardinality(held \cap ChunksOf(b)) # 0
    BY <2>2, <2>3, FS_EmptySet
  <2> QED
    BY <2>1, <2>4 DEF UsedCounted
<1> QED
  BY <1>3, <1>4, <1>5, <1>6, <1>7

\* deallocate, which may free an idle block.
LEMMA DeallocateIInv ==
  ASSUME IInv, NEW c \in Chunk, Deallocate(c)
  PROVE  IInv'
<1> DEFINE cb == chunkHeader(c)
<1> USE DEF IInv
<1>1. cb \in blks /\ cb \in Block /\ c \in held /\ c \notin freelist
  BY DEF Deallocate, ChunksPartitioned, TypeOK
<1>2. nUsed[cb] > 0
  <2>1. c \in held \cap ChunksOf(cb)
    BY <1>1 DEF ChunksOf
  <2>2. IsFiniteSet(held \cap ChunksOf(cb))
    BY FS_Intersection
  <2>3. Cardinality(held \cap ChunksOf(cb)) \in Nat \ {0}
    BY <2>1, <2>2, FS_EmptySet, FS_CardinalityType
  <2> QED
    BY <1>1, <2>3 DEF UsedCounted
<1> HIDE DEF cb
<1>3. nUsed' = [nUsed EXCEPT ![cb] = @ - 1] /\ held' = held \ {c} /\ lastBlock' = lastBlock
  BY DEF Deallocate, cb
<1>4. blks' \subseteq blks /\ (cb \in blks' \/ ~KeepsBlock(cb))
  BY <1>1 DEF Deallocate, cb
<1>5. TypeOK'
  <2>1. freelist' \subseteq Chunk
    BY DEF Deallocate, TypeOK
  <2> QED
    BY <1>1, <1>2, <1>3, <1>4, <2>1 DEF TypeOK
<1>6. \A b \in blks : nUsed'[b] = Cardinality(held' \cap ChunksOf(b))
  <2> SUFFICES ASSUME NEW b \in blks
               PROVE  nUsed'[b] = Cardinality(held' \cap ChunksOf(b))
    OBVIOUS
  <2>1. b \in Block /\ nUsed[b] \in Nat /\ nUsed[b] = Cardinality(held \cap ChunksOf(b))
    BY DEF TypeOK, UsedCounted
  <2>2. Cardinality(held' \cap ChunksOf(b)) = nUsed[b] - (IF cb = b THEN 1 ELSE 0)
    BY <1>1, <1>3, <2>1, HeldCounts DEF cb
  <2>3. nUsed'[b] = IF cb = b THEN nUsed[b] - 1 ELSE nUsed[b]
    BY <1>3, <2>1 DEF TypeOK
  <2> QED
    BY <2>1, <2>2, <2>3
<1>7. UsedCounted'
  BY <1>4, <1>6 DEF UsedCounted
<1>8. ChunksPartitioned'
  <2>1. CASE KeepsBlock(cb)
    <3>1. freelist' = freelist \cup {c} /\ blks' = blks
      BY <2>1 DEF Deallocate, cb
    <3> QED
      BY <1>1, <1>3, <3>1 DEF ChunksPartitioned
  <2>2. CASE ~KeepsBlock(cb)
    <3>1. freelist' = freelist \ ChunksOf(cb) /\ blks' = blks \ {cb}
      BY <2>2 DEF Deallocate, cb
    <3>2. nUsed'[cb] = 0
      BY <1>1, <1>3, <2>2 DEF KeepsBlock, TypeOK
    <3>3. held' \cap ChunksOf(cb) = {}
      <4>1. IsFiniteSet(held' \cap ChunksOf(cb))
        BY <1>3, FS_RemoveElement, FS_Intersection
      <4> QED
        BY <1>1, <1>6, <3>2, <4>1, FS_EmptySet
    <3>4. freelist' \cap held' = {}
      BY <1>3, <3>1 DEF ChunksPartitioned
    <3>5. freelist' \cup held' = (freelist \cup held) \ ChunksOf(cb)
      <4>1. c \in ChunksOf(cb)
        BY DEF ChunksOf, cb
      <4> QED
        BY <1>3, <3>1, <3>3, <4>1
    <3>6. freelist' \cup held' = {d \in Chunk : chunkHeader(d) \in blks'}
      BY <3>1, <3>5 DEF ChunksPartitioned, ChunksOf
    <3> QED
      BY <3>4, <3>6 DEF ChunksPartitioned
  <2> QED
    BY <2>1, <2>2
<1>9. IsFiniteSet(held)' /\ IsFiniteSet(blks)'
  BY <1>3, <1>4, FS_RemoveElement, FS_Subset
<1>10. IdleBlockIsLast'
  <2> SUFFICES ASSUME NEW b \in blks', nUsed'[b] = 0
               PROVE  b = lastBlock
    BY <1>3 DEF IdleBlockIsLast
  <2>1. b \in blks /\ b \in Block
    BY <1>4 DEF TypeOK
  <2>2. CASE b # cb
    BY <1>3, <2>1, <2>2 DEF IdleBlockIsLast, TypeOK
  <2>3. CASE b = cb
    <3>1. nUsed[cb] = 1
      BY <1>1, <1>3, <2>3 DEF TypeOK
    <3>2. KeepsBlock(cb)
      BY <2>3 DEF Deallocate, cb
    <3> QED
      BY <2>3, <3>1, <3>2 DEF KeepsBlock
  <2> QED
    BY <2>2, <2>3
<1> QED
  BY <1>5, <1>7, <1>8, <1>9, <1>10

\* clear, which frees the blocks whoever holds their chunks.
LEMMA ClearIInv ==
  ASSUME IInv, Clear
  PROVE  IInv'
<1> USE DEF IInv
<1>1. TypeOK'
  BY DEF TypeOK, Clear
<1>2. ChunksPartitioned' /\ UsedCounted' /\ IdleBlockIsLast'
  BY DEF Clear, ChunksPartitioned, UsedCounted, IdleBlockIsLast
<1>3. IsFiniteSet(held)' /\ IsFiniteSet(blks)'
  BY FS_EmptySet DEF Clear
<1> QED
  BY <1>1, <1>2, <1>3

\* Every step keeps the inductive invariant.
LEMMA StepIInv == IInv /\ [Next]_vars => IInv'
<1> SUFFICES ASSUME IInv, [Next]_vars PROVE IInv'
  OBVIOUS
<1>1. CASE UNCHANGED vars
  BY <1>1 DEF vars, IInv, TypeOK, ChunksPartitioned, UsedCounted, IdleBlockIsLast
<1>2. CASE \E c \in Chunk : AllocateFree(c)
  BY <1>2, AllocateFreeIInv
<1>3. CASE \E b \in Block : \E c \in ChunksOf(b) : AllocateNew(b, c)
  BY <1>3, AllocateNewIInv
<1>4. CASE \E c \in Chunk : Deallocate(c)
  BY <1>4, DeallocateIInv
<1>5. CASE Clear
  BY <1>5, ClearIInv
<1> QED
  BY <1>1, <1>2, <1>3, <1>4, <1>5 DEF Next

(***************************************************************************)
(* Every state of fixed_alloc satisfies the inductive invariant.           *)
(***************************************************************************)
THEOREM Invariance == Spec => []IInv
<1>1. Init => IInv
  BY InitIInv
<1>2. IInv /\ [Next]_vars => IInv'
  BY StepIInv
<1> QED
  BY <1>1, <1>2, PTL DEF Spec

(***************************************************************************)
(* fixed_alloc keeps its variables of their types: in particular no nUsed  *)
(* is decremented below zero, where size_t would wrap.                     *)
(***************************************************************************)
THEOREM TypeCorrect == Spec => []TypeOK
<1>1. IInv => TypeOK
  BY DEF IInv
<1> QED
  BY <1>1, Invariance, PTL

(***************************************************************************)
(* No chunk of fixed_alloc is handed out twice, lost, or served from a     *)
(* block that went back to the underlying allocator.                       *)
(***************************************************************************)
THEOREM PartitionCorrect == Spec => []ChunksPartitioned
<1>1. IInv => ChunksPartitioned
  BY DEF IInv
<1> QED
  BY <1>1, Invariance, PTL

(***************************************************************************)
(* The counter in a block's header is the number of its chunks in use.     *)
(***************************************************************************)
THEOREM CountersCorrect == Spec => []UsedCounted
<1>1. IInv => UsedCounted
  BY DEF IInv
<1> QED
  BY <1>1, Invariance, PTL

\* The invariant bounds the blocks.
LEMMA IInvBoundsMemory == IInv => MemoryBounded
<1> SUFFICES ASSUME IInv PROVE MemoryBounded
  OBVIOUS
<1> USE DEF IInv
<1> DEFINE B == blks \ {lastBlock}
           someHeld(b) == CHOOSE c \in held : chunkHeader(c) = b
           f == [b \in B |-> someHeld(b)]
<1>1. ASSUME NEW b \in B
      PROVE  someHeld(b) \in held /\ chunkHeader(someHeld(b)) = b
  <2>1. b \in blks /\ b # lastBlock /\ b \in Block
    BY DEF TypeOK
  <2>2. Cardinality(held \cap ChunksOf(b)) # 0
    BY <2>1 DEF UsedCounted, IdleBlockIsLast
  <2>3. held \cap ChunksOf(b) # {}
    BY <2>2, FS_EmptySet
  <2>4. \E c \in held : chunkHeader(c) = b
    BY <2>3 DEF ChunksOf
  <2> QED
    BY <2>4
<1>2. f \in Injection(B, held)
  <2>1. f \in [B -> held]
    BY <1>1
  <2>2. ASSUME NEW a \in B, NEW b \in B, f[a] = f[b] PROVE a = b
    BY <1>1, <2>2
  <2> HIDE DEF f
  <2> QED
    BY <2>1, <2>2 DEF Injection, IsInjective
<1>3. IsFiniteSet(B) /\ Cardinality(B) <= Cardinality(held)
  <2> HIDE DEF f, B
  <2> QED
    BY <1>2, FS_Injection
<1>4. Cardinality(blks) <= Cardinality(B) + 1
  <2>1. Cardinality(B) = IF lastBlock \in blks THEN Cardinality(blks) - 1
                                               ELSE Cardinality(blks)
    BY FS_RemoveElement
  <2>2. Cardinality(blks) \in Nat
    BY FS_CardinalityType
  <2> QED
    BY <2>1, <2>2
<1>5. Cardinality(blks) \in Nat /\ Cardinality(B) \in Nat /\ Cardinality(held) \in Nat
  BY <1>3, FS_CardinalityType
<1> HIDE DEF B
<1> QED
  BY <1>3, <1>4, <1>5 DEF MemoryBounded

(***************************************************************************)
(* fixed_alloc never keeps more than one block more than its client holds  *)
(* chunks, whatever the order of the calls: every block but the last one   *)
(* allocated has a held chunk, and no two blocks share one.                *)
(***************************************************************************)
THEOREM MemoryBound == Spec => []MemoryBounded
<1> QED
  BY IInvBoundsMemory, Invariance, PTL

\* A step under the invariant pulls no chunk away.
LEMMA StepPullsNothing == IInv /\ IInv' /\ [Next]_vars => NoPull
<1> SUFFICES ASSUME IInv, IInv', [Next]_vars PROVE NoPull
  OBVIOUS
<1> USE DEF IInv
<1>1. CASE blks' = {} /\ held' = {}
  BY <1>1 DEF NoPull
<1>2. CASE blks \subseteq blks'
  BY <1>2 DEF NoPull
<1>3. ASSUME NEW c \in Chunk, Deallocate(c), ~KeepsBlock(chunkHeader(c))
      PROVE  NoPull
  <2> DEFINE cb == chunkHeader(c)
  <2>1. blks \ blks' \subseteq {cb} /\ nUsed[cb] = 1 /\ cb \in Block /\ c \in held
    BY <1>3 DEF Deallocate, KeepsBlock, Chunk, chunkHeader
  <2>2. cb \in blks
    BY <2>1 DEF ChunksPartitioned
  <2>3. Cardinality(held \cap ChunksOf(cb)) = 1
    BY <2>1, <2>2 DEF UsedCounted
  <2>4. held' \cap ChunksOf(cb) = {}
    <3>1. cb \notin blks'
      BY <1>3 DEF Deallocate
    <3> QED
      BY <3>1 DEF ChunksPartitioned, ChunksOf
  <2> QED
    BY <2>1, <2>3, <2>4 DEF NoPull
<1>4. CASE UNCHANGED vars
  BY <1>2, <1>4 DEF vars
<1>5. CASE \E c \in Chunk : AllocateFree(c)
  BY <1>2, <1>5 DEF AllocateFree
<1>6. CASE \E b \in Block : \E c \in ChunksOf(b) : AllocateNew(b, c)
  BY <1>2, <1>6 DEF AllocateNew
<1>7. CASE \E c \in Chunk : Deallocate(c)
  BY <1>2, <1>3, <1>7 DEF Deallocate
<1>8. CASE Clear
  BY <1>1, <1>8 DEF Clear
<1> QED
  BY <1>4, <1>5, <1>6, <1>7, <1>8 DEF Next

(***************************************************************************)
(* A block goes back to the underlying allocator only with its last chunk  *)
(* (or in clear): deallocate never frees the memory of another client.     *)
(***************************************************************************)
THEOREM NoPullCorrect == Spec => NoChunkPulledAway
<1>1. IInv /\ IInv' /\ [Next]_vars => [NoPull]_vars
  BY StepPullsNothing
<1> QED
  BY <1>1, Invariance, PTL DEF Spec, NoChunkPulledAway
=============================================================================
