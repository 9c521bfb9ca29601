----------------------------- MODULE ObjectPool ------------------------------
(***************************************************************************)
(* boost::memory::object_pool: a fixed_alloc whose chunks hold objects.    *)
(* Of a type with a destructor the pool marks, in the header of a chunk,   *)
(* that its object is to be destroyed, and clear destroys what is marked   *)
(* (norm_object_pool_); of another it only hands chunks out (pod).         *)
(*                                                                         *)
(* Constructors and destructors are the client's code: between two steps   *)
(* of the pool they construct and destroy other objects of it, those that  *)
(* clear runs as well (but they do not clear the pool again).              *)
(*                                                                         *)
(* clear takes the heads out of their rings and then looks for the head of *)
(* the blocks, so on a pool that is not empty its walk does not end: it    *)
(* comes to a block that went back.  What it reads there is anything; the  *)
(* model has it run a destructor again or not, and ends ("undefined").     *)
(***************************************************************************)
EXTENDS FixedAllocHeap

CONSTANT MaxNew  \* bound: chunks that the destructors run by one clear take

VARIABLES
  pod,       \* the type has no destructor
  marked,    \* the chunks with the tag bit set
  building,  \* handed out by unmanaged_alloc, not (or never) managed
  dying,     \* the objects whose destroy is under way, the outermost first
  live,      \* history: the managed objects not yet destroyed
  born,      \* history: those managed since clear began
  again,     \* history: a destructor ran on an object that was not live
  walk,      \* clear's walk: where it is, in which block and chunk, what is left
             \* to destroy there, the blocks still in the ring, what was taken
  before     \* history: nUsed and m_lastBlock when clear began

pvars == <<heap, nUsed, lastBlock, held, failed,
           pod, marked, building, dying, live, born, again, walk, before>>
heapvars == vars

Idle == [at |-> "idle", blk |-> NoBlock, next |-> NoBlock, chunk |-> 0, left |-> 0, ring |-> {}, taken |-> 0]
Undefined == [Idle EXCEPT !.at = "undefined"]

Outside == [used |-> [b \in Block |-> 0], last |-> NoBlock]

PInit ==
  /\ Init
  /\ pod \in BOOLEAN
  /\ marked = {} /\ building = {} /\ dying = << >>
  /\ live = {} /\ born = {} /\ again = FALSE
  /\ walk = Idle /\ before = Outside

\* Where client code runs: outside the pool, or in a destructor clear called.
ClientRuns == walk.at = "idle" \/ walk.at = "destructor"
-----------------------------------------------------------------------------
\* unmanaged_alloc, and the allocation of construct.  A constructor that
\* throws is one after which Manage never comes: nothing takes the chunk back.
\* In a destructor that clear runs, the free list may lead into what it gave back.
UnmanagedAlloc ==
  /\ ClientRuns
  /\ Allocate
  /\ building' = IF pod THEN {} ELSE building \cup (held' \ held)
  /\ \/ walk.at = "idle" /\ UNCHANGED walk
     \/ /\ walk.at = "destructor" /\ walk.taken < MaxNew
        /\ walk' = IF "pop_front" \in failed' THEN Undefined ELSE [walk EXCEPT !.taken = @ + 1]
  /\ UNCHANGED <<pod, marked, dying, live, born, again, before>>

Manage(c) ==
  /\ ClientRuns /\ c \in building
  /\ building' = building \ {c}
  /\ marked' = marked \cup {c}
  /\ live' = live \cup {c}
  /\ born' = IF walk.at = "destructor" THEN born \cup {c} ELSE born
  /\ UNCHANGED <<heapvars, pod, dying, again, walk, before>>

\* destroy(obj) up to the destructor
BeginDestroy(c) ==
  /\ ClientRuns /\ c \in live
  /\ marked' = marked \ {c}
  /\ live' = live \ {c} /\ born' = born \ {c}
  /\ dying' = Append(dying, c)
  /\ walk' = IF c \in held THEN walk ELSE Undefined
  /\ UNCHANGED <<heapvars, pod, building, again, before>>

\* ... and from there.  Under clear the block may go back before its turn came,
\* and the lists may lead into one that clear gave back.
EndDestroy ==
  /\ ClientRuns /\ dying # << >>
  /\ Deallocate(dying[Len(dying)])
  /\ dying' = SubSeq(dying, 1, Len(dying) - 1)
  /\ \/ walk.at = "idle" /\ UNCHANGED walk
     \/ /\ walk.at = "destructor"
        /\ walk' = IF "erase_block" \in failed' \/ heap.next[LastOf(heap, FreeHead)] = Wild
                   THEN Undefined
                   ELSE [walk EXCEPT !.ring = {b \in @ : heap'.next[b] # Wild}]
  /\ UNCHANGED <<pod, marked, building, live, born, again, before>>
-----------------------------------------------------------------------------

\* do_clear_block_ at the chunk c
Visit(w, c) ==
  IF c \in marked
  THEN [w EXCEPT !.chunk = @ + 1, !.left = @ - 1, !.at = "destructor"]
  ELSE [w EXCEPT !.chunk = @ + 1]

ClearStart ==
  /\ ~pod /\ walk.at = "idle" /\ dying = << >>
  /\ before' = [used |-> nUsed, last |-> lastBlock]
  /\ walk' = [Idle EXCEPT !.at = "block", !.blk = FirstOf(heap, BlkHead), !.ring = Elems(BlkNodes)]
  /\ heap' = Erase(Erase(heap, BlkHead), FreeHead)
  /\ UNCHANGED <<nUsed, lastBlock, held, failed, pod, marked, building, dying, live, born, again>>

\* The loop of clear, at a block that is there
ClearBlock ==
  /\ walk.at = "block" /\ (Done(BlkHead, walk.blk) \/ walk.blk \in walk.ring)
  /\ walk' =
       IF Done(BlkHead, walk.blk) THEN Idle
       ELSE [walk EXCEPT !.at = IF nUsed[walk.blk] = 0 THEN "give back" ELSE "chunk",
                         !.next = heap.next[walk.blk], !.chunk = 1, !.left = nUsed[walk.blk]]
  /\ before' = IF Done(BlkHead, walk.blk) THEN Outside ELSE before
  /\ UNCHANGED <<heapvars, pod, marked, building, dying, live, born, again>>

\* ... at one that went back, or was taken anew since.  If nobody has written to
\* it the objects that were in it are destroyed again.
ComeAround ==
  /\ walk.at = "block" /\ ~Done(BlkHead, walk.blk) /\ walk.blk \notin walk.ring
  /\ walk' = Undefined
  /\ again' \in {again, again \/ (heap.next[walk.blk] = Wild /\ nUsed[walk.blk] # 0)}
  /\ UNCHANGED <<heapvars, pod, marked, building, dying, live, born, before>>

\* Behind the last chunk there is nothing to end the walk either.
ClearChunk ==
  /\ walk.at = "chunk"
  /\ LET c == <<walk.blk, walk.chunk>> IN
     IF walk.chunk > NChunk
     THEN walk' = Undefined /\ UNCHANGED <<live, born, again>>
     ELSE LET w == Visit(walk, c) IN
          /\ walk' = w
          /\ IF w.at = "destructor"
             THEN live' = live \ {c} /\ born' = born \ {c} /\ again' = (again \/ c \notin live)
             ELSE UNCHANGED <<live, born, again>>
  /\ UNCHANGED <<heapvars, pod, marked, building, dying, before>>

\* The destructor returns; the block is done when as many objects are
\* destroyed as it had when its turn came.
DestructorReturns ==
  /\ walk.at = "destructor" /\ dying = << >>
  /\ walk' = [walk EXCEPT !.at = IF walk.left = 0 THEN "give back" ELSE "chunk"]
  /\ UNCHANGED <<heapvars, pod, marked, building, dying, live, born, again, before>>

GiveBack ==
  /\ walk.at = "give back"
  /\ LET gone == {walk.blk} \cup ChunksOf(walk.blk) IN
     /\ heap' = Scribble(heap, gone)
     /\ held' = held \ gone /\ marked' = marked \ gone
     /\ building' = building \ gone
  /\ walk' = [Idle EXCEPT !.at = "block", !.blk = walk.next, !.ring = walk.ring \ {walk.blk},
                          !.taken = walk.taken]
  /\ UNCHANGED <<nUsed, lastBlock, failed, pod, dying, live, born, again, before>>

\* pod_object_pool_ uses clear of fixed_alloc.
PodClear(intact) ==
  /\ pod /\ Clear(intact)
  /\ UNCHANGED <<pod, marked, building, dying, live, born, again, walk, before>>

PodDestroy(c) ==
  /\ pod /\ Deallocate(c)
  /\ UNCHANGED <<pod, marked, building, dying, live, born, again, walk, before>>

PNext ==
  \/ UnmanagedAlloc
  \/ \E c \in Chunk : Manage(c) \/ BeginDestroy(c) \/ PodDestroy(c)
  \/ EndDestroy
  \/ ClearStart \/ ClearBlock \/ ComeAround \/ ClearChunk \/ DestructorReturns \/ GiveBack
  \/ \E intact \in BOOLEAN : PodClear(intact)

PSpec == PInit /\ [][PNext]_pvars
-----------------------------------------------------------------------------
(***************************************************************************)
(* Through a pool, too, the links keep the promises of FixedAlloc; clear   *)
(* of the pool is clear of the allocator, at the moment it begins, and     *)
(* what its destructors allocate after that is no part of the promise.     *)
(***************************************************************************)
Clearing == walk.at # "idle"
Unless(cleared, e) == IF Clearing THEN cleared ELSE e
Chunks == INSTANCE FixedAlloc WITH
            blks <- Unless({}, Elems(BlkNodes)),
            freelist <- Unless({}, Elems(FreeNodes)),
            held <- Unless({}, held),
            nUsed <- Unless(before.used, nUsed),
            lastBlock <- Unless(before.last, lastBlock)
PoolImplementsFixedAlloc == Chunks!Spec

(***************************************************************************)
(* As long as no clear is under way, no list operation follows a link in   *)
(* memory that somebody else may have written.                             *)
(***************************************************************************)
PoolLinksOwned == Clearing \/ LinksOwned

=============================================================================
