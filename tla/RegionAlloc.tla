----------------------------- MODULE RegionAlloc -----------------------------
(***************************************************************************)
(* boost::memory::region_alloc over a block_pool (scoped_alloc): memory is *)
(* cut off the end of the newest block and never given back on its own;    *)
(* clear runs the destructors of the managed objects, newest first, and    *)
(* then gives every block back to the pool.                                *)
(*                                                                         *)
(* Sub is a region that is itself an object in Root, as in the examples    *)
(* (BOOST_MEMORY_NEW(alloc, scoped_alloc)(alloc.get_alloc())): its         *)
(* destructor is a clear nested in the clear of Root, on the same pool.    *)
(* Sizes are in units of a pointer; a block's header takes one, the        *)
(* DestroyNode in front of a managed object two.                           *)
(***************************************************************************)
EXTENDS BlockPool

CONSTANTS
  Root, Sub,   \* the two regions
  MaxObjs,     \* bound: objects that exist at a time
  ObjSize      \* sizes of the requests

\* A block has room for more than its header, and an object has a size.
ASSUME RegionAllocAssumption ==
  /\ Root # Sub
  /\ CbBlock > 1
  /\ MaxObjs \in Nat
  /\ ObjSize \subseteq Nat \ {0}

Region == {Root, Sub}
BlockSize == CbBlock - 1
NodeSize == 2   \* sizeof(DestroyNode)
ObjId == 1..MaxObjs
None == 0

VARIABLES
  chain,         \* the blocks of every region, header first, linked by pPrev
  room,          \* m_end - m_begin
  destroyChain,  \* m_destroyChain: managed objects, newest first
  objs,          \* the allocations: where they are and what became of them
  clearing,      \* call stack of clear(), innermost first
  dtor           \* the object whose destructor each clear is running

vars == <<poolVars, chain, room, destroyChain, objs, clearing, dtor>>

Live == DOMAIN objs
Blocks(r) == {chain[r][i] : i \in DOMAIN chain[r]}
Managed(r) == {destroyChain[r][i] : i \in DOMAIN destroyChain[r]}

\* init_() without BOOST_MEMORY_PREALLOC, its default: no block until one is needed
Init ==
  /\ PoolInit
  /\ chain = [r \in Region |-> << >>]
  /\ room = [r \in Region |-> 0]
  /\ destroyChain = [r \in Region |-> << >>]
  /\ objs = << >>
  /\ clearing = << >>
  /\ dtor = [r \in Region |-> None]

-----------------------------------------------------------------------------
\* Client code runs outside clear, or in a destructor the innermost clear called.
ClientRuns == clearing # << >> => dtor[Head(clearing)] # None

\* Sub can be used from the end of its constructor to the end of its destructor.
Usable(r) ==
  r = Sub => \E id \in Live : objs[id].sub /\ (objs[id].state = "managed" \/ dtor[Root] = id)

\* Objects are alike but for what is recorded of them.
NewId == CHOOSE id \in ObjId \ Live : TRUE

\* A new allocation of r: units lo to hi - 1 of block p
Place(r, p, lo, hi, state, sub) ==
  objs' = [id \in Live \cup {NewId} |->
             IF id = NewId
             THEN [region |-> r, blk |-> p, lo |-> lo, hi |-> hi, state |-> state, sub |-> sub]
             ELSE objs[id]]

CarveFromRoom(r, cb, state, sub) ==
  /\ room[r] >= cb
  /\ room' = [room EXCEPT ![r] = @ - cb]
  /\ Place(r, Head(chain[r]), 1 + room[r] - cb, 1 + room[r], state, sub)
  /\ UNCHANGED <<poolVars, chain>>

\* Mutant: the header is linked to the dedicated block, that one to nothing.
CarveDedicatedLosesTail(r, cb, state, sub) ==
  /\ room[r] < cb /\ cb >= BlockSize
  /\ \E p \in Addr :
       /\ PoolAllocate(1 + cb, p)
       /\ chain' = [chain EXCEPT ![r] = IF @ # << >> THEN <<Head(@), p>> ELSE <<p>>]
       /\ room' = IF chain[r] # << >> THEN room ELSE [room EXCEPT ![r] = 0]
       /\ Place(r, p, 1, 1 + cb, state, sub)

\* do_allocate_ for a request no block can hold: a block of its own, linked
\* behind the header, so that the current block stays current
CarveDedicated(r, cb, state, sub) ==
  /\ room[r] < cb /\ cb >= BlockSize
  /\ \E p \in Addr :
       /\ PoolAllocate(1 + cb, p)
       /\ IF chain[r] # << >>
          THEN /\ chain' = [chain EXCEPT ![r] = <<Head(@), p>> \o Tail(@)]
               /\ UNCHANGED room
          ELSE /\ chain' = [chain EXCEPT ![r] = <<p>>]
               /\ room' = [room EXCEPT ![r] = 0]
       /\ Place(r, p, 1, 1 + cb, state, sub)

\* Mutant: the room counted from the block instead of from its buffer.
CarveFromNewOffByHeader(r, cb, state, sub) ==
  /\ room[r] < cb /\ cb < BlockSize
  /\ \E p \in Addr :
       /\ PoolAllocate(CbBlock, p)
       /\ chain' = [chain EXCEPT ![r] = <<p>> \o @]
       /\ room' = [room EXCEPT ![r] = sys'[p] - cb]
       /\ Place(r, p, sys'[p] - cb, sys'[p], state, sub)

\* do_allocate_ otherwise: a new current block, all the size the pool reports
CarveFromNew(r, cb, state, sub) ==
  /\ room[r] < cb /\ cb < BlockSize
  /\ \E p \in Addr :
       /\ PoolAllocate(CbBlock, p)
       /\ chain' = [chain EXCEPT ![r] = <<p>> \o @]
       /\ room' = [room EXCEPT ![r] = sys'[p] - 1 - cb]
       /\ Place(r, p, sys'[p] - cb, sys'[p], state, sub)

\* allocate(cb)
Carve(r, cb, state, sub) ==
  /\ ClientRuns /\ Usable(r) /\ Live # ObjId
  /\ \/ CarveFromRoom(r, cb, state, sub)
     \/ CarveDedicated(r, cb, state, sub)
     \/ CarveFromNew(r, cb, state, sub)
  /\ UNCHANGED <<destroyChain, clearing, dtor>>

Allocate(r, cb) == Carve(r, cb, "plain", FALSE)

(***************************************************************************)
(* unmanaged_alloc(cb, fn): memory for a DestroyNode and an object, which  *)
(* may be the region Sub.  The object's constructor runs next and may      *)
(* allocate too; if it throws, manage is never called.                     *)
(***************************************************************************)
UnmanagedAlloc(r, cb, sub) ==
  /\ sub => r = Root /\ \A id \in Live : ~objs[id].sub
  /\ Carve(r, NodeSize + cb, "raw", sub)

\* manage(p, fn): the constructed object joins the destroy chain.
Manage(id) ==
  /\ ClientRuns
  /\ objs[id].state = "raw"
  /\ objs' = [objs EXCEPT ![id].state = "managed"]
  /\ destroyChain' = [destroyChain EXCEPT ![objs[id].region] = <<id>> \o @]
  /\ UNCHANGED <<poolVars, chain, room, clearing, dtor>>

-----------------------------------------------------------------------------
\* A client calls clear() or ends the scope of Root.
BeginClear(r) ==
  /\ clearing = << >> /\ Usable(r)
  /\ clearing' = <<r>>
  /\ UNCHANGED <<poolVars, chain, room, destroyChain, objs, dtor>>

\* Mutant: the destructor is called without unlinking the object.
DestroyOneStays(r) ==
  /\ destroyChain[r] # << >>
  /\ LET id == Head(destroyChain[r]) IN
       /\ dtor' = [dtor EXCEPT ![r] = id]
       /\ objs' = [objs EXCEPT ![id].state = "destroyed"]
       /\ clearing' = IF objs[id].sub THEN <<Sub>> \o clearing ELSE clearing
  /\ UNCHANGED <<poolVars, chain, room, destroyChain>>

\* Unlink the newest managed object and call its destructor; Sub's is a clear.
DestroyOne(r) ==
  /\ destroyChain[r] # << >>
  /\ LET id == Head(destroyChain[r]) IN
       /\ destroyChain' = [destroyChain EXCEPT ![r] = Tail(@)]
       /\ dtor' = [dtor EXCEPT ![r] = id]
       /\ objs' = [objs EXCEPT ![id].state = "destroyed"]
       /\ clearing' = IF objs[id].sub THEN <<Sub>> \o clearing ELSE clearing
  /\ UNCHANGED <<poolVars, chain, room>>

DestructorReturns(r) ==
  /\ dtor[r] # None
  /\ dtor' = [dtor EXCEPT ![r] = None]
  /\ UNCHANGED <<poolVars, chain, room, destroyChain, objs, clearing>>

\* Mutant: blocks go back before every destructor ran.
ReleaseBlockEarly(r) ==
  /\ chain[r] # << >>
  /\ PoolDeallocate(Head(chain[r]))
  /\ chain' = [chain EXCEPT ![r] = Tail(@)]
  /\ objs' = [id \in {i \in Live : objs[i].blk # Head(chain[r])} |-> objs[id]]
  /\ UNCHANGED <<room, destroyChain, clearing, dtor>>

\* Give the header back to the pool; what was in the block is gone with it.
ReleaseBlock(r) ==
  /\ destroyChain[r] = << >> /\ chain[r] # << >>
  /\ PoolDeallocate(Head(chain[r]))
  /\ chain' = [chain EXCEPT ![r] = Tail(@)]
  /\ objs' = [id \in {i \in Live : objs[i].blk # Head(chain[r])} |-> objs[id]]
  /\ UNCHANGED <<room, destroyChain, clearing, dtor>>

\* m_begin = m_end = HeaderSize, and return; to the clear of Root in ~Sub
EndClear(r) ==
  /\ destroyChain[r] = << >> /\ chain[r] = << >>
  /\ room' = [room EXCEPT ![r] = 0]
  /\ clearing' = Tail(clearing)
  /\ dtor' = IF Len(clearing) > 1 THEN [dtor EXCEPT ![Root] = None] ELSE dtor
  /\ UNCHANGED <<poolVars, chain, destroyChain, objs>>

ClearStep ==
  /\ clearing # << >>
  /\ LET r == Head(clearing) IN
       \/ DestructorReturns(r)
       \/ dtor[r] = None /\ (DestroyOne(r) \/ ReleaseBlock(r) \/ EndClear(r))

\* Whoever owns the pool may drop its cached blocks at any time.
ClearPool ==
  /\ ClientRuns /\ freeList # << >>
  /\ PoolClear
  /\ UNCHANGED <<chain, room, destroyChain, objs, clearing, dtor>>

Next ==
  \/ \E r \in Region, cb \in ObjSize : Allocate(r, cb)
  \/ \E r \in Region, cb \in ObjSize, sub \in BOOLEAN : UnmanagedAlloc(r, cb, sub)
  \/ \E id \in Live : Manage(id)
  \/ \E r \in Region : BeginClear(r)
  \/ ClearStep
  \/ ClearPool

(***************************************************************************)
(* clear is a loop of the calling thread: it goes on, and the destructors  *)
(* it calls return.                                                        *)
(***************************************************************************)
Spec == Init /\ [][Next]_vars /\ WF_vars(ClearStep)

-----------------------------------------------------------------------------
(***************************************************************************)
(* Allocations lie inside a block their region owns and do not overlap,    *)
(* over dedicated blocks linked behind the header, blocks the pool handed  *)
(* out with a different usable size, and regions used again after clear.   *)
(***************************************************************************)
AllocationsDisjoint ==
  \A id \in Live :
    LET o == objs[id] IN
    /\ o.blk \in Blocks(o.region)
    /\ 1 <= o.lo /\ o.lo < o.hi /\ o.hi <= sys[o.blk]
    /\ \A j \in Live \ {id} :
         objs[j].blk = o.blk => objs[j].hi <= o.lo \/ o.hi <= objs[j].lo

(***************************************************************************)
(* Every block taken from the system is on the pool's free list or in the  *)
(* chain of one region, once: no clear, nested or not, loses a block or    *)
(* gives one back twice.                                                   *)
(***************************************************************************)
NoBlockLeaked ==
  /\ BlocksPartitioned
  /\ out = Blocks(Root) \cup Blocks(Sub)
  /\ Blocks(Root) \cap Blocks(Sub) = {}
  /\ \A r \in Region : \A i, j \in DOMAIN chain[r] :
       chain[r][i] = chain[r][j] => i = j

(***************************************************************************)
(* The objects still to be destroyed are those a region was told to        *)
(* manage, each once: an object whose constructor threw is not among them, *)
(* one a destructor created during clear is.                               *)
(***************************************************************************)
DestroyedOnce ==
  \A r \in Region :
    /\ Managed(r) = {id \in Live : objs[id].region = r /\ objs[id].state = "managed"}
    /\ \A i, j \in DOMAIN destroyChain[r] :
         destroyChain[r][i] = destroyChain[r][j] => i = j

(***************************************************************************)
(* No memory goes back to the pool while an object in it awaits its        *)
(* destructor or is inside it: also Sub's own blocks, given back while     *)
(* Root is being cleared.                                                  *)
(***************************************************************************)
DestroyedBeforeReleased ==
  [][\A id \in Live :
       objs[id].blk \in out \ out' =>
         objs[id].state # "managed" /\ \A r \in Region : dtor[r] # id]_vars

(***************************************************************************)
(* clear returns, also when destructors allocate managed objects (as many  *)
(* as the bound admits), and leaves nothing of a region behind.            *)
(***************************************************************************)
ClearReturns == (clearing # << >>) ~> (clearing = << >>)
=============================================================================
