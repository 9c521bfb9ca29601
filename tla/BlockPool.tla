------------------------------ MODULE BlockPool ------------------------------
(***************************************************************************)
(* boost::memory::block_alloc (block_pool): a cache of blocks of one size  *)
(* in front of the system allocator.  Requests larger than a block go to   *)
(* the system; a block that comes back is kept for the next request unless *)
(* it is larger than the first block was or the cache is full.  Which of   *)
(* the two a pointer is, is decided by alloc_size alone, the usable size   *)
(* the system allocator reports, which may exceed what was asked for.      *)
(***************************************************************************)
EXTENDS Integers, Sequences, FiniteSets

CONSTANTS
  Addr,       \* addresses the system allocator can return
  CbBlock,    \* m_cbBlock
  MaxSlack,   \* the system allocator rounds a request up by at most this
  FreeLimit   \* m_nFreeLimit = cbFreeLimit / m_cbBlock, 0 when cbFreeLimit is small

ASSUME BlockPoolAssumption ==
  /\ Addr # {}
  /\ CbBlock \in Nat \ {0}
  /\ MaxSlack \in Nat
  /\ FreeLimit \in Nat

VARIABLES
  sys,          \* usable size of the blocks taken from the system, 0 if not taken
  freeList,     \* m_freeList, first block first
  nFree,        \* m_nFree
  cbAllocSize,  \* m_cbAllocSize
  out           \* the blocks the pool's clients hold

poolVars == <<sys, freeList, nFree, cbAllocSize, out>>

Pooled == {freeList[i] : i \in DOMAIN freeList}

\* The constructor takes one block and remembers how large it came out.
\* Addresses are alike, so it may as well be this one.
FirstBlock == CHOOSE p \in Addr : TRUE

PoolInit ==
  \E size \in CbBlock..(CbBlock + MaxSlack) :
    /\ sys = [a \in Addr |-> IF a = FirstBlock THEN size ELSE 0]
    /\ freeList = <<FirstBlock>>
    /\ nFree = 1
    /\ cbAllocSize = size
    /\ out = {}

-----------------------------------------------------------------------------
\* AllocT::allocate and AllocT::deallocate, malloc and free
SysAllocate(cb, p) ==
  /\ sys[p] = 0
  /\ \E size \in cb..(cb + MaxSlack) : sys' = [sys EXCEPT ![p] = size]

SysFree(p) == sys' = [sys EXCEPT ![p] = 0]

(***************************************************************************)
(* allocate(cb) returning p.  The class asserts cb >= m_cbBlock.           *)
(***************************************************************************)
PoolAllocate(cb, p) ==
  /\ cb >= CbBlock
  /\ \/ /\ cb > CbBlock
        /\ SysAllocate(cb, p)
        /\ UNCHANGED <<freeList, nFree>>
     \/ /\ cb = CbBlock /\ freeList # << >>
        /\ p = Head(freeList)
        /\ freeList' = Tail(freeList)
        /\ nFree' = nFree - 1
        /\ UNCHANGED sys
     \/ /\ cb = CbBlock /\ freeList = << >>
        /\ SysAllocate(CbBlock, p)
        /\ UNCHANGED <<freeList, nFree>>
  /\ out' = out \cup {p}
  /\ UNCHANGED cbAllocSize

\* Mutant: a block of any size is kept.
KeepsAnySize(p) == sys[p] # 0 /\ nFree < FreeLimit

Keeps(p) == sys[p] <= cbAllocSize /\ nFree < FreeLimit

\* deallocate(p) of a block a client holds
PoolDeallocate(p) ==
  /\ p \in out
  /\ IF Keeps(p)
     THEN /\ freeList' = <<p>> \o freeList
          /\ nFree' = nFree + 1
          /\ UNCHANGED sys
     ELSE /\ SysFree(p)
          /\ UNCHANGED <<freeList, nFree>>
  /\ out' = out \ {p}
  /\ UNCHANGED cbAllocSize

\* clear(), also the destructor's body
PoolClear ==
  /\ sys' = [a \in Addr |-> IF a \in Pooled THEN 0 ELSE sys[a]]
  /\ freeList' = << >>
  /\ nFree' = 0
  /\ UNCHANGED <<cbAllocSize, out>>

-----------------------------------------------------------------------------
(***************************************************************************)
(* Every block taken from the system is in one place: on the free list,    *)
(* once, or with a client; and m_nFree counts the list, over clear and     *)
(* over blocks that bypassed it.                                           *)
(***************************************************************************)
BlocksPartitioned ==
  /\ Pooled \cap out = {}
  /\ Pooled \cup out = {a \in Addr : sys[a] # 0}
  /\ \A i, j \in DOMAIN freeList : freeList[i] = freeList[j] => i = j
  /\ nFree = Len(freeList)

(***************************************************************************)
(* allocate asserts that the block it takes off the list is large enough:  *)
(* a block a client got for a larger request may be cached, never one that *)
(* is smaller than m_cbBlock or larger than the first block was.  And the  *)
(* cache stays within its limit, plus the one block the constructor took   *)
(* without asking for the limit.                                           *)
(***************************************************************************)
PooledSizesFit ==
  /\ \A p \in Pooled : CbBlock <= sys[p] /\ sys[p] <= cbAllocSize
  /\ nFree <= FreeLimit \/ nFree = 1
=============================================================================
