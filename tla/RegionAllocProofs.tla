-------------------------- MODULE RegionAllocProofs --------------------------
(***************************************************************************)
(* Proofs about BlockPool and RegionAlloc, for every set of addresses,     *)
(* block size, slack and limit of the pool, and requests of any size.      *)
(*                                                                         *)
(* IInv joins the safety invariants of the two modules with what makes     *)
(* them inductive.  That allocations do not overlap needs the room left in *)
(* the current block to be free (RoomIsFree), which fails while a clear    *)
(* gives the blocks back; that no client allocates then needs the clears   *)
(* to nest (ClearsNest); that a region owns its blocks alone needs the     *)
(* pool's partition, and that requests fit needs its sizes                 *)
(* (BlocksLargeEnough).                                                    *)
(***************************************************************************)
EXTENDS RegionAlloc, SequenceTheorems, TLAPS

-----------------------------------------------------------------------------
\* The inductive invariant

(***************************************************************************)
(* The pool: its blocks are in one place each and fit, and no block taken  *)
(* from the system is smaller than m_cbBlock.                              *)
(***************************************************************************)
PoolTypeOK ==
  /\ sys \in [Addr -> Nat]
  /\ freeList \in Seq(Addr)
  /\ cbAllocSize \in Nat
  /\ out \subseteq Addr

BlocksLargeEnough ==
  /\ CbBlock <= cbAllocSize
  /\ \A a \in Addr : sys[a] # 0 => CbBlock <= sys[a]

PoolIInv == PoolTypeOK /\ BlocksLargeEnough /\ BlocksPartitioned /\ PooledSizesFit

Allocation ==
  [region : Region, blk : Addr, lo : Nat, hi : Nat,
   state : {"plain", "raw", "managed", "destroyed"}, sub : BOOLEAN]

RegionTypeOK ==
  /\ chain \in [Region -> Seq(Addr)]
  /\ room \in [Region -> Nat]
  /\ destroyChain \in [Region -> Seq(ObjId)]
  /\ Live \subseteq ObjId
  /\ \A id \in Live : objs[id] \in Allocation
  /\ dtor \in [Region -> 0..MaxObjs]

(***************************************************************************)
(* Clears nest one deep: Sub's, in its destructor, in Root's, which waits  *)
(* for that destructor.  A clear that is not running calls no destructor,  *)
(* and the object whose destructor runs is one of the region's.            *)
(***************************************************************************)
Clearing(r) == \E i \in DOMAIN clearing : clearing[i] = r

ClearsNest ==
  /\ clearing \in {<< >>, <<Root>>, <<Sub>>, <<Sub, Root>>}
  /\ clearing = <<Sub, Root>> => dtor[Root] # None
  /\ \A id \in Live : objs[id].sub => objs[id].region = Root
  /\ \A r \in Region : dtor[r] # None =>
       Clearing(r) /\ dtor[r] \in Live /\ objs[dtor[r]].region = r

(***************************************************************************)
(* Between two calls of a client the current block has room[r] units left, *)
(* from its header to the first allocation.  Not while a clear gives the   *)
(* blocks back, when m_begin and m_end point into a block that is gone.    *)
(***************************************************************************)
Releasing(r) == Clearing(r) /\ dtor[r] = None /\ destroyChain[r] = << >>

RoomLeft(r) ==
  IF chain[r] = << >> THEN room[r] = 0
  ELSE /\ 1 + room[r] <= sys[Head(chain[r])]
       /\ \A id \in Live : objs[id].blk = Head(chain[r]) => 1 + room[r] <= objs[id].lo

RoomIsFree == \A r \in Region : ~Releasing(r) => RoomLeft(r)

IInv ==
  /\ PoolIInv
  /\ RegionTypeOK
  /\ ClearsNest
  /\ NoBlockLeaked
  /\ AllocationsDisjoint
  /\ RoomIsFree
  /\ DestroyedOnce

-----------------------------------------------------------------------------
\* Lists of blocks and of objects

Elems(s) == {s[i] : i \in DOMAIN s}
NoRepeats(s) == \A i, j \in DOMAIN s : s[i] = s[j] => i = j

(***************************************************************************)
(* A list grows at its front: the free list, a chain that gets a current   *)
(* block, a destroy chain that gets an object.                             *)
(***************************************************************************)
LEMMA ConsFacts ==
  ASSUME NEW S, NEW s \in Seq(S), NEW e \in S
  PROVE  /\ <<e>> \o s \in Seq(S)
         /\ <<e>> \o s # << >>
         /\ Len(<<e>> \o s) = 1 + Len(s)
         /\ Head(<<e>> \o s) = e
         /\ Elems(<<e>> \o s) = {e} \cup Elems(s)
         /\ NoRepeats(s) /\ e \notin Elems(s) => NoRepeats(<<e>> \o s)
<1> DEFINE t == <<e>> \o s
<1>1. t \in Seq(S) /\ Len(t) = 1 + Len(s) /\ DOMAIN t = 1..(1 + Len(s))
  OBVIOUS
<1>2. t[1] = e /\ \A i \in 2..(1 + Len(s)) : t[i] = s[i - 1]
  OBVIOUS
<1>3. Len(s) \in Nat /\ DOMAIN s = 1..Len(s)
  OBVIOUS
<1> HIDE DEF t
<1>4. Head(t) = e /\ t # << >>
  BY <1>1, <1>2, <1>3
<1>5. Elems(t) = {e} \cup Elems(s)
  <2>1. ASSUME NEW i \in DOMAIN t PROVE t[i] \in {e} \cup Elems(s)
    <3>1. CASE i = 1
      BY <1>2, <3>1
    <3>2. CASE i # 1
      <4>1. i \in 2..(1 + Len(s)) /\ i - 1 \in DOMAIN s
        BY <1>1, <1>3, <3>2
      <4> QED
        BY <1>2, <4>1 DEF Elems
    <3> QED
      BY <3>1, <3>2
  <2>2. ASSUME NEW i \in DOMAIN s PROVE \E j \in DOMAIN t : t[j] = s[i]
    <3>1. i + 1 \in DOMAIN t /\ i + 1 \in 2..(1 + Len(s)) /\ (i + 1) - 1 = i
      BY <1>1, <1>3
    <3> QED
      BY <1>2, <3>1
  <2>3. 1 \in DOMAIN t
    BY <1>1, <1>3
  <2> QED
    BY <1>2, <2>1, <2>2, <2>3 DEF Elems
<1>6. ASSUME NoRepeats(s), e \notin Elems(s), NEW i \in DOMAIN t, NEW j \in DOMAIN t, t[i] = t[j]
      PROVE  i = j
  <2>1. \A k \in DOMAIN t : k # 1 => k - 1 \in DOMAIN s /\ t[k] = s[k - 1]
    BY <1>1, <1>2, <1>3
  <2>2. \A k \in DOMAIN t : k # 1 => t[k] # e
    BY <1>6, <2>1 DEF Elems
  <2>3. CASE i = 1 \/ j = 1
    BY <1>2, <1>6, <2>2, <2>3
  <2>4. CASE i # 1 /\ j # 1
    <3>1. i - 1 = j - 1
      BY <1>6, <2>1, <2>4 DEF NoRepeats
    <3> QED
      BY <1>1, <1>3, <3>1
  <2> QED
    BY <2>3, <2>4
<1> QED
  BY <1>1, <1>4, <1>5, <1>6 DEF NoRepeats, t

(***************************************************************************)
(* A list shrinks at its front.                                            *)
(***************************************************************************)
LEMMA TailFacts ==
  ASSUME NEW S, NEW s \in Seq(S), s # << >>
  PROVE  /\ Head(s) \in S
         /\ Tail(s) \in Seq(S)
         /\ Len(Tail(s)) = Len(s) - 1
         /\ Head(s) \in Elems(s)
         /\ Elems(s) = {Head(s)} \cup Elems(Tail(s))
         /\ NoRepeats(s) => NoRepeats(Tail(s)) /\ Head(s) \notin Elems(Tail(s))
<1> DEFINE t == Tail(s)
<1>1. Len(s) \in Nat \ {0} /\ DOMAIN s = 1..Len(s) /\ s[1] = Head(s) /\ Head(s) \in S
  OBVIOUS
<1>2. t \in Seq(S) /\ Len(t) = Len(s) - 1 /\ DOMAIN t = 1..(Len(s) - 1)
  OBVIOUS
<1>3. \A i \in DOMAIN t : t[i] = s[i + 1]
  OBVIOUS
<1> HIDE DEF t
<1>4. \A i \in DOMAIN s : i # 1 => i - 1 \in DOMAIN t /\ s[i] = t[i - 1]
  <2> SUFFICES ASSUME NEW i \in DOMAIN s, i # 1
               PROVE  i - 1 \in DOMAIN t /\ s[i] = t[i - 1]
    OBVIOUS
  <2>1. i - 1 \in DOMAIN t /\ (i - 1) + 1 = i
    BY <1>1, <1>2
  <2> QED
    BY <1>3, <2>1
<1>5. \A i \in DOMAIN t : i + 1 \in DOMAIN s /\ i + 1 # 1 /\ i \in Nat
  BY <1>1, <1>2
<1>6. 1 \in DOMAIN s
  BY <1>1
<1>7. Elems(s) = {Head(s)} \cup Elems(t)
  BY <1>1, <1>3, <1>4, <1>5, <1>6 DEF Elems
<1>8. NoRepeats(s) => NoRepeats(t) /\ Head(s) \notin Elems(t)
  <2> SUFFICES ASSUME NoRepeats(s) PROVE NoRepeats(t) /\ Head(s) \notin Elems(t)
    OBVIOUS
  <2>1. ASSUME NEW i \in DOMAIN t, NEW j \in DOMAIN t, t[i] = t[j] PROVE i = j
    <3>1. i + 1 = j + 1
      BY <1>3, <1>5, <2>1 DEF NoRepeats
    <3> QED
      BY <1>5, <3>1
  <2>2. ASSUME NEW i \in DOMAIN t PROVE t[i] # Head(s)
    BY <1>1, <1>3, <1>5, <1>6 DEF NoRepeats
  <2> QED
    BY <2>1, <2>2 DEF NoRepeats, Elems
<1> QED
  BY <1>1, <1>2, <1>6, <1>7, <1>8 DEF t, Elems

(***************************************************************************)
(* A dedicated block goes behind the header of the chain.                  *)
(***************************************************************************)
LEMMA InsertFacts ==
  ASSUME NEW S, NEW s \in Seq(S), s # << >>, NEW e \in S
  PROVE  LET t == <<Head(s), e>> \o Tail(s) IN
         /\ t \in Seq(S)
         /\ t # << >>
         /\ Head(t) = Head(s)
         /\ Elems(t) = {e} \cup Elems(s)
         /\ NoRepeats(s) /\ e \notin Elems(s) => NoRepeats(t)
<1> DEFINE v == Tail(s)
           u == <<e>> \o v
           t == <<Head(s), e>> \o v
<1>1. Head(s) \in S /\ v \in Seq(S) /\ Elems(s) = {Head(s)} \cup Elems(v)
  BY TailFacts
<1>2. NoRepeats(s) => NoRepeats(v) /\ Head(s) \notin Elems(v)
  BY TailFacts
<1> HIDE DEF v
<1>3. u \in Seq(S) /\ Elems(u) = {e} \cup Elems(v)
  BY <1>1, ConsFacts
<1>4. NoRepeats(v) /\ e \notin Elems(v) => NoRepeats(u)
  BY <1>1, ConsFacts
<1>5. t = <<Head(s)>> \o u
  BY <1>1
<1> HIDE DEF u, t
<1>6. t \in Seq(S) /\ t # << >> /\ Head(t) = Head(s) /\ Elems(t) = {Head(s)} \cup Elems(u)
  BY <1>1, <1>3, <1>5, ConsFacts
<1>7. NoRepeats(u) /\ Head(s) \notin Elems(u) => NoRepeats(t)
  BY <1>1, <1>3, <1>5, ConsFacts
<1>8. NoRepeats(s) /\ e \notin Elems(s) => NoRepeats(t)
  BY <1>1, <1>2, <1>3, <1>4, <1>7
<1>9. Elems(t) = {e} \cup Elems(s)
  BY <1>1, <1>3, <1>6
<1> QED
  BY <1>6, <1>8, <1>9 DEF t, v

\* A clear calls another: the call stack <<Sub, Root>>.
LEMMA PairFacts ==
  ASSUME NEW a, NEW b
  PROVE  <<a>> \o <<b>> = <<a, b>>
<1> DEFINE s == <<a>> \o <<b>>
           t == <<a, b>>
           S == {a, b}
<1>1. <<a>> \in Seq(S) /\ <<b>> \in Seq(S) /\ t \in Seq(S)
  OBVIOUS
<1>2. s \in Seq(S) /\ Len(s) = 2 /\ Len(t) = 2
  BY <1>1
<1>3. s[1] = a /\ s[2] = b /\ t[1] = a /\ t[2] = b
  BY <1>1
<1> HIDE DEF s, t, S
<1>4. \A i \in 1..Len(s) : s[i] = t[i]
  BY <1>2, <1>3
<1>5. s = t
  BY <1>1, <1>2, <1>4, SeqEqual
<1> QED
  BY <1>5 DEF s, t

-----------------------------------------------------------------------------
\* The pool

(***************************************************************************)
(* Taking a block that no client holds from the system.                    *)
(***************************************************************************)
LEMMA SysAllocateFacts ==
  ASSUME PoolIInv, NEW cb \in Nat, CbBlock <= cb, NEW p \in Addr, SysAllocate(cb, p)
  PROVE  /\ p \notin out /\ p \notin Pooled
         /\ sys' \in [Addr -> Nat]
         /\ cb <= sys'[p] /\ CbBlock <= sys'[p] /\ sys'[p] # 0
         /\ \A a \in Addr : a # p => sys'[a] = sys[a]
<1> USE BlockPoolAssumption DEF PoolIInv, PoolTypeOK
<1>1. sys[p] = 0 /\ p \notin Pooled \cup out
  BY DEF SysAllocate, BlocksPartitioned
<1>2. PICK size \in cb..(cb + MaxSlack) : sys' = [sys EXCEPT ![p] = size]
  BY DEF SysAllocate
<1>3. size \in Nat /\ size >= cb
  OBVIOUS
<1> QED
  BY <1>1, <1>2, <1>3

\* The pool keeps its invariant over allocate, whichever way it is served.
LEMMA PoolAllocateIInv ==
  ASSUME PoolIInv, NEW cb \in Nat, NEW p \in Addr, PoolAllocate(cb, p)
  PROVE  /\ PoolIInv'
         /\ p \notin out /\ out' = out \cup {p}
         /\ cb <= sys'[p] /\ CbBlock <= sys'[p] /\ sys'[p] \in Nat
         /\ \A a \in out : sys'[a] = sys[a]
<1> USE BlockPoolAssumption DEF PoolIInv, PoolTypeOK
<1>1. out' = out \cup {p} /\ cbAllocSize' = cbAllocSize /\ CbBlock <= cb
  BY DEF PoolAllocate
<1>2. ASSUME SysAllocate(cb, p), UNCHANGED <<freeList, nFree>>
      PROVE  /\ PoolIInv'
             /\ p \notin out
             /\ cb <= sys'[p] /\ CbBlock <= sys'[p]
             /\ \A a \in out : sys'[a] = sys[a]
  <2>1. /\ p \notin out /\ p \notin Pooled
        /\ sys' \in [Addr -> Nat]
        /\ cb <= sys'[p] /\ CbBlock <= sys'[p] /\ sys'[p] # 0
        /\ \A a \in Addr : a # p => sys'[a] = sys[a]
    BY <1>1, <1>2, SysAllocateFacts
  <2>2. Pooled' = Pooled
    BY <1>2 DEF Pooled
  <2>3. PoolTypeOK'
    BY <1>1, <1>2, <2>1
  <2>4. BlocksLargeEnough'
    BY <1>1, <2>1 DEF BlocksLargeEnough
  <2>5. BlocksPartitioned'
    <3>1. {a \in Addr : sys'[a] # 0} = {a \in Addr : sys[a] # 0} \cup {p}
      BY <2>1
    <3> QED
      BY <1>1, <1>2, <2>1, <2>2, <3>1 DEF BlocksPartitioned
  <2>6. PooledSizesFit'
    <3>1. Pooled \subseteq Addr
      BY DEF Pooled
    <3> QED
      BY <1>1, <1>2, <2>1, <2>2, <3>1 DEF PooledSizesFit
  <2> QED
    BY <2>1, <2>3, <2>4, <2>5, <2>6
<1>3. ASSUME cb = CbBlock, freeList # << >>, p = Head(freeList),
             freeList' = Tail(freeList), nFree' = nFree - 1, sys' = sys
      PROVE  /\ PoolIInv'
             /\ p \notin out
             /\ cb <= sys'[p] /\ CbBlock <= sys'[p]
             /\ \A a \in out : sys'[a] = sys[a]
  <2>1. /\ freeList' \in Seq(Addr) /\ Len(freeList') = Len(freeList) - 1
        /\ p \in Pooled /\ Pooled = {p} \cup Pooled'
        /\ p \notin Pooled' /\ NoRepeats(freeList')
    <3>1. Pooled = Elems(freeList) /\ Pooled' = Elems(freeList') /\ NoRepeats(freeList)
      BY DEF Pooled, Elems, NoRepeats, BlocksPartitioned
    <3> QED
      BY <1>3, <3>1, TailFacts
  <2>2. p \notin out /\ CbBlock <= sys[p]
    BY <2>1 DEF BlocksPartitioned, PooledSizesFit
  <2>3. PoolTypeOK' /\ BlocksLargeEnough'
    BY <1>1, <1>3, <2>1 DEF BlocksLargeEnough
  <2>4. nFree \in Nat /\ nFree = Len(freeList) /\ nFree' = Len(freeList')
    BY <1>3, <2>1 DEF BlocksPartitioned
  <2>5. BlocksPartitioned'
    <3>1. Pooled' \cap out' = {}
      BY <1>1, <2>1 DEF BlocksPartitioned
    <3>2. Pooled' \cup out' = {a \in Addr : sys'[a] # 0}
      BY <1>1, <1>3, <2>1 DEF BlocksPartitioned
    <3> QED
      BY <2>1, <2>4, <3>1, <3>2 DEF BlocksPartitioned, NoRepeats
  <2>6. PooledSizesFit'
    BY <1>1, <1>3, <2>1, <2>4, SMTT(30) DEF PooledSizesFit
  <2> QED
    BY <1>3, <2>2, <2>3, <2>5, <2>6
<1>4. /\ PoolIInv'
      /\ p \notin out
      /\ cb <= sys'[p] /\ CbBlock <= sys'[p]
      /\ \A a \in out : sys'[a] = sys[a]
  BY <1>2, <1>3 DEF PoolAllocate
<1>5. sys'[p] \in Nat
  BY <1>4
<1> QED
  BY <1>1, <1>4, <1>5

\* The pool keeps its invariant over deallocate, of a block it pools or frees.
LEMMA PoolDeallocateIInv ==
  ASSUME PoolIInv, NEW p \in Addr, PoolDeallocate(p)
  PROVE  /\ PoolIInv'
         /\ p \in out /\ out' = out \ {p}
         /\ \A a \in out' : sys'[a] = sys[a]
<1> USE BlockPoolAssumption DEF PoolIInv, PoolTypeOK
<1>1. p \in out /\ out' = out \ {p} /\ cbAllocSize' = cbAllocSize
  BY DEF PoolDeallocate
<1>2. p \notin Pooled /\ sys[p] # 0 /\ CbBlock <= sys[p]
  BY <1>1 DEF BlocksPartitioned, BlocksLargeEnough
<1>3. nFree \in Nat /\ nFree = Len(freeList)
  BY DEF BlocksPartitioned
<1>4. CASE Keeps(p)
  <2>1. freeList' = <<p>> \o freeList /\ nFree' = nFree + 1 /\ sys' = sys
    BY <1>4 DEF PoolDeallocate
  <2>2. /\ freeList' \in Seq(Addr) /\ Len(freeList') = 1 + Len(freeList)
        /\ Pooled' = {p} \cup Pooled /\ NoRepeats(freeList')
    <3>1. Pooled = Elems(freeList) /\ Pooled' = Elems(freeList') /\ NoRepeats(freeList)
      BY DEF Pooled, Elems, NoRepeats, BlocksPartitioned
    <3> QED
      BY <1>2, <2>1, <3>1, ConsFacts
  <2>3. PoolTypeOK' /\ BlocksLargeEnough'
    BY <1>1, <2>1, <2>2 DEF BlocksLargeEnough
  <2>4. BlocksPartitioned'
    <3>1. Pooled' \cap out' = {}
      BY <1>1, <2>2 DEF BlocksPartitioned
    <3>2. Pooled' \cup out' = {a \in Addr : sys'[a] # 0}
      BY <1>1, <2>1, <2>2 DEF BlocksPartitioned
    <3> QED
      BY <1>3, <2>1, <2>2, <3>1, <3>2, SMTT(30) DEF BlocksPartitioned, NoRepeats
  <2>5. PooledSizesFit'
    BY <1>1, <1>2, <1>3, <1>4, <2>1, <2>2 DEF PooledSizesFit, Keeps
  <2> QED
    BY <1>1, <2>1, <2>3, <2>4, <2>5
<1>5. CASE ~Keeps(p)
  <2>1. sys' = [sys EXCEPT ![p] = 0] /\ freeList' = freeList /\ nFree' = nFree
    BY <1>5 DEF PoolDeallocate, SysFree
  <2>2. Pooled' = Pooled /\ Pooled \subseteq Addr
    BY <2>1 DEF Pooled
  <2>3. \A a \in Addr : a # p => sys'[a] = sys[a]
    BY <2>1
  <2>4. PoolTypeOK' /\ BlocksLargeEnough'
    BY <1>1, <2>1 DEF BlocksLargeEnough
  <2>5. BlocksPartitioned'
    <3>1. {a \in Addr : sys'[a] # 0} = {a \in Addr : sys[a] # 0} \ {p}
      BY <2>1, <2>3
    <3> QED
      BY <1>1, <1>2, <2>1, <2>2, <3>1 DEF BlocksPartitioned
  <2>6. PooledSizesFit'
    BY <1>1, <1>2, <2>1, <2>2, <2>3 DEF PooledSizesFit
  <2> QED
    BY <1>1, <2>3, <2>4, <2>5, <2>6
<1> QED
  BY <1>4, <1>5

\* The pool keeps its invariant over clear.
LEMMA PoolClearIInv ==
  ASSUME PoolIInv, PoolClear
  PROVE  PoolIInv' /\ out' = out /\ \A a \in out : sys'[a] = sys[a]
<1> USE BlockPoolAssumption DEF PoolIInv, PoolTypeOK
<1>1. /\ out' = out /\ cbAllocSize' = cbAllocSize /\ freeList' = << >> /\ nFree' = 0
      /\ sys' = [a \in Addr |-> IF a \in Pooled THEN 0 ELSE sys[a]]
  BY DEF PoolClear
<1>2. Pooled' = {}
  BY <1>1 DEF Pooled
<1>3. \A a \in out : a \notin Pooled /\ sys'[a] = sys[a]
  BY <1>1 DEF BlocksPartitioned
<1>4. PoolTypeOK' /\ BlocksLargeEnough'
  BY <1>1 DEF BlocksLargeEnough
<1>5. BlocksPartitioned'
  <2>1. {a \in Addr : sys'[a] # 0} = out
    BY <1>1, <1>3 DEF BlocksPartitioned
  <2> QED
    BY <1>1, <1>2, <2>1 DEF BlocksPartitioned
<1>6. PooledSizesFit'
  BY <1>1, <1>2 DEF PooledSizesFit
<1> QED
  BY <1>1, <1>3, <1>4, <1>5, <1>6

\* A new pool has nothing out.
LEMMA PoolInitIInv == PoolInit => PoolIInv /\ out = {}
<1> SUFFICES ASSUME PoolInit PROVE PoolIInv /\ out = {}
  OBVIOUS
<1> USE BlockPoolAssumption DEF PoolIInv, PoolTypeOK
<1>1. FirstBlock \in Addr
  BY DEF FirstBlock
<1>2. PICK size \in CbBlock..(CbBlock + MaxSlack) :
        /\ sys = [a \in Addr |-> IF a = FirstBlock THEN size ELSE 0]
        /\ freeList = <<FirstBlock>> /\ nFree = 1 /\ cbAllocSize = size /\ out = {}
  BY DEF PoolInit
<1>3. size \in Nat /\ size # 0 /\ CbBlock <= size
  OBVIOUS
<1>4. Pooled = {FirstBlock} /\ Len(freeList) = 1 /\ NoRepeats(freeList)
  BY <1>2 DEF Pooled, NoRepeats
<1>5. PoolTypeOK /\ BlocksLargeEnough
  BY <1>1, <1>2, <1>3 DEF BlocksLargeEnough
<1>6. BlocksPartitioned
  BY <1>1, <1>2, <1>3, <1>4 DEF BlocksPartitioned, NoRepeats
<1>7. PooledSizesFit
  BY <1>1, <1>2, <1>3, <1>4 DEF PooledSizesFit
<1> QED
  BY <1>2, <1>5, <1>6, <1>7

-----------------------------------------------------------------------------
\* Allocating

(***************************************************************************)
(* Where an allocation lies: in a block of its own region, which no other  *)
(* region and no client of the pool shares.                                *)
(***************************************************************************)
LEMMA BlocksOwned ==
  ASSUME IInv
  PROVE  /\ \A r \in Region : Blocks(r) = Elems(chain[r]) /\ Blocks(r) \subseteq out
         /\ \A id \in Live :
              /\ objs[id] \in Allocation
              /\ objs[id].region \in Region /\ objs[id].blk \in Blocks(objs[id].region)
              /\ objs[id].blk \in out
              /\ objs[id].lo \in Nat /\ objs[id].hi \in Nat
         /\ \A id \in Live, r \in Region : objs[id].blk \in Blocks(r) => objs[id].region = r
<1> USE DEF IInv
<1>1. \A r \in Region : Blocks(r) = Elems(chain[r]) /\ Blocks(r) \subseteq out
  BY DEF Blocks, Elems, NoBlockLeaked, Region
<1>2. \A id \in Live :
        /\ objs[id] \in Allocation
        /\ objs[id].region \in Region /\ objs[id].blk \in Blocks(objs[id].region)
        /\ objs[id].lo \in Nat /\ objs[id].hi \in Nat
  BY DEF RegionTypeOK, AllocationsDisjoint, Allocation
<1>3. ASSUME NEW id \in Live, NEW r \in Region, objs[id].blk \in Blocks(r)
      PROVE  objs[id].region = r
  <2>1. objs[id].region \in {Root, Sub} /\ r \in {Root, Sub}
    BY <1>2 DEF Region
  <2> QED
    BY <1>2, <1>3, <2>1 DEF NoBlockLeaked
<1> QED
  BY <1>1, <1>2, <1>3

\* Client code does not run while the innermost clear gives blocks back.
LEMMA ClientSeesRoom ==
  ASSUME IInv, ClientRuns, NEW r \in Region
  PROVE  ~Releasing(r) /\ RoomLeft(r)
<1> USE DEF IInv
<1>1. ~Releasing(r)
  <2> SUFFICES ASSUME Clearing(r), dtor[r] = None PROVE FALSE
    BY DEF Releasing
  <2>1. CASE clearing = << >>
    BY <2>1 DEF Clearing
  <2>2. CASE clearing = <<Root>> \/ clearing = <<Sub>>
    BY <2>2 DEF Clearing, ClientRuns
  <2>3. CASE clearing = <<Sub, Root>>
    BY <2>3 DEF Clearing, ClientRuns, ClearsNest
  <2> QED
    BY <2>1, <2>2, <2>3 DEF ClearsNest
<1> QED
  BY <1>1 DEF RoomIsFree

\* What an allocation of a client is: a live object in its place.
LEMMA PlaceFacts ==
  ASSUME RegionTypeOK, Live # ObjId, NEW r, NEW p, NEW lo, NEW hi, NEW state, NEW sub,
         Place(r, p, lo, hi, state, sub)
  PROVE  /\ NewId \in ObjId /\ NewId \notin Live
         /\ Live' = Live \cup {NewId}
         /\ objs'[NewId] =
              [region |-> r, blk |-> p, lo |-> lo, hi |-> hi, state |-> state, sub |-> sub]
         /\ \A id \in Live : objs'[id] = objs[id]
<1>1. NewId \in ObjId \ Live
  BY DEF NewId, RegionTypeOK
<1> HIDE DEF NewId
<1>2. Live' = Live \cup {NewId}
  BY DEF Place, Live
<1> QED
  BY <1>1, <1>2 DEF Place

(***************************************************************************)
(* What the three ways to carve have in common: [lo, hi) of block p, which *)
(* r owns, lies below everything allocated in that block; what is left of  *)
(* the current block lies below it, and nothing else moves.                *)
(***************************************************************************)
CarveEffect(r, p, lo, hi) ==
  /\ PoolIInv'
  /\ NoBlockLeaked'
  /\ \A a \in out : sys'[a] = sys[a]
  /\ chain' \in [Region -> Seq(Addr)] /\ room' \in [Region -> Nat]
  /\ \A q \in Region : Blocks(q) \subseteq Blocks(q)'
  /\ \A q \in Region \ {r} : chain'[q] = chain[q] /\ room'[q] = room[q]
  /\ p \in Addr /\ p \in Blocks(r)'
  /\ lo \in Nat /\ hi \in Nat /\ 1 <= lo /\ lo < hi /\ hi <= sys'[p]
  /\ \A j \in Live : objs[j].blk = p => hi <= objs[j].lo
  /\ chain'[r] # << >>
  /\ 1 + room'[r] <= sys'[Head(chain'[r])]
  /\ \A j \in Live : objs[j].blk = Head(chain'[r]) => 1 + room'[r] <= objs[j].lo
  /\ p = Head(chain'[r]) => 1 + room'[r] <= lo

(***************************************************************************)
(* A block new from the pool joins one chain.                              *)
(***************************************************************************)
LEMMA ChainGrows ==
  ASSUME IInv, NEW r \in Region, NEW p \in Addr, p \notin out, out' = out \cup {p},
         NEW t \in Seq(Addr), chain' = [chain EXCEPT ![r] = t],
         Elems(t) = {p} \cup Elems(chain[r]),
         NoRepeats(chain[r]) => NoRepeats(t),
         BlocksPartitioned'
  PROVE  /\ NoBlockLeaked'
         /\ chain' \in [Region -> Seq(Addr)]
         /\ chain'[r] = t /\ p \in Blocks(r)'
         /\ \A q \in Region \ {r} : chain'[q] = chain[q]
         /\ \A q \in Region : Blocks(q) \subseteq Blocks(q)'
<1> USE DEF IInv
<1>1. /\ chain' \in [Region -> Seq(Addr)] /\ chain'[r] = t
      /\ \A q \in Region : q # r => chain'[q] = chain[q]
  BY DEF RegionTypeOK
<1>2. Blocks(r)' = {p} \cup Blocks(r) /\ \A q \in Region : q # r => Blocks(q)' = Blocks(q)
  BY <1>1 DEF Blocks, Elems
<1>3. \A q \in Region : NoRepeats(chain'[q])
  BY <1>1 DEF NoBlockLeaked, NoRepeats
<1>4. out' = Blocks(Root)' \cup Blocks(Sub)' /\ Blocks(Root)' \cap Blocks(Sub)' = {}
  <2>1. out = Blocks(Root) \cup Blocks(Sub) /\ Blocks(Root) \cap Blocks(Sub) = {}
    BY DEF NoBlockLeaked
  <2>2. CASE r = Root
    BY <1>2, <2>1, <2>2, RegionAllocAssumption DEF Region
  <2>3. CASE r = Sub
    BY <1>2, <2>1, <2>3, RegionAllocAssumption DEF Region
  <2> QED
    BY <2>2, <2>3 DEF Region
<1>5. NoBlockLeaked'
  BY <1>3, <1>4 DEF NoBlockLeaked, NoRepeats
<1> QED
  BY <1>1, <1>2, <1>5

\* Carving from the current block: the room shrinks from its end, down to
\* the new allocation.
LEMMA CarveFromRoomEffect ==
  ASSUME IInv, ClientRuns, NEW r \in Region, NEW cb \in Nat \ {0}, NEW state, NEW sub,
         CarveFromRoom(r, cb, state, sub)
  PROVE  LET p == Head(chain[r])
             lo == 1 + room[r] - cb
             hi == 1 + room[r]
         IN  Place(r, p, lo, hi, state, sub) /\ CarveEffect(r, p, lo, hi)
<1> DEFINE p == Head(chain[r])
           lo == 1 + room[r] - cb
           hi == 1 + room[r]
<1> USE DEF IInv
<1>1. /\ Place(r, p, lo, hi, state, sub) /\ room[r] >= cb
      /\ room' = [room EXCEPT ![r] = room[r] - cb]
      /\ UNCHANGED <<sys, freeList, nFree, cbAllocSize, out, chain>>
  BY DEF CarveFromRoom, poolVars
<1>2. /\ room[r] \in Nat /\ room \in [Region -> Nat] /\ chain[r] \in Seq(Addr)
      /\ chain \in [Region -> Seq(Addr)]
  BY DEF RegionTypeOK
<1>3. room' \in [Region -> Nat] /\ room'[r] = room[r] - cb
      /\ \A q \in Region \ {r} : room'[q] = room[q]
  BY <1>1, <1>2
<1>4. chain[r] # << >>
  BY <1>1, <1>2, ClientSeesRoom DEF RoomLeft
<1>5. 1 + room[r] <= sys[p] /\ \A j \in Live : objs[j].blk = p => 1 + room[r] <= objs[j].lo
  BY <1>4, ClientSeesRoom DEF RoomLeft
<1>6. p \in Addr /\ p \in Blocks(r)
  BY <1>2, <1>4, TailFacts, BlocksOwned
<1>7. sys[p] \in Nat /\ \A j \in Live : objs[j].lo \in Nat
  BY <1>6, BlocksOwned DEF PoolIInv, PoolTypeOK, Allocation
<1>8. lo \in Nat /\ hi \in Nat /\ 1 <= lo /\ lo < hi /\ hi <= sys[p]
  BY <1>1, <1>2, <1>5, <1>7
<1>9. PoolIInv' /\ NoBlockLeaked' /\ \A q \in Region : Blocks(q)' = Blocks(q)
  <2>1. PoolIInv'
    BY <1>1 DEF PoolIInv, PoolTypeOK, BlocksLargeEnough, BlocksPartitioned, PooledSizesFit, Pooled
  <2>2. \A q : Blocks(q)' = Blocks(q)
    BY <1>1 DEF Blocks
  <2>3. NoBlockLeaked'
    BY <1>1, <2>1, <2>2 DEF NoBlockLeaked, PoolIInv
  <2> QED
    BY <2>1, <2>2, <2>3
<1>10. /\ 1 + room'[r] <= sys'[Head(chain'[r])]
       /\ \A j \in Live : objs[j].blk = Head(chain'[r]) => 1 + room'[r] <= objs[j].lo
       /\ 1 + room'[r] <= lo
  BY <1>1, <1>2, <1>3, <1>5, <1>7
<1>11. CarveEffect(r, p, lo, hi)
  BY <1>1, <1>2, <1>3, <1>4, <1>5, <1>6, <1>8, <1>9, <1>10 DEF CarveEffect
<1> QED
  BY <1>1, <1>11

\* A request larger than a block gets a block of its own, behind the current
\* one, which it does not touch.
LEMMA CarveDedicatedEffect ==
  ASSUME IInv, ClientRuns, NEW r \in Region, NEW cb \in Nat \ {0}, NEW state, NEW sub,
         CarveDedicated(r, cb, state, sub)
  PROVE  \E p \in Addr : Place(r, p, 1, 1 + cb, state, sub) /\ CarveEffect(r, p, 1, 1 + cb)
<1> USE DEF IInv
<1>1. PICK p \in Addr :
        /\ PoolAllocate(1 + cb, p)
        /\ IF chain[r] # << >>
           THEN /\ chain' = [chain EXCEPT ![r] = <<Head(chain[r]), p>> \o Tail(chain[r])]
                /\ UNCHANGED room
           ELSE /\ chain' = [chain EXCEPT ![r] = <<p>>]
                /\ room' = [room EXCEPT ![r] = 0]
        /\ Place(r, p, 1, 1 + cb, state, sub)
  BY DEF CarveDedicated
<1>2. /\ PoolIInv' /\ p \notin out /\ out' = out \cup {p}
      /\ 1 + cb <= sys'[p] /\ sys'[p] \in Nat /\ \A a \in out : sys'[a] = sys[a]
  BY <1>1, PoolAllocateIInv
<1>3. room \in [Region -> Nat] /\ chain[r] \in Seq(Addr) /\ chain \in [Region -> Seq(Addr)]
  BY DEF RegionTypeOK
<1>4. \A j \in Live : objs[j].blk \in out /\ objs[j].lo \in Nat
  BY BlocksOwned
<1>5. BlocksPartitioned'
  BY <1>2 DEF PoolIInv
<1>6. CASE chain[r] # << >>
  <2> DEFINE t == <<Head(chain[r]), p>> \o Tail(chain[r])
  <2>1. /\ t \in Seq(Addr) /\ t # << >> /\ Head(t) = Head(chain[r])
        /\ Elems(t) = {p} \cup Elems(chain[r])
        /\ NoRepeats(chain[r]) /\ p \notin Elems(chain[r]) => NoRepeats(t)
    BY <1>3, <1>6, InsertFacts
  <2>2. chain' = [chain EXCEPT ![r] = t] /\ room' = room
    BY <1>1, <1>6
  <2> HIDE DEF t
  <2>3. p \notin Elems(chain[r])
    BY <1>2, BlocksOwned
  <2>4. /\ NoBlockLeaked'
        /\ chain' \in [Region -> Seq(Addr)]
        /\ chain'[r] = t /\ p \in Blocks(r)'
        /\ \A q \in Region \ {r} : chain'[q] = chain[q]
        /\ \A q \in Region : Blocks(q) \subseteq Blocks(q)'
    BY <1>2, <1>5, <2>1, <2>2, <2>3, ChainGrows
  <2>5. /\ 1 + room[r] <= sys[Head(chain[r])] /\ Head(chain[r]) \in out
        /\ \A j \in Live : objs[j].blk = Head(chain[r]) => 1 + room[r] <= objs[j].lo
    BY <1>3, <1>6, ClientSeesRoom, TailFacts, BlocksOwned DEF RoomLeft
  <2>6. p # Head(chain[r])
    BY <1>2, <2>5
  <2>7. /\ chain'[r] # << >> /\ Head(chain'[r]) = Head(chain[r])
        /\ room' \in [Region -> Nat] /\ \A q \in Region : room'[q] = room[q]
        /\ 1 + room'[r] <= sys'[Head(chain'[r])]
    BY <1>2, <1>3, <2>1, <2>2, <2>4, <2>5
  <2>8. CarveEffect(r, p, 1, 1 + cb)
    BY <1>2, <1>4, <2>4, <2>5, <2>6, <2>7 DEF CarveEffect
  <2> QED
    BY <1>1, <2>8
<1>7. CASE chain[r] = << >>
  <2> DEFINE t == <<p>>
  <2>1. /\ t \in Seq(Addr) /\ t # << >> /\ Head(t) = p
        /\ Elems(t) = {p} \cup Elems(chain[r]) /\ NoRepeats(t)
    BY <1>7 DEF Elems, NoRepeats
  <2>2. chain' = [chain EXCEPT ![r] = t] /\ room' = [room EXCEPT ![r] = 0]
    BY <1>1, <1>7
  <2> HIDE DEF t
  <2>3. /\ NoBlockLeaked'
        /\ chain' \in [Region -> Seq(Addr)]
        /\ chain'[r] = t /\ p \in Blocks(r)'
        /\ \A q \in Region \ {r} : chain'[q] = chain[q]
        /\ \A q \in Region : Blocks(q) \subseteq Blocks(q)'
    BY <1>2, <1>5, <2>1, <2>2, ChainGrows
  <2>4. /\ room' \in [Region -> Nat] /\ room'[r] = 0
        /\ \A q \in Region \ {r} : room'[q] = room[q]
    BY <1>3, <2>2
  <2>5. \A j \in Live : objs[j].blk # p
    BY <1>2, <1>4
  <2>6. chain'[r] # << >> /\ Head(chain'[r]) = p /\ 1 + room'[r] <= 1 /\ 1 + room'[r] <= sys'[p]
    BY <1>2, <2>1, <2>3, <2>4
  <2>7. CarveEffect(r, p, 1, 1 + cb)
    BY <1>2, <2>3, <2>4, <2>5, <2>6 DEF CarveEffect
  <2> QED
    BY <1>1, <2>7
<1> QED
  BY <1>6, <1>7

\* A request larger than the room left gets a new current block.
LEMMA CarveFromNewEffect ==
  ASSUME IInv, ClientRuns, NEW r \in Region, NEW cb \in Nat \ {0}, NEW state, NEW sub,
         CarveFromNew(r, cb, state, sub)
  PROVE  \E p \in Addr, lo, hi \in Nat : Place(r, p, lo, hi, state, sub) /\ CarveEffect(r, p, lo, hi)
<1> USE DEF IInv
<1>1. PICK p \in Addr :
        /\ PoolAllocate(CbBlock, p)
        /\ chain' = [chain EXCEPT ![r] = <<p>> \o chain[r]]
        /\ room' = [room EXCEPT ![r] = sys'[p] - 1 - cb]
        /\ Place(r, p, sys'[p] - cb, sys'[p], state, sub)
  BY DEF CarveFromNew
<1>2. /\ PoolIInv' /\ p \notin out /\ out' = out \cup {p}
      /\ CbBlock <= sys'[p] /\ sys'[p] \in Nat /\ \A a \in out : sys'[a] = sys[a]
  BY <1>1, PoolAllocateIInv, BlockPoolAssumption
<1>3. room \in [Region -> Nat] /\ chain[r] \in Seq(Addr) /\ chain \in [Region -> Seq(Addr)]
  BY DEF RegionTypeOK
<1>4. \A j \in Live : objs[j].blk # p
  BY <1>2, BlocksOwned
<1> DEFINE t == <<p>> \o chain[r]
           lo == sys'[p] - cb
           hi == sys'[p]
<1>5. /\ t \in Seq(Addr) /\ t # << >> /\ Head(t) = p
      /\ Elems(t) = {p} \cup Elems(chain[r])
      /\ NoRepeats(chain[r]) /\ p \notin Elems(chain[r]) => NoRepeats(t)
  BY <1>3, ConsFacts
<1>6. chain' = [chain EXCEPT ![r] = t]
  BY <1>1
<1> HIDE DEF t
<1>7. p \notin Elems(chain[r]) /\ BlocksPartitioned'
  BY <1>2, BlocksOwned DEF PoolIInv
<1>8. /\ NoBlockLeaked'
      /\ chain' \in [Region -> Seq(Addr)]
      /\ chain'[r] = t /\ p \in Blocks(r)'
      /\ \A q \in Region \ {r} : chain'[q] = chain[q]
      /\ \A q \in Region : Blocks(q) \subseteq Blocks(q)'
  BY <1>2, <1>5, <1>6, <1>7, ChainGrows
<1>9. cb < CbBlock - 1 /\ CbBlock \in Nat
  BY BlockPoolAssumption DEF CarveFromNew, BlockSize
<1>10. lo \in Nat /\ hi \in Nat /\ 1 <= lo /\ lo < hi /\ sys'[p] - 1 - cb \in Nat
  BY <1>2, <1>9
<1>11. /\ room' \in [Region -> Nat] /\ 1 + room'[r] = lo
       /\ \A q \in Region \ {r} : room'[q] = room[q]
  BY <1>1, <1>2, <1>3, <1>10
<1>12. CarveEffect(r, p, lo, hi)
  <2>1. chain'[r] # << >> /\ Head(chain'[r]) = p /\ lo <= hi /\ hi <= sys'[p]
    BY <1>2, <1>5, <1>8, <1>10
  <2> HIDE DEF lo, hi
  <2> QED
    BY <1>2, <1>4, <1>8, <1>10, <1>11, <2>1, SMTT(30) DEF CarveEffect
<1> QED
  BY <1>1, <1>10, <1>12

(***************************************************************************)
(* allocate and unmanaged_alloc.                                           *)
(***************************************************************************)
LEMMA CarveIInv ==
  ASSUME IInv, NEW r \in Region, NEW cb \in Nat \ {0},
         NEW state \in {"plain", "raw"}, NEW sub \in BOOLEAN, sub => r = Root,
         Carve(r, cb, state, sub)
  PROVE  IInv'
<1> USE DEF IInv
<1>1. ClientRuns /\ Live # ObjId /\ UNCHANGED <<destroyChain, clearing, dtor>>
  BY DEF Carve
<1>2. PICK p, lo, hi : Place(r, p, lo, hi, state, sub) /\ CarveEffect(r, p, lo, hi)
  <2>1. CASE CarveFromRoom(r, cb, state, sub)
    BY <1>1, <2>1, CarveFromRoomEffect
  <2>2. CASE CarveDedicated(r, cb, state, sub)
    BY <1>1, <2>2, CarveDedicatedEffect
  <2>3. CASE CarveFromNew(r, cb, state, sub)
    BY <1>1, <2>3, CarveFromNewEffect
  <2> QED
    BY <2>1, <2>2, <2>3 DEF Carve
<1>3. PICK n \in ObjId :
        /\ n \notin Live
        /\ Live' = Live \cup {n}
        /\ objs'[n] = [region |-> r, blk |-> p, lo |-> lo, hi |-> hi, state |-> state, sub |-> sub]
        /\ \A id \in Live : objs'[id] = objs[id]
  BY <1>1, <1>2, PlaceFacts
<1>4. /\ objs'[n].region = r /\ objs'[n].blk = p /\ objs'[n].lo = lo /\ objs'[n].hi = hi
      /\ objs'[n].state = state /\ objs'[n].sub = sub
      /\ objs'[n] \in Allocation
  BY <1>2, <1>3 DEF CarveEffect, Allocation
<1>5. \A id \in Live : /\ objs[id] \in Allocation /\ objs[id].blk \in out
                       /\ objs[id].blk \in Blocks(objs[id].region) /\ objs[id].region \in Region
                       /\ objs[id].lo \in Nat /\ objs[id].hi \in Nat
  BY BlocksOwned DEF Allocation
<1>6. PoolIInv' /\ NoBlockLeaked'
  BY <1>2 DEF CarveEffect
<1>7. RegionTypeOK'
  BY <1>1, <1>2, <1>3, <1>4 DEF RegionTypeOK, CarveEffect
<1>8. ClearsNest'
  <2>1. \A id \in Live' : objs'[id].sub => objs'[id].region = Root
    BY <1>3, <1>4 DEF ClearsNest
  <2>2. \A q \in Region : dtor[q] # None =>
          Clearing(q) /\ dtor[q] \in Live' /\ objs'[dtor[q]].region = q
    BY <1>3 DEF ClearsNest
  <2> QED
    BY <1>1, <2>1, <2>2 DEF ClearsNest, Clearing
<1>9. AllocationsDisjoint'
  <2>1. ASSUME NEW id \in Live
        PROVE  /\ (objs[id].blk \in Blocks(objs[id].region))'
               /\ 1 <= objs'[id].lo /\ objs'[id].lo < objs'[id].hi
               /\ objs'[id].hi <= sys'[objs'[id].blk]
    <3>1. /\ objs[id].blk \in Blocks(objs[id].region)
          /\ 1 <= objs[id].lo /\ objs[id].lo < objs[id].hi /\ objs[id].hi <= sys[objs[id].blk]
      BY DEF AllocationsDisjoint
    <3>2. PICK q \in Region : q = objs[id].region
      BY <1>5
    <3>3. objs[id].blk \in Blocks(q)' /\ sys'[objs[id].blk] = sys[objs[id].blk]
      BY <1>2, <1>5, <3>1, <3>2 DEF CarveEffect
    <3>4. (objs[id].blk \in Blocks(objs[id].region))'
      BY <1>3, <3>2, <3>3 DEF Blocks
    <3> QED
      BY <1>3, <3>1, <3>3, <3>4
  <2>2. /\ (objs[n].blk \in Blocks(objs[n].region))'
        /\ 1 <= objs'[n].lo /\ objs'[n].lo < objs'[n].hi
        /\ objs'[n].hi <= sys'[objs'[n].blk]
    <3>1. p \in Blocks(r)' /\ 1 <= lo /\ lo < hi /\ hi <= sys'[p]
      BY <1>2 DEF CarveEffect
    <3> QED
      BY <1>4, <3>1 DEF Blocks
  <2>3. \A id \in Live : \A j \in Live \ {id} : objs'[j].blk = objs'[id].blk =>
          objs'[j].hi <= objs'[id].lo \/ objs'[id].hi <= objs'[j].lo
    BY <1>3 DEF AllocationsDisjoint
  <2>4. \A j \in Live : objs'[j].blk = objs'[n].blk => objs'[n].hi <= objs'[j].lo
    BY <1>2, <1>3, <1>4 DEF CarveEffect
  <2>5. ASSUME NEW id \in Live' PROVE (objs[id].blk \in Blocks(objs[id].region))'
    BY <1>3, <2>1, <2>2
  <2>6. ASSUME NEW id \in Live'
        PROVE  1 <= objs'[id].lo /\ objs'[id].lo < objs'[id].hi /\ objs'[id].hi <= sys'[objs'[id].blk]
    BY <1>3, <2>1, <2>2
  <2>7. \A id \in Live' : \A j \in Live' \ {id} : objs'[j].blk = objs'[id].blk =>
          objs'[j].hi <= objs'[id].lo \/ objs'[id].hi <= objs'[j].lo
    BY <1>3, <2>3, <2>4
  <2> QED
    BY <2>5, <2>6, <2>7 DEF AllocationsDisjoint
<1>10. RoomIsFree'
  <2> SUFFICES ASSUME NEW q \in Region PROVE RoomLeft(q)'
    BY DEF RoomIsFree
  <2>1. CASE q = r
    <3>1. /\ chain'[r] # << >> /\ 1 + room'[r] <= sys'[Head(chain'[r])]
          /\ \A j \in Live : objs[j].blk = Head(chain'[r]) => 1 + room'[r] <= objs[j].lo
          /\ p = Head(chain'[r]) => 1 + room'[r] <= lo
      BY <1>2 DEF CarveEffect
    <3>2. \A j \in Live' : objs'[j].blk = Head(chain'[r]) => 1 + room'[r] <= objs'[j].lo
      BY <1>3, <1>4, <3>1
    <3> QED
      BY <2>1, <3>1, <3>2 DEF RoomLeft
  <2>2. CASE q # r
    <3>1. RoomLeft(q) /\ chain'[q] = chain[q] /\ room'[q] = room[q]
      BY <1>1, <1>2, <2>2, ClientSeesRoom DEF CarveEffect
    <3>2. CASE chain[q] = << >>
      BY <3>1, <3>2 DEF RoomLeft
    <3>3. CASE chain[q] # << >>
      <4>1. Head(chain[q]) \in Blocks(q) /\ Head(chain[q]) \in out
        BY <3>3, TailFacts, BlocksOwned DEF RegionTypeOK
      <4>2. sys'[Head(chain[q])] = sys[Head(chain[q])]
        BY <1>2, <4>1 DEF CarveEffect
      <4>3. p \in Blocks(r)' /\ Head(chain[q]) \in Blocks(q)'
        BY <1>2, <4>1 DEF CarveEffect
      <4>4. p # Head(chain[q])
        BY <1>6, <2>2, <4>3 DEF NoBlockLeaked, Region
      <4>5. \A j \in Live' : objs'[j].blk = Head(chain[q]) => 1 + room[q] <= objs'[j].lo
        BY <1>3, <1>4, <3>1, <3>3, <4>4 DEF RoomLeft
      <4> QED
        BY <3>1, <3>3, <4>2, <4>5 DEF RoomLeft
    <3> QED
      BY <3>2, <3>3
  <2> QED
    BY <2>1, <2>2
<1>11. DestroyedOnce'
  <2> SUFFICES ASSUME NEW q \in Region
               PROVE  Managed(q)' = {id \in Live' : objs'[id].region = q /\ objs'[id].state = "managed"}
    BY <1>1 DEF DestroyedOnce
  <2>1. Managed(q) = {id \in Live : objs[id].region = q /\ objs[id].state = "managed"}
    BY DEF DestroyedOnce
  <2>2. Managed(q)' = Managed(q)
    BY <1>1 DEF Managed
  <2>3. state # "managed"
    OBVIOUS
  <2> QED
    BY <1>3, <1>4, <2>1, <2>2, <2>3
<1> QED
  BY <1>6, <1>7, <1>8, <1>9, <1>10, <1>11

-----------------------------------------------------------------------------
\* Managing and destroying

(***************************************************************************)
(* A step that only changes what became of the objects leaves the memory   *)
(* as it is.                                                               *)
(***************************************************************************)
LEMMA MemoryUnchanged ==
  ASSUME IInv, UNCHANGED <<poolVars, chain, room>>, Live' = Live,
         \A id \in Live : /\ objs'[id].region = objs[id].region /\ objs'[id].blk = objs[id].blk
                          /\ objs'[id].lo = objs[id].lo /\ objs'[id].hi = objs[id].hi
  PROVE  /\ PoolIInv' /\ NoBlockLeaked' /\ AllocationsDisjoint'
         /\ \A r \in Region : RoomLeft(r) => RoomLeft(r)'
<1> USE DEF IInv
<1>1. UNCHANGED <<sys, freeList, nFree, cbAllocSize, out, chain, room>>
  BY DEF poolVars
<1>2. PoolIInv'
  BY <1>1 DEF PoolIInv, PoolTypeOK, BlocksLargeEnough, BlocksPartitioned, PooledSizesFit, Pooled
<1>3. NoBlockLeaked'
  <2>1. \A q : Blocks(q)' = Blocks(q)
    BY <1>1 DEF Blocks
  <2> QED
    BY <1>1, <1>2, <2>1 DEF NoBlockLeaked, PoolIInv
<1>4. AllocationsDisjoint'
  <2>1. ASSUME NEW id \in Live PROVE (objs[id].blk \in Blocks(objs[id].region))'
    BY <1>1 DEF AllocationsDisjoint, Blocks
  <2>2. \A id \in Live : 1 <= objs'[id].lo /\ objs'[id].lo < objs'[id].hi /\ objs'[id].hi <= sys'[objs'[id].blk]
    BY <1>1 DEF AllocationsDisjoint
  <2>3. \A id \in Live : \A j \in Live \ {id} : objs'[j].blk = objs'[id].blk =>
          objs'[j].hi <= objs'[id].lo \/ objs'[id].hi <= objs'[j].lo
    BY DEF AllocationsDisjoint
  <2> QED
    BY <2>1, <2>2, <2>3 DEF AllocationsDisjoint
<1>5. \A r \in Region : RoomLeft(r) => RoomLeft(r)'
  BY <1>1 DEF RoomLeft
<1> QED
  BY <1>2, <1>3, <1>4, <1>5

\* The objects of r that await their destructor
Awaiting(r) == {id \in Live : objs[id].region = r /\ objs[id].state = "managed"}

\* An object under construction joins the front of its destroy chain.
LEMMA ManageIInv ==
  ASSUME IInv, NEW m \in Live, Manage(m)
  PROVE  IInv'
<1> USE DEF IInv
<1> DEFINE g == objs[m].region
<1>1. /\ ClientRuns /\ objs[m].state = "raw"
      /\ objs' = [objs EXCEPT ![m] = [objs[m] EXCEPT !.state = "managed"]]
      /\ destroyChain' = [destroyChain EXCEPT ![g] = <<m>> \o destroyChain[g]]
      /\ UNCHANGED <<poolVars, chain, room, clearing, dtor>>
  BY DEF Manage
<1>2. m \in ObjId /\ objs[m] \in Allocation /\ g \in Region
  BY BlocksOwned DEF RegionTypeOK
<1>3. /\ Live' = Live /\ \A id \in Live : id # m => objs'[id] = objs[id]
      /\ objs'[m] = [objs[m] EXCEPT !.state = "managed"]
  BY <1>1 DEF Live
<1>4. /\ objs'[m].region = g /\ objs'[m].blk = objs[m].blk
      /\ objs'[m].lo = objs[m].lo /\ objs'[m].hi = objs[m].hi
      /\ objs'[m].sub = objs[m].sub /\ objs'[m].state = "managed" /\ objs'[m] \in Allocation
  BY <1>2, <1>3 DEF Allocation
<1> HIDE DEF g
<1>5. /\ PoolIInv' /\ NoBlockLeaked' /\ AllocationsDisjoint'
      /\ \A r \in Region : RoomLeft(r) => RoomLeft(r)'
  BY <1>1, <1>3, <1>4, MemoryUnchanged DEF g
<1>6. RoomIsFree'
  BY <1>1, <1>5, ClientSeesRoom DEF RoomIsFree
<1>7. m \notin Elems(destroyChain[g]) /\ Elems(destroyChain[g]) = Awaiting(g)
  BY <1>1, <1>2 DEF DestroyedOnce, Managed, Elems, Awaiting
<1>8. /\ destroyChain'[g] \in Seq(ObjId) /\ destroyChain' \in [Region -> Seq(ObjId)]
      /\ Elems(destroyChain'[g]) = {m} \cup Elems(destroyChain[g])
      /\ NoRepeats(destroyChain'[g])
      /\ \A q \in Region : q # g => destroyChain'[q] = destroyChain[q]
  <2>1. destroyChain[g] \in Seq(ObjId) /\ destroyChain \in [Region -> Seq(ObjId)]
    BY <1>2 DEF RegionTypeOK
  <2>2. NoRepeats(destroyChain[g])
    BY <1>2 DEF DestroyedOnce, NoRepeats
  <2> DEFINE t == <<m>> \o destroyChain[g]
  <2>3. t \in Seq(ObjId) /\ Elems(t) = {m} \cup Elems(destroyChain[g]) /\ NoRepeats(t)
    BY <1>2, <1>7, <2>1, <2>2, ConsFacts
  <2>4. destroyChain' = [destroyChain EXCEPT ![g] = t]
    BY <1>1
  <2> HIDE DEF t
  <2> QED
    BY <1>2, <2>1, <2>3, <2>4
<1>9. RegionTypeOK'
  BY <1>1, <1>3, <1>4, <1>8 DEF RegionTypeOK
<1>10. ClearsNest'
  <2>1. \A id \in Live' : objs'[id].sub => objs'[id].region = Root
    BY <1>3, <1>4 DEF ClearsNest, g
  <2>2. \A q \in Region : dtor[q] # None =>
          Clearing(q) /\ dtor[q] \in Live' /\ objs'[dtor[q]].region = q
    BY <1>3, <1>4 DEF ClearsNest, g
  <2> QED
    BY <1>1, <2>1, <2>2 DEF ClearsNest, Clearing
<1>11. DestroyedOnce'
  <2>1. ASSUME NEW q \in Region
        PROVE  /\ Managed(q)' = {id \in Live' : objs'[id].region = q /\ objs'[id].state = "managed"}
               /\ NoRepeats(destroyChain'[q])
    <3>1. CASE q = g
      <4>1. Managed(q)' = {m} \cup Awaiting(q)
        BY <1>7, <1>8, <3>1, SMTT(30) DEF Managed, Elems
      <4> QED
        BY <1>3, <1>4, <1>8, <3>1, <4>1 DEF Awaiting
    <3>2. CASE q # g
      <4>1. Managed(q)' = Awaiting(q) /\ NoRepeats(destroyChain'[q])
        BY <1>8, <3>2 DEF Managed, DestroyedOnce, Awaiting, NoRepeats
      <4>2. \A id \in Live : objs'[id].region = q /\ objs'[id].state = "managed" <=>
                             id \in Awaiting(q)
        BY <1>3, <1>4, <3>2 DEF Awaiting, g
      <4>3. Managed(q)' = {id \in Live' : objs'[id].region = q /\ objs'[id].state = "managed"}
        BY <1>3, <4>1, <4>2 DEF Awaiting
      <4> QED
        BY <4>1, <4>3
    <3> QED
      BY <3>1, <3>2
  <2> QED
    BY <2>1 DEF DestroyedOnce, NoRepeats
<1> QED
  BY <1>5, <1>6, <1>9, <1>10, <1>11

\* destroyAll takes the front of the destroy chain, then calls its destructor,
\* which may be that of the inner region.
LEMMA DestroyOneIInv ==
  ASSUME IInv, NEW r \in Region, clearing # << >>, r = Head(clearing), dtor[r] = None,
         DestroyOne(r)
  PROVE  IInv'
<1> USE DEF IInv
<1> DEFINE m == Head(destroyChain[r])
<1>1. /\ destroyChain[r] # << >>
      /\ destroyChain' = [destroyChain EXCEPT ![r] = Tail(destroyChain[r])]
      /\ dtor' = [dtor EXCEPT ![r] = m]
      /\ objs' = [objs EXCEPT ![m] = [objs[m] EXCEPT !.state = "destroyed"]]
      /\ clearing' = IF objs[m].sub THEN <<Sub>> \o clearing ELSE clearing
      /\ UNCHANGED <<poolVars, chain, room>>
  BY DEF DestroyOne
<1>2. /\ m \in ObjId /\ Tail(destroyChain[r]) \in Seq(ObjId)
      /\ Elems(destroyChain[r]) = {m} \cup Elems(Tail(destroyChain[r]))
      /\ NoRepeats(Tail(destroyChain[r])) /\ m \notin Elems(Tail(destroyChain[r]))
  <2>1. destroyChain[r] \in Seq(ObjId) /\ NoRepeats(destroyChain[r])
    BY DEF RegionTypeOK, DestroyedOnce, NoRepeats
  <2> QED
    BY <1>1, <2>1, TailFacts
<1> HIDE DEF m
<1>3. Elems(destroyChain[r]) = Awaiting(r) /\ m \in Awaiting(r)
  BY <1>2 DEF DestroyedOnce, Managed, Elems, Awaiting
<1>4. m \in Live /\ objs[m].region = r /\ objs[m] \in Allocation
  BY <1>3, BlocksOwned DEF Awaiting
<1>5. /\ Live' = Live /\ \A id \in Live : id # m => objs'[id] = objs[id]
      /\ objs'[m] = [objs[m] EXCEPT !.state = "destroyed"]
  BY <1>1, <1>4 DEF Live
<1>6. /\ objs'[m].region = r /\ objs'[m].blk = objs[m].blk
      /\ objs'[m].lo = objs[m].lo /\ objs'[m].hi = objs[m].hi
      /\ objs'[m].sub = objs[m].sub /\ objs'[m].state = "destroyed" /\ objs'[m] \in Allocation
  BY <1>4, <1>5 DEF Allocation
<1>7. /\ PoolIInv' /\ NoBlockLeaked' /\ AllocationsDisjoint'
      /\ \A q \in Region : RoomLeft(q) => RoomLeft(q)'
  BY <1>1, <1>4, <1>5, <1>6, MemoryUnchanged
<1>8. /\ destroyChain' \in [Region -> Seq(ObjId)]
      /\ destroyChain'[r] = Tail(destroyChain[r])
      /\ \A q \in Region : q # r => destroyChain'[q] = destroyChain[q]
  BY <1>1, <1>2 DEF RegionTypeOK
<1>9. /\ dtor' \in [Region -> 0..MaxObjs] /\ dtor'[r] = m
      /\ \A q \in Region : q # r => dtor'[q] = dtor[q]
  BY <1>1, <1>2, RegionAllocAssumption DEF RegionTypeOK, ObjId
<1>10. m # None
  BY <1>2 DEF ObjId, None
<1>11. /\ clearing' \in {<< >>, <<Root>>, <<Sub>>, <<Sub, Root>>}
       /\ clearing' = <<Sub, Root>> => dtor'[Root] # None
       /\ \A q \in Region : Clearing(q) => Clearing(q)'
       /\ Clearing(r)
  <2>1. CASE clearing = <<Root>>
    <3>1. r = Root
      BY <2>1
    <3>2. CASE objs[m].sub
      <4>1. clearing' = <<Sub, Root>>
        <5>1. clearing' = <<Sub>> \o clearing
          BY <1>1, <3>2
        <5> QED
          BY <2>1, <5>1, PairFacts
      <4> QED
        BY <1>9, <1>10, <2>1, <3>1, <4>1 DEF Clearing, Region
    <3>3. CASE ~objs[m].sub
      <4>1. clearing' = <<Root>>
        BY <1>1, <2>1, <3>3
      <4>2. clearing' # <<Sub, Root>>
        BY <4>1
      <4> QED
        BY <2>1, <3>1, <4>1, <4>2 DEF Clearing, Region
    <3> QED
      BY <3>2, <3>3
  <2>2. CASE clearing = <<Sub>> \/ clearing = <<Sub, Root>>
    <3>1. r = Sub
      BY <2>2
    <3>2. clearing' = clearing
      BY <1>1, <1>4, <3>1, RegionAllocAssumption DEF ClearsNest
    <3>3. clearing = <<Sub, Root>> => dtor'[Root] # None
      BY <1>9, <3>1, RegionAllocAssumption DEF ClearsNest, Region
    <3> QED
      BY <2>2, <3>1, <3>2, <3>3 DEF Clearing
  <2> QED
    BY <2>1, <2>2 DEF ClearsNest
<1>12. ClearsNest'
  <2>1. \A id \in Live' : objs'[id].sub => objs'[id].region = Root
    BY <1>4, <1>5, <1>6 DEF ClearsNest
  <2>2. ASSUME NEW q \in Region, dtor'[q] # None
        PROVE  Clearing(q)' /\ dtor'[q] \in Live' /\ objs'[dtor'[q]].region = q
    <3>1. CASE q = r
      BY <1>4, <1>5, <1>6, <1>9, <1>11, <3>1
    <3>2. CASE q # r
      <4>1. dtor'[q] = dtor[q] /\ Clearing(q) /\ dtor[q] \in Live /\ objs[dtor[q]].region = q
        BY <1>9, <2>2, <3>2 DEF ClearsNest
      <4>2. objs'[dtor[q]].region = objs[dtor[q]].region
        BY <1>4, <1>5, <1>6, <4>1
      <4> QED
        BY <1>5, <1>11, <4>1, <4>2
    <3> QED
      BY <3>1, <3>2
  <2> QED
    BY <1>11, <2>1, <2>2 DEF ClearsNest
<1>13. RegionTypeOK'
  <2>1. UNCHANGED <<chain, room>>
    BY <1>1
  <2> QED
    BY <1>5, <1>6, <1>8, <1>9, <2>1 DEF RegionTypeOK
<1>14. RoomIsFree'
  <2> SUFFICES ASSUME NEW q \in Region, ~Releasing(q)' PROVE RoomLeft(q)'
    BY DEF RoomIsFree
  <2>1. CASE q = r
    BY <1>1, <1>7, <2>1 DEF RoomIsFree, Releasing
  <2>2. CASE q # r
    <3>1. ~Releasing(q)
      BY <1>8, <1>9, <1>11, <2>2 DEF Releasing
    <3> QED
      BY <1>7, <3>1 DEF RoomIsFree
  <2> QED
    BY <2>1, <2>2
<1>15. DestroyedOnce'
  <2>1. ASSUME NEW q \in Region
        PROVE  /\ Managed(q)' = {id \in Live' : objs'[id].region = q /\ objs'[id].state = "managed"}
               /\ NoRepeats(destroyChain'[q])
    <3>1. CASE q = r
      <4>1. Managed(q)' = Elems(destroyChain'[q])
        BY DEF Managed, Elems
      <4>2. Managed(q)' = Awaiting(q) \ {m}
        BY <1>2, <1>3, <1>8, <3>1, <4>1
      <4>3. \A id \in Live : objs'[id].region = q /\ objs'[id].state = "managed" <=>
                             id \in Awaiting(q) \ {m}
        BY <1>5, <1>6 DEF Awaiting
      <4>4. Managed(q)' = {id \in Live' : objs'[id].region = q /\ objs'[id].state = "managed"}
        BY <1>5, <4>2, <4>3 DEF Awaiting
      <4> QED
        BY <1>2, <1>8, <3>1, <4>4
    <3>2. CASE q # r
      <4>1. Managed(q)' = Awaiting(q) /\ NoRepeats(destroyChain'[q])
        BY <1>8, <3>2 DEF Managed, DestroyedOnce, Awaiting, NoRepeats
      <4>2. \A id \in Live : objs'[id].region = q /\ objs'[id].state = "managed" <=>
                             id \in Awaiting(q)
        BY <1>4, <1>5, <1>6, <3>2 DEF Awaiting
      <4>3. Managed(q)' = {id \in Live' : objs'[id].region = q /\ objs'[id].state = "managed"}
        BY <1>5, <4>1, <4>2 DEF Awaiting
      <4> QED
        BY <4>1, <4>3
    <3> QED
      BY <3>1, <3>2
  <2> QED
    BY <2>1 DEF DestroyedOnce, NoRepeats
<1> QED
  BY <1>7, <1>12, <1>13, <1>14, <1>15

\* A destructor returns to the clear that called it.
LEMMA DestructorReturnsIInv ==
  ASSUME IInv, NEW r \in Region, clearing # << >>, r = Head(clearing), DestructorReturns(r)
  PROVE  IInv'
<1> USE DEF IInv
<1>1. /\ dtor[r] # None /\ dtor' = [dtor EXCEPT ![r] = None]
      /\ UNCHANGED <<poolVars, chain, room, destroyChain, objs, clearing>>
  BY DEF DestructorReturns
<1>2. Live' = Live
  BY <1>1 DEF Live
<1>3. /\ PoolIInv' /\ NoBlockLeaked' /\ AllocationsDisjoint'
      /\ \A q \in Region : RoomLeft(q) => RoomLeft(q)'
  BY <1>1, <1>2, MemoryUnchanged
<1>4. /\ dtor' \in [Region -> 0..MaxObjs] /\ dtor'[r] = None
      /\ \A q \in Region : q # r => dtor'[q] = dtor[q]
  BY <1>1, RegionAllocAssumption DEF RegionTypeOK, None
<1>5. RegionTypeOK'
  BY <1>1, <1>2, <1>4 DEF RegionTypeOK
<1>6. ClearsNest'
  <2>1. clearing = <<Sub, Root>> => r # Root /\ Root \in Region
    BY RegionAllocAssumption DEF Region
  <2>2. \A q \in Region : dtor'[q] # None => dtor[q] = dtor'[q]
    BY <1>4
  <2> QED
    BY <1>1, <1>2, <1>4, <2>1, <2>2 DEF ClearsNest, Clearing
<1>7. RoomIsFree'
  BY <1>1, <1>3, <1>4 DEF RoomIsFree, Releasing, Clearing
<1>8. DestroyedOnce'
  BY <1>1, <1>2 DEF DestroyedOnce, Managed
<1> QED
  BY <1>3, <1>5, <1>6, <1>7, <1>8

-----------------------------------------------------------------------------
\* Clearing

\* A client clears a region, in no destructor of that region.
LEMMA BeginClearIInv ==
  ASSUME IInv, NEW r \in Region, BeginClear(r)
  PROVE  IInv'
<1> USE DEF IInv
<1>1. /\ clearing = << >> /\ clearing' = <<r>>
      /\ UNCHANGED <<poolVars, chain, room, destroyChain, objs, dtor>>
  BY DEF BeginClear
<1>2. Live' = Live
  BY <1>1 DEF Live
<1>3. /\ PoolIInv' /\ NoBlockLeaked' /\ AllocationsDisjoint'
      /\ \A q \in Region : RoomLeft(q) => RoomLeft(q)'
  BY <1>1, <1>2, MemoryUnchanged
<1>4. \A q \in Region : dtor[q] = None /\ ~Clearing(q)
  BY <1>1 DEF ClearsNest, Clearing
<1>5. ClearsNest'
  <2>1. clearing' \in {<< >>, <<Root>>, <<Sub>>, <<Sub, Root>>} /\ clearing' # <<Sub, Root>>
    BY <1>1 DEF Region
  <2> QED
    BY <1>1, <1>2, <1>4, <2>1 DEF ClearsNest
<1>6. RegionTypeOK'
  BY <1>1, <1>2 DEF RegionTypeOK
<1>7. RoomIsFree'
  BY <1>3, <1>4 DEF RoomIsFree, Releasing
<1>8. DestroyedOnce'
  BY <1>1, <1>2 DEF DestroyedOnce, Managed
<1> QED
  BY <1>3, <1>5, <1>6, <1>7, <1>8

(***************************************************************************)
(* clear gives the current block of r back, and the objects in it go.      *)
(***************************************************************************)
LEMMA ReleaseBlockFacts ==
  ASSUME IInv, NEW r \in Region, ReleaseBlock(r)
  PROVE  LET b == Head(chain[r]) IN
         /\ PoolIInv' /\ b \in Blocks(r) /\ out' = out \ {b}
         /\ \A a \in out' : sys'[a] = sys[a]
         /\ chain' \in [Region -> Seq(Addr)]
         /\ \A q \in Region : NoRepeats(chain'[q])
         /\ \A q \in Region : Blocks(q)' = Blocks(q) \ {b}
         /\ \A q \in Region : q # r => chain'[q] = chain[q]
         /\ Live' = {id \in Live : objs[id].blk # b}
         /\ \A id \in Live' : objs'[id] = objs[id]
<1> USE DEF IInv
<1> DEFINE b == Head(chain[r])
<1>1. /\ chain[r] # << >> /\ PoolDeallocate(b)
      /\ chain' = [chain EXCEPT ![r] = Tail(chain[r])]
      /\ objs' = [id \in {i \in Live : objs[i].blk # b} |-> objs[id]]
  BY DEF ReleaseBlock
<1>2. chain[r] \in Seq(Addr) /\ chain \in [Region -> Seq(Addr)] /\ \A q \in Region : NoRepeats(chain[q])
  BY DEF RegionTypeOK, NoBlockLeaked, NoRepeats
<1>3. /\ b \in Addr /\ b \in Elems(chain[r]) /\ Tail(chain[r]) \in Seq(Addr)
      /\ Elems(chain[r]) = {b} \cup Elems(Tail(chain[r]))
      /\ NoRepeats(Tail(chain[r])) /\ b \notin Elems(Tail(chain[r]))
  BY <1>1, <1>2, TailFacts
<1> HIDE DEF b
<1>4. PoolIInv' /\ b \in Blocks(r) /\ out' = out \ {b} /\ \A a \in out' : sys'[a] = sys[a]
  BY <1>1, <1>3, PoolDeallocateIInv, BlocksOwned
<1>5. /\ chain' \in [Region -> Seq(Addr)] /\ chain'[r] = Tail(chain[r])
      /\ \A q \in Region : q # r => chain'[q] = chain[q]
  BY <1>1, <1>2, <1>3
<1>6. \A q \in Region : NoRepeats(chain'[q])
  BY <1>2, <1>3, <1>5
<1>7. ASSUME NEW q \in Region PROVE Blocks(q)' = Blocks(q) \ {b}
  <2>1. Blocks(q) = Elems(chain[q]) /\ Blocks(q)' = Elems(chain'[q])
    BY DEF Blocks, Elems
  <2>2. CASE q = r
    BY <1>3, <1>5, <2>1, <2>2
  <2>3. CASE q # r
    <3>1. b \notin Blocks(q)
      BY <1>4, <2>3 DEF NoBlockLeaked, Region
    <3> QED
      BY <1>5, <2>1, <2>3, <3>1
  <2> QED
    BY <2>2, <2>3
<1>8. Live' = {id \in Live : objs[id].blk # b} /\ \A id \in Live' : objs'[id] = objs[id]
  <2>1. Live' = {id \in Live : objs[id].blk # b}
    BY <1>1 DEF Live
  <2> QED
    BY <1>1, <2>1
<1> QED
  BY <1>4, <1>5, <1>6, <1>7, <1>8 DEF b

\* clear gives a block back to the pool when no destructor is left to run.
LEMMA ReleaseBlockIInv ==
  ASSUME IInv, NEW r \in Region, clearing # << >>, r = Head(clearing), dtor[r] = None,
         ReleaseBlock(r)
  PROVE  IInv'
<1> USE DEF IInv
<1> DEFINE b == Head(chain[r])
<1>1. /\ destroyChain[r] = << >>
      /\ UNCHANGED <<room, destroyChain, clearing, dtor>>
  BY DEF ReleaseBlock
<1>2. /\ PoolIInv' /\ b \in Blocks(r) /\ out' = out \ {b}
      /\ \A a \in out' : sys'[a] = sys[a]
      /\ chain' \in [Region -> Seq(Addr)]
      /\ \A q \in Region : NoRepeats(chain'[q])
      /\ \A q \in Region : Blocks(q)' = Blocks(q) \ {b}
      /\ \A q \in Region : q # r => chain'[q] = chain[q]
      /\ Live' = {id \in Live : objs[id].blk # b}
      /\ \A id \in Live' : objs'[id] = objs[id]
  BY ReleaseBlockFacts
<1> HIDE DEF b
<1>3. \A id \in Live : /\ objs[id] \in Allocation /\ objs[id].blk \in out
                       /\ objs[id].region \in Region /\ objs[id].blk \in Blocks(objs[id].region)
                       /\ objs[id].blk = b => objs[id].region = r
  BY <1>2, BlocksOwned
<1>4. NoBlockLeaked'
  <2>1. out' = Blocks(Root)' \cup Blocks(Sub)' /\ Blocks(Root)' \cap Blocks(Sub)' = {}
    BY <1>2 DEF NoBlockLeaked, Region
  <2> QED
    BY <1>2, <2>1 DEF NoBlockLeaked, NoRepeats, PoolIInv
<1>5. RegionTypeOK'
  BY <1>1, <1>2 DEF RegionTypeOK
<1>6. ClearsNest'
  <2>1. ASSUME NEW q \in Region, dtor[q] # None
        PROVE  Clearing(q) /\ dtor[q] \in Live' /\ objs'[dtor[q]].region = q
    <3>1. q # r /\ Clearing(q) /\ dtor[q] \in Live /\ objs[dtor[q]].region = q
      BY <2>1 DEF ClearsNest
    <3>2. dtor[q] \in Live'
      BY <1>2, <1>3, <3>1
    <3> QED
      BY <1>2, <3>1, <3>2
  <2>2. \A id \in Live' : objs'[id].sub => objs'[id].region = Root
    BY <1>2 DEF ClearsNest
  <2> QED
    BY <1>1, <2>1, <2>2 DEF ClearsNest, Clearing
<1>7. AllocationsDisjoint'
  <2>1. ASSUME NEW id \in Live' PROVE (objs[id].blk \in Blocks(objs[id].region))'
    <3>1. PICK q \in Region : q = objs[id].region
      BY <1>2, <1>3
    <3>2. objs[id].blk \in Blocks(q)'
      BY <1>2, <1>3, <3>1
    <3> QED
      BY <1>2, <3>1, <3>2 DEF Blocks
  <2>2. ASSUME NEW id \in Live'
        PROVE  1 <= objs'[id].lo /\ objs'[id].lo < objs'[id].hi /\ objs'[id].hi <= sys'[objs'[id].blk]
    <3>1. sys'[objs[id].blk] = sys[objs[id].blk]
      BY <1>2, <1>3
    <3> QED
      BY <1>2, <3>1 DEF AllocationsDisjoint
  <2>3. \A id \in Live' : \A j \in Live' \ {id} : objs'[j].blk = objs'[id].blk =>
          objs'[j].hi <= objs'[id].lo \/ objs'[id].hi <= objs'[j].lo
    BY <1>2 DEF AllocationsDisjoint
  <2> QED
    BY <2>1, <2>2, <2>3 DEF AllocationsDisjoint
<1>8. RoomIsFree'
  <2> SUFFICES ASSUME NEW q \in Region, ~Releasing(q)' PROVE RoomLeft(q)'
    BY DEF RoomIsFree
  <2>1. Clearing(r)
    <3>1. clearing = <<Root>> \/ clearing = <<Sub>> \/ clearing = <<Sub, Root>>
      BY DEF ClearsNest
    <3> QED
      BY <3>1 DEF Clearing
  <2>2. q # r /\ ~Releasing(q)
    BY <1>1, <2>1 DEF Releasing, Clearing
  <2>3. RoomLeft(q) /\ chain'[q] = chain[q] /\ room'[q] = room[q]
    BY <1>1, <1>2, <2>2 DEF RoomIsFree
  <2>4. CASE chain[q] = << >>
    BY <2>3, <2>4 DEF RoomLeft
  <2>5. CASE chain[q] # << >>
    <3>1. Head(chain[q]) \in Blocks(q) /\ Head(chain[q]) \in out
      BY <2>5, TailFacts, BlocksOwned DEF RegionTypeOK
    <3>2. Head(chain[q]) # b
      BY <1>2, <2>2, <3>1 DEF NoBlockLeaked, Region
    <3>3. sys'[Head(chain[q])] = sys[Head(chain[q])]
      BY <1>2, <3>1, <3>2
    <3> QED
      BY <1>2, <2>3, <2>5, <3>3 DEF RoomLeft
  <2> QED
    BY <2>4, <2>5
<1>9. DestroyedOnce'
  <2>1. ASSUME NEW q \in Region
        PROVE  Managed(q)' = {id \in Live' : objs'[id].region = q /\ objs'[id].state = "managed"}
    <3>1. Managed(q)' = Managed(q) /\ Managed(q) = Awaiting(q) /\ Managed(r) = Awaiting(r)
      BY <1>1 DEF Managed, DestroyedOnce, Awaiting
    <3>2. Awaiting(r) = {}
      BY <1>1, <3>1 DEF Managed
    <3>3. Awaiting(q) \subseteq Live'
      BY <1>2, <1>3, <3>2 DEF Awaiting
    <3>4. \A id \in Live' : objs'[id].region = q /\ objs'[id].state = "managed" <=>
                            id \in Awaiting(q)
      BY <1>2 DEF Awaiting
    <3> QED
      BY <3>1, <3>3, <3>4
  <2>2. ASSUME NEW q \in Region PROVE NoRepeats(destroyChain'[q])
    BY <1>1 DEF DestroyedOnce, NoRepeats
  <2> QED
    BY <2>1, <2>2 DEF DestroyedOnce, NoRepeats
<1> QED
  BY <1>2, <1>4, <1>5, <1>6, <1>7, <1>8, <1>9

\* clear is done: no block, no room, no object.
LEMMA EndClearIInv ==
  ASSUME IInv, NEW r \in Region, clearing # << >>, r = Head(clearing), dtor[r] = None,
         EndClear(r)
  PROVE  IInv'
<1> USE DEF IInv
<1>1. /\ chain[r] = << >> /\ room' = [room EXCEPT ![r] = 0]
      /\ clearing' = Tail(clearing)
      /\ dtor' = IF Len(clearing) > 1 THEN [dtor EXCEPT ![Root] = None] ELSE dtor
      /\ UNCHANGED <<poolVars, chain, destroyChain, objs>>
  BY DEF EndClear
<1>2. /\ Live' = Live
      /\ UNCHANGED <<sys, freeList, nFree, cbAllocSize, out, chain, destroyChain, objs>>
  BY <1>1 DEF Live, poolVars
<1>3. PoolIInv' /\ NoBlockLeaked' /\ AllocationsDisjoint' /\ DestroyedOnce'
  <2>1. PoolIInv'
    BY <1>2 DEF PoolIInv, PoolTypeOK, BlocksLargeEnough, BlocksPartitioned, PooledSizesFit, Pooled
  <2>2. NoBlockLeaked'
    BY <1>2, <2>1 DEF NoBlockLeaked, Blocks, PoolIInv
  <2>3. AllocationsDisjoint' /\ DestroyedOnce'
    BY <1>2 DEF AllocationsDisjoint, Blocks, DestroyedOnce, Managed
  <2> QED
    BY <2>1, <2>2, <2>3
<1>4. /\ room' \in [Region -> Nat] /\ room'[r] = 0
      /\ \A q \in Region : q # r => room'[q] = room[q]
  BY <1>1 DEF RegionTypeOK
\* The clear that ends is the only one, or Sub's: its destructor then returns to Root's.
<1>5. \/ /\ clearing = <<r>> /\ clearing' = << >> /\ dtor' = dtor
      \/ /\ clearing = <<Sub, Root>> /\ r = Sub /\ clearing' = <<Root>>
         /\ dtor' = [dtor EXCEPT ![Root] = None]
  <2>1. CASE clearing = <<Root>> \/ clearing = <<Sub>>
    <3>1. clearing = <<r>> /\ Len(clearing) = 1
      BY <2>1
    <3>2. clearing' = << >> /\ dtor' = dtor
      BY <1>1, <3>1
    <3> QED
      BY <3>1, <3>2
  <2>2. CASE clearing = <<Sub, Root>>
    <3>1. r = Sub /\ Tail(clearing) = <<Root>> /\ Len(clearing) = 2
      BY <2>2
    <3> QED
      BY <1>1, <2>2, <3>1
  <2> QED
    BY <2>1, <2>2 DEF ClearsNest
<1>6. /\ dtor' \in [Region -> 0..MaxObjs]
      /\ \A q \in Region : dtor'[q] # None => dtor[q] = dtor'[q]
      /\ clearing = <<Sub, Root>> => dtor'[Root] = None
  <2>1. CASE clearing = <<r>> /\ dtor' = dtor
    <3>1. clearing # <<Sub, Root>>
      BY <2>1
    <3> QED
      BY <2>1, <3>1 DEF RegionTypeOK
  <2>2. CASE dtor' = [dtor EXCEPT ![Root] = None]
    BY <2>2, RegionAllocAssumption DEF RegionTypeOK, None, Region
  <2> QED
    BY <1>5, <2>1, <2>2
<1>7. RegionTypeOK'
  BY <1>2, <1>4, <1>6 DEF RegionTypeOK
<1>8. ClearsNest'
  <2>1. ASSUME NEW q \in Region, dtor'[q] # None PROVE Clearing(q)'
    <3>1. q # r /\ Clearing(q)
      BY <1>6, <2>1 DEF ClearsNest
    <3>2. CASE clearing = <<r>>
      BY <3>1, <3>2 DEF Clearing
    <3>3. CASE clearing = <<Sub, Root>> /\ r = Sub
      <4>1. q = Root
        BY <3>1, <3>3 DEF Region
      <4> QED
        BY <1>6, <2>1, <3>3, <4>1
    <3> QED
      BY <1>5, <3>2, <3>3
  <2>2. clearing' \in {<< >>, <<Root>>, <<Sub>>, <<Sub, Root>>} /\ clearing' # <<Sub, Root>>
    BY <1>5
  <2>3. \A id \in Live' : objs'[id].sub => objs'[id].region = Root
    BY <1>2 DEF ClearsNest
  <2>4. \A q \in Region : dtor'[q] # None => dtor'[q] \in Live' /\ objs'[dtor'[q]].region = q
    BY <1>2, <1>6 DEF ClearsNest
  <2> QED
    BY <2>1, <2>2, <2>3, <2>4 DEF ClearsNest
<1>9. RoomIsFree'
  <2> SUFFICES ASSUME NEW q \in Region, ~Releasing(q)' PROVE RoomLeft(q)'
    BY DEF RoomIsFree
  <2>1. CASE q = r
    BY <1>1, <1>4, <2>1 DEF RoomLeft
  <2>2. CASE q # r
    <3>1. ~Releasing(q)
      <4>1. CASE clearing = <<r>>
        BY <2>2, <4>1 DEF Releasing, Clearing
      <4>2. CASE clearing = <<Sub, Root>> /\ r = Sub
        BY <2>2, <4>2 DEF Releasing, ClearsNest, Region
      <4> QED
        BY <1>5, <4>1, <4>2
    <3>2. RoomLeft(q)
      BY <3>1 DEF RoomIsFree
    <3> QED
      BY <1>2, <1>4, <2>2, <3>2 DEF RoomLeft
  <2> QED
    BY <2>1, <2>2
<1> QED
  BY <1>3, <1>7, <1>8, <1>9

(***************************************************************************)
(* The owner of the pool drops its cached blocks: no region holds one.     *)
(***************************************************************************)
LEMMA ClearPoolIInv ==
  ASSUME IInv, ClearPool
  PROVE  IInv'
<1> USE DEF IInv
<1>1. PoolClear /\ UNCHANGED <<chain, room, destroyChain, objs, clearing, dtor>>
  BY DEF ClearPool
<1>2. PoolIInv' /\ out' = out /\ \A a \in out : sys'[a] = sys[a]
  BY <1>1, PoolClearIInv
<1>3. Live' = Live /\ \A q : Blocks(q)' = Blocks(q)
  BY <1>1 DEF Live, Blocks
<1>4. \A id \in Live : objs[id].blk \in out
  BY BlocksOwned
<1>5. NoBlockLeaked'
  BY <1>1, <1>2, <1>3 DEF NoBlockLeaked, PoolIInv
<1>6. RegionTypeOK' /\ ClearsNest' /\ DestroyedOnce'
  BY <1>1, <1>3 DEF RegionTypeOK, ClearsNest, Clearing, DestroyedOnce, Managed
<1>7. AllocationsDisjoint'
  BY <1>1, <1>2, <1>3, <1>4 DEF AllocationsDisjoint, Blocks
<1>8. RoomIsFree'
  <2> SUFFICES ASSUME NEW q \in Region, ~Releasing(q)' PROVE RoomLeft(q)'
    BY DEF RoomIsFree
  <2>1. RoomLeft(q)
    BY <1>1 DEF RoomIsFree, Releasing, Clearing
  <2>2. CASE chain[q] = << >>
    BY <1>1, <2>1, <2>2 DEF RoomLeft
  <2>3. CASE chain[q] # << >>
    <3>1. sys'[Head(chain[q])] = sys[Head(chain[q])]
      BY <1>2, <2>3, TailFacts, BlocksOwned DEF RegionTypeOK
    <3> QED
      BY <1>1, <1>3, <2>1, <2>3, <3>1 DEF RoomLeft
  <2> QED
    BY <2>2, <2>3
<1> QED
  BY <1>2, <1>5, <1>6, <1>7, <1>8

\* New regions satisfy the invariant.
LEMMA InitIInv == Init => IInv
<1> SUFFICES ASSUME Init PROVE IInv
  OBVIOUS
<1>1. PoolIInv /\ out = {}
  BY PoolInitIInv DEF Init
<1>2. /\ chain = [r \in Region |-> << >>] /\ room = [r \in Region |-> 0]
      /\ destroyChain = [r \in Region |-> << >>] /\ objs = << >> /\ clearing = << >>
      /\ dtor = [r \in Region |-> None]
  BY DEF Init
<1>3. Live = {} /\ \A r \in Region : Blocks(r) = {} /\ Managed(r) = {} /\ chain[r] = << >>
  BY <1>2 DEF Live, Blocks, Managed
<1>4. RegionTypeOK
  BY <1>2, <1>3, RegionAllocAssumption DEF RegionTypeOK, None
<1>5. ClearsNest
  BY <1>2, <1>3 DEF ClearsNest
<1>6. NoBlockLeaked
  BY <1>1, <1>3 DEF NoBlockLeaked, Region, PoolIInv
<1>7. AllocationsDisjoint /\ RoomIsFree /\ DestroyedOnce
  BY <1>2, <1>3 DEF AllocationsDisjoint, RoomIsFree, RoomLeft, DestroyedOnce
<1> QED
  BY <1>1, <1>4, <1>5, <1>6, <1>7 DEF IInv

\* Every step of a clear keeps the invariant.
LEMMA ClearStepIInv ==
  ASSUME IInv, ClearStep
  PROVE  IInv'
<1> DEFINE r == Head(clearing)
<1>1. clearing # << >> /\ r \in Region
  BY DEF ClearStep, IInv, ClearsNest, Region
<1>2. CASE DestructorReturns(r)
  BY <1>1, <1>2, DestructorReturnsIInv
<1>3. CASE dtor[r] = None /\ DestroyOne(r)
  BY <1>1, <1>3, DestroyOneIInv
<1>4. CASE dtor[r] = None /\ ReleaseBlock(r)
  BY <1>1, <1>4, ReleaseBlockIInv
<1>5. CASE dtor[r] = None /\ EndClear(r)
  BY <1>1, <1>5, EndClearIInv
<1> QED
  BY <1>2, <1>3, <1>4, <1>5 DEF ClearStep

\* Every step keeps the invariant.
LEMMA StepIInv == IInv /\ [Next]_vars => IInv'
<1> SUFFICES ASSUME IInv, [Next]_vars PROVE IInv'
  OBVIOUS
<1>1. CASE UNCHANGED vars
  <2>1. /\ UNCHANGED <<poolVars, chain, room>> /\ UNCHANGED <<destroyChain, objs, clearing, dtor>>
        /\ Live' = Live
    BY <1>1 DEF vars, Live
  <2>2. /\ PoolIInv' /\ NoBlockLeaked' /\ AllocationsDisjoint'
        /\ \A r \in Region : RoomLeft(r) => RoomLeft(r)'
    BY <2>1, MemoryUnchanged
  <2>3. RegionTypeOK' /\ ClearsNest' /\ DestroyedOnce'
    BY <2>1 DEF IInv, RegionTypeOK, ClearsNest, Clearing, DestroyedOnce, Managed
  <2>4. RoomIsFree'
    BY <2>1, <2>2 DEF IInv, RoomIsFree, Releasing, Clearing
  <2> QED
    BY <2>2, <2>3, <2>4 DEF IInv
<1>2. ASSUME NEW r \in Region, NEW cb \in ObjSize, Allocate(r, cb) PROVE IInv'
  BY <1>2, CarveIInv, RegionAllocAssumption DEF Allocate
<1>3. ASSUME NEW r \in Region, NEW cb \in ObjSize, NEW sub \in BOOLEAN, UnmanagedAlloc(r, cb, sub)
      PROVE  IInv'
  <2>1. NodeSize + cb \in Nat \ {0}
    BY RegionAllocAssumption DEF NodeSize
  <2> QED
    BY <1>3, <2>1, CarveIInv DEF UnmanagedAlloc
<1>4. ASSUME NEW id \in Live, Manage(id) PROVE IInv'
  BY <1>4, ManageIInv
<1>5. ASSUME NEW r \in Region, BeginClear(r) PROVE IInv'
  BY <1>5, BeginClearIInv
<1>6. CASE ClearStep
  BY <1>6, ClearStepIInv
<1>7. CASE ClearPool
  BY <1>7, ClearPoolIInv
<1> QED
  BY <1>1, <1>2, <1>3, <1>4, <1>5, <1>6, <1>7 DEF Next

-----------------------------------------------------------------------------
(***************************************************************************)
(* Every state of regions over a pool satisfies the inductive invariant.   *)
(***************************************************************************)
THEOREM Invariance == Spec => []IInv
<1> QED
  BY InitIInv, StepIInv, PTL DEF Spec

(***************************************************************************)
(* A block on the pool's free list is large enough for any request served  *)
(* from it and the list stays within its limit.                            *)
(***************************************************************************)
THEOREM PoolSizesCorrect == Spec => []PooledSizesFit
<1>1. IInv => PooledSizesFit
  BY DEF IInv, PoolIInv
<1> QED
  BY <1>1, Invariance, PTL

(***************************************************************************)
(* No two allocations of region_alloc overlap and none lies outside the    *)
(* blocks its region holds.                                                *)
(***************************************************************************)
THEOREM AllocationsCorrect == Spec => []AllocationsDisjoint
<1>1. IInv => AllocationsDisjoint
  BY DEF IInv
<1> QED
  BY <1>1, Invariance, PTL

(***************************************************************************)
(* No block is lost, or returned twice, over nested clears and a pool that *)
(* is cleared between them.                                                *)
(***************************************************************************)
THEOREM BlocksCorrect == Spec => []NoBlockLeaked
<1>1. IInv => NoBlockLeaked
  BY DEF IInv
<1> QED
  BY <1>1, Invariance, PTL

(***************************************************************************)
(* The destroy chains hold the managed objects, each once.                 *)
(***************************************************************************)
THEOREM DestructionCorrect == Spec => []DestroyedOnce
<1>1. IInv => DestroyedOnce
  BY DEF IInv
<1> QED
  BY <1>1, Invariance, PTL

(***************************************************************************)
(* Only clear gives blocks of a region back, one at a time, when nothing   *)
(* in them awaits its destructor or is inside it.                          *)
(***************************************************************************)
LEMMA StepReleasesDestroyed ==
  IInv /\ [Next]_vars =>
    \A id \in Live : objs[id].blk \in out \ out' =>
      objs[id].state # "managed" /\ \A r \in Region : dtor[r] # id
<1> SUFFICES ASSUME IInv, [Next]_vars, NEW id \in Live, objs[id].blk \in out \ out'
             PROVE  objs[id].state # "managed" /\ \A r \in Region : dtor[r] # id
  OBVIOUS
<1> USE DEF IInv
<1> DEFINE top == Head(clearing)
<1>1. clearing # << >> /\ dtor[top] = None /\ ReleaseBlock(top) /\ top \in Region
  <2>1. out' # out
    OBVIOUS
  <2>2. CASE UNCHANGED vars
    BY <2>1, <2>2 DEF vars, poolVars
  <2>3. ASSUME NEW r, NEW cb, NEW state, NEW sub, Carve(r, cb, state, sub) PROVE FALSE
    BY <2>3 DEF Carve, CarveFromRoom, CarveDedicated, CarveFromNew, PoolAllocate, poolVars
  <2>4. ASSUME NEW m, Manage(m) PROVE FALSE
    BY <2>1, <2>4 DEF Manage, poolVars
  <2>5. ASSUME NEW r, BeginClear(r) PROVE FALSE
    BY <2>1, <2>5 DEF BeginClear, poolVars
  <2>6. CASE ClearPool
    BY <2>1, <2>6 DEF ClearPool, PoolClear
  <2>7. CASE ClearStep
    <3>1. top \in Region /\ clearing # << >>
      BY <2>7 DEF ClearStep, ClearsNest, Region
    <3> QED
      BY <2>1, <2>7, <3>1 DEF ClearStep, DestructorReturns, DestroyOne, EndClear, poolVars
  <2> QED
    BY <2>2, <2>3, <2>4, <2>5, <2>6, <2>7 DEF Next, Allocate, UnmanagedAlloc
<1>2. objs[id].blk \in Blocks(top) /\ destroyChain[top] = << >>
  BY <1>1, ReleaseBlockFacts DEF ReleaseBlock
<1>3. objs[id].region = top
  BY <1>1, <1>2, BlocksOwned
<1>4. objs[id].state # "managed"
  BY <1>1, <1>2, <1>3 DEF DestroyedOnce, Managed
<1>5. id # None
  BY DEF RegionTypeOK, ObjId, None
<1>6. ASSUME NEW r \in Region, dtor[r] = id PROVE FALSE
  BY <1>1, <1>3, <1>5, <1>6 DEF ClearsNest
<1> QED
  BY <1>4, <1>6

\* clear frees no block with a managed object in it: the action property of
\* every behaviour.
THEOREM ReleaseCorrect == Spec => DestroyedBeforeReleased
<1> QED
  BY StepReleasesDestroyed, Invariance, PTL DEF Spec, DestroyedBeforeReleased
=============================================================================
