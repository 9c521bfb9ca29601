------------------------------- MODULE DclList -------------------------------
(***************************************************************************)
(* dcl_list under clients that keep its contract: a node is linked into    *)
(* one list at a time, erase is called on a node that is linked or whose   *)
(* list was cleared, pop on a list that is not empty, swap on two lists of *)
(* which neither is empty (swap leaves an empty operand with pointers into *)
(* the other list; the pools forbid it, "NO SWAP: dcl_list").              *)
(***************************************************************************)
EXTENDS DclListOps, FiniteSets, SequencesExt

CONSTANTS List, Node

ASSUME DclListAssumption == List \cap Node = {} /\ IsFiniteSet(Node)

VARIABLES
  heap,     \* m_next and m_prev of every node and head
  dropped   \* nodes whose list was cleared under them

vars == <<heap, dropped>>

Bound == Cardinality(Node) + 1
ListOf(l) == Forward(heap, l, Bound)
LinkedNodes == UNION {Elems(ListOf(l)) : l \in List}
FreshNode(n) == n \notin LinkedNodes \cup dropped

Init ==
  /\ heap = Unlinked(List \cup Node)
  /\ dropped = {}

PushFront(l, n) ==
  /\ FreshNode(n)
  /\ heap' = InsertFront(heap, l, n)
  /\ UNCHANGED dropped

PushBack(l, n) ==
  /\ FreshNode(n)
  /\ heap' = InsertBack(heap, l, n)
  /\ UNCHANGED dropped

PopFront(l) ==
  /\ ~IsEmpty(heap, l)
  /\ heap' = Erase(heap, FirstOf(heap, l))
  /\ UNCHANGED dropped

PopBack(l) ==
  /\ ~IsEmpty(heap, l)
  /\ heap' = Erase(heap, LastOf(heap, l))
  /\ UNCHANGED dropped

EraseNode(n) ==
  /\ ~FreshNode(n)
  /\ heap' = Erase(heap, n)
  /\ dropped' = dropped \ {n}

Clear(l) ==
  /\ heap' = Erase(heap, l)
  /\ dropped' = dropped \cup Elems(ListOf(l))

Swap(l, k) ==
  /\ ~IsEmpty(heap, l) /\ ~IsEmpty(heap, k)
  /\ heap' = SwapHeads(heap, l, k)
  /\ UNCHANGED dropped

Next ==
  \/ \E l \in List, n \in Node : PushFront(l, n) \/ PushBack(l, n)
  \/ \E l \in List : PopFront(l) \/ PopBack(l) \/ Clear(l)
  \/ \E n \in Node : EraseNode(n)
  \/ \E l, k \in List : l # k /\ Swap(l, k)

Spec == Init /\ [][Next]_vars

-----------------------------------------------------------------------------
(***************************************************************************)
(* Read in either direction, every list is the sequence its operations     *)
(* built; the nodes of a cleared list can still be erased one by one, in   *)
(* any order, without a trace in the lists that are in use.                *)
(***************************************************************************)
Lists == INSTANCE ListSpec WITH lists <- [l \in List |-> ListOf(l)]
ImplementsLists == Lists!Spec


(***************************************************************************)
(* The walk over prev is the mirror image of the walk over next, also on   *)
(* the ring of nodes a clear left without a head: a list that reads well   *)
(* forward can have a stale prev that the next erase would follow.         *)
(***************************************************************************)
BackwardMirrors ==
  /\ \A l \in List : Backward(heap, l, Bound) = Reverse(ListOf(l))
  /\ \A n \in List \cup Node : Valid(heap, n)
=============================================================================
