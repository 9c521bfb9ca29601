------------------------------ MODULE ListSpec ------------------------------
(***************************************************************************)
(* What dcl_list promises: a few sequences of nodes, no node twice.  A     *)
(* node is put at either end of a list it is not in, taken off an end, or  *)
(* taken out of wherever it is, which needs no list; clear empties a list  *)
(* and leaves its nodes to whoever owns their memory.                      *)
(***************************************************************************)
EXTENDS Sequences, Naturals

CONSTANTS
  List,   \* the lists
  Node    \* the nodes

VARIABLES
  lists,    \* the nodes of every list, front first
  dropped   \* nodes that were in a list when it was cleared

Range(s) == {s[i] : i \in DOMAIN s}
Linked(n) == \E l \in List : n \in Range(lists[l])
Fresh(n) == ~Linked(n) /\ n \notin dropped

vars == <<lists, dropped>>

Init ==
  /\ lists = [l \in List |-> << >>]
  /\ dropped = {}

PushFront(l, n) ==
  /\ Fresh(n)
  /\ lists' = [lists EXCEPT ![l] = <<n>> \o @]
  /\ UNCHANGED dropped

PushBack(l, n) ==
  /\ Fresh(n)
  /\ lists' = [lists EXCEPT ![l] = Append(@, n)]
  /\ UNCHANGED dropped

PopFront(l) ==
  /\ lists[l] # << >>
  /\ lists' = [lists EXCEPT ![l] = Tail(@)]
  /\ UNCHANGED dropped

PopBack(l) ==
  /\ lists[l] # << >>
  /\ lists' = [lists EXCEPT ![l] = SubSeq(@, 1, Len(@) - 1)]
  /\ UNCHANGED dropped

\* s without its i-th element
Without(s, i) == [j \in 1..(Len(s) - 1) |-> s[IF j < i THEN j ELSE j + 1]]

EraseNode(n) ==
  /\ \/ /\ n \in dropped
        /\ UNCHANGED lists
     \/ \E l \in List : \E i \in DOMAIN lists[l] :
          /\ lists[l][i] = n
          /\ lists' = [lists EXCEPT ![l] = Without(@, i)]
  /\ dropped' = dropped \ {n}

Clear(l) ==
  /\ lists' = [lists EXCEPT ![l] = << >>]
  /\ dropped' = dropped \cup Range(lists[l])

Swap(l, k) ==
  /\ lists[l] # << >> /\ lists[k] # << >>
  /\ lists' = [lists EXCEPT ![l] = lists[k], ![k] = lists[l]]
  /\ UNCHANGED dropped

Next ==
  \/ \E l \in List, n \in Node : PushFront(l, n) \/ PushBack(l, n)
  \/ \E l \in List : PopFront(l) \/ PopBack(l) \/ Clear(l)
  \/ \E n \in Node : EraseNode(n)
  \/ \E l, k \in List : l # k /\ Swap(l, k)

Spec == Init /\ [][Next]_vars
=============================================================================
