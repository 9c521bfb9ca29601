----------------------------- MODULE DclListOps -----------------------------
(***************************************************************************)
(* The pointer operations of dcl_list_node_base and dcl_list: circular     *)
(* doubly linked lists threaded through their nodes.  A heap maps every    *)
(* node, and every list head (a node too), to the two nodes it points at.  *)
(* An operation is the sequence of the pointer stores of its C++ body, so  *)
(* it also says what happens when it is used on a node that is not in the  *)
(* state its author had in mind.                                           *)
(***************************************************************************)
EXTENDS Naturals, Sequences

\* dcl_list_node_base(): a node, or the head of an empty list, is its own ring.
Unlinked(N) == [next |-> [n \in N |-> n], prev |-> [n \in N |-> n]]

SetNext(h, n, m) == [h EXCEPT !.next[n] = m]
SetPrev(h, n, m) == [h EXCEPT !.prev[n] = m]

\* insert_me_front_, which push_front and the InsertFront constructor call
InsertFront(h, head, n) ==
  LET h1 == SetNext(SetPrev(h, n, head), n, h.next[head])
      h2 == SetPrev(h1, h1.next[head], n)
  IN  SetNext(h2, head, n)

\* insert_me_back_, which push_back and the InsertBack constructor call
InsertBack(h, head, n) ==
  LET h1 == SetPrev(SetNext(h, n, head), n, h.prev[head])
      h2 == SetNext(h1, h1.prev[head], n)
  IN  SetPrev(h2, head, n)

\* what erase() asserts
Valid(h, n) == h.next[h.prev[n]] = n /\ h.prev[h.next[n]] = n

\* Mutant: the next node keeps its prev.
EraseForwardOnly(h, n) ==
  LET h1 == SetNext(h, h.prev[n], h.next[n])
  IN  SetNext(SetPrev(h1, n, n), n, n)

\* erase(), which clear() applies to the head
Erase(h, n) ==
  LET h1 == SetPrev(h, h.next[n], h.prev[n])
      h2 == SetNext(h1, h1.prev[n], h1.next[n])
  IN  SetNext(SetPrev(h2, n, n), n, n)

\* Mutant: the heads trade links, their neighbours are not told.
SwapHeadsOnly(h, x, y) ==
  [next |-> [h.next EXCEPT ![x] = h.next[y], ![y] = h.next[x]],
   prev |-> [h.prev EXCEPT ![x] = h.prev[y], ![y] = h.prev[x]]]

\* swap() of two heads
SwapHeads(h, x, y) ==
  LET h1 == SetNext(h, h.prev[x], y)
      h2 == SetPrev(h1, h1.next[x], y)
      h3 == SetNext(h2, h2.prev[y], x)
      h4 == SetPrev(h3, h3.next[y], x)
  IN  [next |-> [h4.next EXCEPT ![x] = h4.next[y], ![y] = h4.next[x]],
       prev |-> [h4.prev EXCEPT ![x] = h4.prev[y], ![y] = h4.prev[x]]]

FirstOf(h, head) == h.next[head]
LastOf(h, head)  == h.prev[head]
Done(head, n)  == n = head
IsEmpty(h, head) == h.next[head] = head

(***************************************************************************)
(* The nodes the loop "for (n = first(); !done(n); n = n->next())" visits, *)
(* and those its mirror image over prev visits.  The walk gives up after   *)
(* limit nodes: the loop of the code would not, on a ring the head is not  *)
(* part of.                                                                *)
(***************************************************************************)
Walk(link, head, limit) ==
  LET from[k \in 0..limit] ==
        [n \in DOMAIN link |-> IF Done(head, n) \/ k = 0
                               THEN << >>
                               ELSE <<n>> \o from[k - 1][link[n]]]
  IN  from[limit][link[head]]

Forward(h, head, limit)  == Walk(h.next, head, limit)
Backward(h, head, limit) == Walk(h.prev, head, limit)

Elems(s) == {s[i] : i \in DOMAIN s}
=============================================================================
