--------------------------- MODULE DclListProofs ---------------------------
(***************************************************************************)
(* Proofs about dcl_list, for any lists and any finite set of nodes that   *)
(* are no lists.  DInv lays the rings of the heap along the lists read     *)
(* from it: the links of each are those of its sequence of nodes, no node  *)
(* has two places, what clear left forms rings of its own, and every other *)
(* node points to itself.  Each operation is described first by what it    *)
(* stores in the links (Erases, InsertsFront, ...), then by the sequences  *)
(* the rings lie along afterwards (PushFrontLinks, EraseLinks, ...); that  *)
(* a walk reads a ring as its sequence is by induction over the nodes left *)
(* to visit (WalkReads).                                                   *)
(***************************************************************************)
EXTENDS DclList, Integers, FiniteSetTheorems, WellFoundedInduction, TLAPS

\* Induction over the natural numbers, said of a set.
LEMMA SetInduction ==
  ASSUME NEW S, 0 \in S, \A n \in Nat : n \in S => n + 1 \in S
  PROVE  Nat \subseteq S
<1> SUFFICES ASSUME Nat \ S # {} PROVE FALSE
  OBVIOUS
<1>1. \E x \in Nat \ S : \A y \in Nat \ S : ~(<<y, x>> \in OpToRel(<, Nat))
  BY NatLessThanWellFounded, WFMin
<1>2. \A x, y \in Nat : y < x => <<y, x>> \in OpToRel(<, Nat)
  BY DEF OpToRel
<1>3. \E x \in Nat \ S : \A y \in Nat \ S : ~(y < x)
  BY <1>1, <1>2, Zenon
<1>4. PICK x \in Nat \ S : \A y \in Nat \ S : ~(y < x)
  BY ONLY <1>3
<1>5. x # 0 => x - 1 \in Nat /\ x - 1 < x /\ (x - 1) + 1 = x
  BY ONLY <1>4
<1> QED
  BY ONLY <1>4, <1>5, 0 \in S, \A n \in Nat : n \in S => n + 1 \in S

-----------------------------------------------------------------------------
\* The equation of the recursive function in Walk.
Visits(from, link, head, limit) ==
  from = [k \in 0..limit |->
           [n \in DOMAIN link |-> IF Done(head, n) \/ k = 0
                                  THEN << >>
                                  ELSE <<n>> \o from[k - 1][link[n]]]]

\* It has a solution.
LEMMA VisitsExists ==
  ASSUME NEW link, NEW head, NEW limit \in Nat
  PROVE  \E from : Visits(from, link, head, limit)
<1> DEFINE S == {k \in Nat : \E from : Visits(from, link, head, k)}
<1>1. 0 \in S
  <2>1. Visits([k \in 0..0 |-> [n \in DOMAIN link |-> << >>]], link, head, 0)
    BY DEF Visits
  <2> QED
    BY <2>1
<1>2. ASSUME NEW m \in Nat, m \in S PROVE m + 1 \in S
  <2>1. PICK from : Visits(from, link, head, m)
    BY <1>2
  <2> DEFINE longer == [k \in 0..(m + 1) |->
               [n \in DOMAIN link |-> IF Done(head, n) \/ k = 0
                                      THEN << >>
                                      ELSE <<n>> \o from[k - 1][link[n]]]]
  <2>2. ASSUME NEW k \in 0..m PROVE longer[k] = from[k]
    <3>1. k \in 0..(m + 1)
      OBVIOUS
    <3>2. longer[k] = [n \in DOMAIN link |-> IF Done(head, n) \/ k = 0
                                            THEN << >>
                                            ELSE <<n>> \o from[k - 1][link[n]]]
      BY <3>1
    <3>3. from[k] = [n \in DOMAIN link |-> IF Done(head, n) \/ k = 0
                                          THEN << >>
                                          ELSE <<n>> \o from[k - 1][link[n]]]
      BY <2>1, Zenon DEF Visits
    <3> QED
      BY <3>2, <3>3
  <2>3. ASSUME NEW k \in 0..(m + 1), k # 0 PROVE longer[k - 1] = from[k - 1]
    <3>1. k - 1 \in 0..m
      BY <2>3
    <3> HIDE DEF longer
    <3> QED
      BY <3>1, <2>2
  <2>4. longer = [k \in 0..(m + 1) |->
               [n \in DOMAIN link |-> IF Done(head, n) \/ k = 0
                                      THEN << >>
                                      ELSE <<n>> \o longer[k - 1][link[n]]]]
    <3> DEFINE again == [k \in 0..(m + 1) |->
               [n \in DOMAIN link |-> IF Done(head, n) \/ k = 0
                                      THEN << >>
                                      ELSE <<n>> \o longer[k - 1][link[n]]]]
    <3>1. ASSUME NEW k \in 0..(m + 1) PROVE longer[k] = again[k]
      <4>1. CASE k = 0
        BY <4>1
      <4>2. CASE k # 0
        <5>1. longer[k - 1] = from[k - 1]
          BY <2>3, <4>2
        <5> QED
          BY <5>1
      <4> QED
        BY <4>1, <4>2
    <3> QED
      BY <3>1
  <2>5. Visits(longer, link, head, m + 1)
    BY <2>4, Zenon DEF Visits
  <2> QED
    BY <2>5
<1>3. Nat \subseteq S
  <2> HIDE DEF S
  <2> QED
    BY <1>1, <1>2, SetInduction
<1> QED
  BY <1>3

\* Walk is what a solution of the equation says.
LEMMA WalkSolves ==
  ASSUME NEW link, NEW head, NEW limit \in Nat
  PROVE  \E from : /\ Visits(from, link, head, limit)
                   /\ Walk(link, head, limit) = from[limit][link[head]]
<1>1. PICK some : Visits(some, link, head, limit)
  BY VisitsExists
<1>2. some = [k \in 0..limit |->
           [n \in DOMAIN link |-> IF Done(head, n) \/ k = 0
                                  THEN << >>
                                  ELSE <<n>> \o some[k - 1][link[n]]]]
  BY <1>1, Zenon DEF Visits
<1> QED
  BY <1>2, Zenon DEF Visits, Walk

-----------------------------------------------------------------------------
\* What stands at place i of a ring: the nodes of s, before and after them the head.
At(head, s, i) == IF i \in 1..Len(s) THEN s[i] ELSE head

\* The links lead round the ring from each place to the next one.
Ring(link, head, s) ==
  \A i \in 0..Len(s) : link[At(head, s, i)] = At(head, s, i + 1)

\* A walk round a ring visits its nodes in their order.
LEMMA WalkReads ==
  ASSUME NEW link, NEW head \in DOMAIN link, NEW s \in Seq(DOMAIN link),
         NEW limit \in Nat, Len(s) <= limit,
         \A i \in 1..Len(s) : s[i] # head,
         Ring(link, head, s)
  PROVE  Walk(link, head, limit) = s
<1> DEFINE last == Len(s)
<1>1. last \in Nat
  OBVIOUS
<1>2. PICK from : /\ Visits(from, link, head, limit)
                  /\ Walk(link, head, limit) = from[limit][link[head]]
  BY WalkSolves
<1>3. ASSUME NEW k \in 0..limit, NEW n \in DOMAIN link
      PROVE  from[k][n] = IF Done(head, n) \/ k = 0
                          THEN << >>
                          ELSE <<n>> \o from[k - 1][link[n]]
  <2>1. from[k] = [m \in DOMAIN link |-> IF Done(head, m) \/ k = 0
                                         THEN << >>
                                         ELSE <<m>> \o from[k - 1][link[m]]]
    BY <1>2, Zenon DEF Visits
  <2> QED
    BY <2>1
<1> DEFINE Reads(k) == \A i \in 1..(last + 1) :
             last + 1 - i <= k => from[k][At(head, s, i)] = SubSeq(s, i, last)
           S == {k \in Nat : k <= limit => Reads(k)}
<1>4. ASSUME NEW k \in 0..limit
      PROVE  from[k][At(head, s, last + 1)] = SubSeq(s, last + 1, last)
  <2>1. At(head, s, last + 1) = head /\ SubSeq(s, last + 1, last) = << >>
    BY <1>1 DEF At
  <2> QED
    BY <1>3, <2>1 DEF Done
<1>5. 0 \in S
  <2> SUFFICES ASSUME NEW i \in 1..(last + 1), last + 1 - i <= 0
               PROVE  from[0][At(head, s, i)] = SubSeq(s, i, last)
    BY DEF S
  <2>1. i = last + 1
    BY <1>1
  <2> QED
    BY <1>4, <2>1
<1>6. ASSUME NEW k \in Nat, k \in S PROVE k + 1 \in S
  <2> SUFFICES ASSUME k + 1 <= limit, NEW i \in 1..(last + 1), last + 1 - i <= k + 1
               PROVE  from[k + 1][At(head, s, i)] = SubSeq(s, i, last)
    BY DEF S
  <2>1. CASE i = last + 1
    BY <1>4, <2>1
  <2>2. CASE i # last + 1
    <3>1. i \in 1..last /\ i + 1 \in 1..(last + 1) /\ last + 1 - (i + 1) <= k /\ i \in 0..last
      BY <1>1, <2>2
    <3>2. At(head, s, i) = s[i] /\ s[i] # head /\ s[i] \in DOMAIN link
      BY <3>1 DEF At
    <3>3. link[s[i]] = At(head, s, i + 1)
      BY <3>1, <3>2 DEF Ring
    <3>4. from[k][At(head, s, i + 1)] = SubSeq(s, i + 1, last)
      BY <1>6, <3>1 DEF S
    <3>5. from[k + 1][s[i]] = <<s[i]>> \o from[k][link[s[i]]]
      <4>1. k + 1 \in 0..limit /\ k + 1 # 0 /\ (k + 1) - 1 = k
        OBVIOUS
      <4> HIDE DEF S
      <4> QED
        BY <1>3, <3>2, <4>1 DEF Done
    <3>6. <<s[i]>> \o SubSeq(s, i + 1, last) = SubSeq(s, i, last)
      BY <1>1, <3>1
    <3> QED
      BY <3>2, <3>3, <3>4, <3>5, <3>6
  <2> QED
    BY <2>1, <2>2
<1>7. limit \in S
  <2> HIDE DEF S
  <2> QED
    BY <1>5, <1>6, SetInduction
<1>8. link[head] = At(head, s, 1)
  <2>1. At(head, s, 0) = head /\ 0 \in 0..last
    BY <1>1 DEF At
  <2> QED
    BY <2>1 DEF Ring
<1>9. SubSeq(s, 1, last) = s
  BY <1>1
<1>10. from[limit][At(head, s, 1)] = SubSeq(s, 1, last)
  <2>1. 1 \in 1..(last + 1) /\ last + 1 - 1 <= limit
    BY <1>1
  <2>2. Reads(limit)
    BY <1>7 DEF S
  <2> HIDE DEF last
  <2> QED
    BY <2>1, <2>2
<1> QED
  BY <1>2, <1>8, <1>9, <1>10

-----------------------------------------------------------------------------
Places == List \cup Node
Heaps == [next : [Places -> Places], prev : [Places -> Places]]

\* What a store does to every link.
LEMMA StorePoints ==
  ASSUME NEW h \in Heaps, NEW n \in Places, NEW m \in Places
  PROVE  /\ SetNext(h, n, m) \in Heaps /\ SetPrev(h, n, m) \in Heaps
         /\ \A x \in Places :
              /\ SetNext(h, n, m).next[x] = IF x = n THEN m ELSE h.next[x]
              /\ SetNext(h, n, m).prev[x] = h.prev[x]
              /\ SetPrev(h, n, m).prev[x] = IF x = n THEN m ELSE h.prev[x]
              /\ SetPrev(h, n, m).next[x] = h.next[x]
<1>1. SetNext(h, n, m) = [next |-> [h.next EXCEPT ![n] = m], prev |-> h.prev]
  BY DEF SetNext, Heaps
<1>2. SetPrev(h, n, m) = [next |-> h.next, prev |-> [h.prev EXCEPT ![n] = m]]
  BY DEF SetPrev, Heaps
<1>3. h.next \in [Places -> Places] /\ h.prev \in [Places -> Places]
  BY DEF Heaps
<1> HIDE DEF Places
<1> QED
  BY <1>1, <1>2, <1>3 DEF Heaps

AllValid(h) == h \in Heaps /\ \A n \in Places : Valid(h, n)

\* In a valid heap, erase links the neighbours of a node to each other.
Erases(h, g, n) ==
  /\ AllValid(g)
  /\ h.next[n] \in Places /\ h.prev[n] \in Places
  /\ \A x \in Places :
       /\ g.next[x] = IF x = n THEN n
                      ELSE IF x = h.prev[n] THEN h.next[n] ELSE h.next[x]
       /\ g.prev[x] = IF x = n THEN n
                      ELSE IF x = h.next[n] THEN h.prev[n] ELSE h.prev[x]

\* The stores of erase do this.
LEMMA ErasePoints ==
  ASSUME NEW h, AllValid(h), NEW n \in Places
  PROVE  Erases(h, Erase(h, n), n)
<1> DEFINE k == h.next[n]
           m == h.prev[n]
<1>1. h \in Heaps /\ k \in Places /\ m \in Places
  BY DEF AllValid, Heaps
<1>v. \A x \in Places : /\ h.next[x] \in Places /\ h.prev[x] \in Places
                        /\ h.next[h.prev[x]] = x /\ h.prev[h.next[x]] = x
  BY DEF AllValid, Heaps, Valid
<1> HIDE DEF k, m
<1> DEFINE h1 == SetPrev(h, k, m)
<1>2. /\ h1 \in Heaps
      /\ \A x \in Places : /\ h1.prev[x] = IF x = k THEN m ELSE h.prev[x]
                           /\ h1.next[x] = h.next[x]
  BY <1>1, StorePoints
<1>3. h1.prev[n] = m /\ h1.next[n] = k
  BY <1>2 DEF k, m
<1> DEFINE h2 == SetNext(h1, m, k)
           h3 == SetPrev(h2, n, n)
           h4 == SetNext(h3, n, n)
<1> HIDE DEF h1
<1>4. /\ h2 \in Heaps
      /\ \A x \in Places : /\ h2.next[x] = IF x = m THEN k ELSE h1.next[x]
                           /\ h2.prev[x] = h1.prev[x]
  BY <1>1, <1>2, StorePoints
<1> HIDE DEF h2
<1>5. /\ h3 \in Heaps
      /\ \A x \in Places : /\ h3.prev[x] = IF x = n THEN n ELSE h2.prev[x]
                           /\ h3.next[x] = h2.next[x]
  BY <1>4, StorePoints
<1> HIDE DEF h3
<1>6. /\ h4 \in Heaps
      /\ \A x \in Places : /\ h4.next[x] = IF x = n THEN n ELSE h3.next[x]
                           /\ h4.prev[x] = h3.prev[x]
  BY <1>5, StorePoints
<1>7. Erase(h, n) = h4
  BY <1>3 DEF Erase, h1, h2, h3, h4, k, m
<1> HIDE DEF h4
<1>8. \A x \in Places :
        /\ h4.next[x] = IF x = n THEN n ELSE IF x = m THEN k ELSE h.next[x]
        /\ h4.prev[x] = IF x = n THEN n ELSE IF x = k THEN m ELSE h.prev[x]
  BY <1>2, <1>4, <1>5, <1>6
<1>9. ASSUME NEW x \in Places PROVE Valid(h4, x)
  <2>1. h.next[m] = n /\ h.prev[k] = n /\ h.next[n] = k /\ h.prev[n] = m
    BY <1>v DEF k, m
  <2>2. h4.next[h4.prev[x]] = x
    BY <1>1, <1>v, <1>8, <2>1
  <2>3. h4.prev[h4.next[x]] = x
    BY <1>1, <1>v, <1>8, <2>1
  <2> QED
    BY <2>2, <2>3 DEF Valid
<1> QED
  BY <1>1, <1>6, <1>7, <1>8, <1>9 DEF AllValid, Erases, k, m

\* push_front puts a node that is its own ring between the head and its next.
InsertsFront(h, g, l, n) ==
    /\ AllValid(g)
    /\ h.next[l] \in Places
    /\ \A x \in Places :
         /\ g.next[x] = IF x = l THEN n
                          ELSE IF x = n THEN h.next[l] ELSE h.next[x]
         /\ g.prev[x] = IF x = n THEN l
                          ELSE IF x = h.next[l] THEN n ELSE h.prev[x]

\* The stores of push_front do this to a node that is its own ring.
LEMMA InsertFrontPoints ==
  ASSUME NEW h, AllValid(h), NEW l \in Places, NEW n \in Places, l # n, h.next[n] = n
  PROVE  InsertsFront(h, InsertFront(h, l, n), l, n)
<1> DEFINE k == h.next[l]
<1>1. h \in Heaps /\ k \in Places
  BY DEF AllValid, Heaps
<1>v. \A x \in Places : /\ h.next[x] \in Places /\ h.prev[x] \in Places
                        /\ h.next[h.prev[x]] = x /\ h.prev[h.next[x]] = x
  BY DEF AllValid, Heaps, Valid
<1>k. h.prev[k] = l /\ k # n
  BY <1>v
<1> DEFINE h0 == SetPrev(h, n, l)
           h1 == SetNext(h0, n, k)
           h2 == SetPrev(h1, k, n)
           h3 == SetNext(h2, l, n)
<1>2. /\ h0 \in Heaps
      /\ \A x \in Places : /\ h0.prev[x] = IF x = n THEN l ELSE h.prev[x]
                           /\ h0.next[x] = h.next[x]
  BY <1>1, StorePoints
<1> HIDE DEF h0, k
<1>3. /\ h1 \in Heaps
      /\ \A x \in Places : /\ h1.next[x] = IF x = n THEN k ELSE h0.next[x]
                           /\ h1.prev[x] = h0.prev[x]
  BY <1>1, <1>2, StorePoints
<1> HIDE DEF h1
<1>4. h1.next[l] = k
  BY <1>2, <1>3 DEF k
<1>5. /\ h2 \in Heaps
      /\ \A x \in Places : /\ h2.prev[x] = IF x = k THEN n ELSE h1.prev[x]
                           /\ h2.next[x] = h1.next[x]
  BY <1>1, <1>3, StorePoints
<1> HIDE DEF h2
<1>6. /\ h3 \in Heaps
      /\ \A x \in Places : /\ h3.next[x] = IF x = l THEN n ELSE h2.next[x]
                           /\ h3.prev[x] = h2.prev[x]
  BY <1>5, StorePoints
<1>7. InsertFront(h, l, n) = h3
  BY <1>4 DEF InsertFront, h0, h1, h2, h3, k
<1> HIDE DEF h3
<1>8. \A x \in Places :
        /\ h3.next[x] = IF x = l THEN n ELSE IF x = n THEN k ELSE h.next[x]
        /\ h3.prev[x] = IF x = n THEN l ELSE IF x = k THEN n ELSE h.prev[x]
  BY <1>2, <1>3, <1>5, <1>6, <1>k
<1>9. ASSUME NEW x \in Places PROVE Valid(h3, x)
  <2>1. h.next[l] = k /\ h.prev[n] = n
    BY <1>v DEF k
  <2>2. h3.next[h3.prev[x]] = x
    BY <1>1, <1>v, <1>k, <1>8, <2>1
  <2>3. h3.prev[h3.next[x]] = x
    BY <1>1, <1>v, <1>k, <1>8, <2>1
  <2> QED
    BY <2>2, <2>3 DEF Valid
<1> QED
  BY <1>1, <1>6, <1>7, <1>8, <1>9 DEF AllValid, InsertsFront, k

\* push_back puts it between the head and its prev.
InsertsBack(h, g, l, n) ==
    /\ AllValid(g)
    /\ h.prev[l] \in Places
    /\ \A x \in Places :
         /\ g.next[x] = IF x = n THEN l
                          ELSE IF x = h.prev[l] THEN n ELSE h.next[x]
         /\ g.prev[x] = IF x = l THEN n
                          ELSE IF x = n THEN h.prev[l] ELSE h.prev[x]

\* The stores of push_back do this to a node that is its own ring.
LEMMA InsertBackPoints ==
  ASSUME NEW h, AllValid(h), NEW l \in Places, NEW n \in Places, l # n, h.next[n] = n
  PROVE  InsertsBack(h, InsertBack(h, l, n), l, n)
<1> DEFINE k == h.prev[l]
<1>1. h \in Heaps /\ k \in Places
  BY DEF AllValid, Heaps
<1>v. \A x \in Places : /\ h.next[x] \in Places /\ h.prev[x] \in Places
                        /\ h.next[h.prev[x]] = x /\ h.prev[h.next[x]] = x
  BY DEF AllValid, Heaps, Valid
<1>k. h.next[k] = l /\ k # n /\ h.prev[n] = n
  BY <1>v
<1> DEFINE h0 == SetNext(h, n, l)
           h1 == SetPrev(h0, n, k)
           h2 == SetNext(h1, k, n)
           h3 == SetPrev(h2, l, n)
<1>2. /\ h0 \in Heaps
      /\ \A x \in Places : /\ h0.next[x] = IF x = n THEN l ELSE h.next[x]
                           /\ h0.prev[x] = h.prev[x]
  BY <1>1, StorePoints
<1> HIDE DEF h0, k
<1>3. /\ h1 \in Heaps
      /\ \A x \in Places : /\ h1.prev[x] = IF x = n THEN k ELSE h0.prev[x]
                           /\ h1.next[x] = h0.next[x]
  BY <1>1, <1>2, StorePoints
<1> HIDE DEF h1
<1>4. h1.prev[l] = k
  BY <1>2, <1>3 DEF k
<1>5. /\ h2 \in Heaps
      /\ \A x \in Places : /\ h2.next[x] = IF x = k THEN n ELSE h1.next[x]
                           /\ h2.prev[x] = h1.prev[x]
  BY <1>1, <1>3, StorePoints
<1> HIDE DEF h2
<1>6. /\ h3 \in Heaps
      /\ \A x \in Places : /\ h3.prev[x] = IF x = l THEN n ELSE h2.prev[x]
                           /\ h3.next[x] = h2.next[x]
  BY <1>5, StorePoints
<1>7. InsertBack(h, l, n) = h3
  BY <1>4 DEF InsertBack, h0, h1, h2, h3, k
<1> HIDE DEF h3
<1>8. \A x \in Places :
        /\ h3.next[x] = IF x = n THEN l ELSE IF x = k THEN n ELSE h.next[x]
        /\ h3.prev[x] = IF x = l THEN n ELSE IF x = n THEN k ELSE h.prev[x]
  BY <1>2, <1>3, <1>5, <1>6, <1>k
<1>9. ASSUME NEW x \in Places PROVE Valid(h3, x)
  <2>1. h.prev[l] = k
    BY DEF k
  <2>2. h3.next[h3.prev[x]] = x
    BY <1>1, <1>v, <1>k, <1>8, <2>1
  <2>3. h3.prev[h3.next[x]] = x
    BY <1>1, <1>v, <1>k, <1>8, <2>1
  <2> QED
    BY <2>2, <2>3 DEF Valid
<1> QED
  BY <1>1, <1>6, <1>7, <1>8, <1>9 DEF AllValid, InsertsBack, k

\* swap of two heads, neither of which is next to itself or to the other one.
Swaps(h, g, x, y) ==
  /\ AllValid(g)
  /\ \A z \in Places :
       /\ g.next[z] = IF z = x THEN h.next[y]
                      ELSE IF z = y THEN h.next[x]
                      ELSE IF z = h.prev[x] THEN y
                      ELSE IF z = h.prev[y] THEN x ELSE h.next[z]
       /\ g.prev[z] = IF z = x THEN h.prev[y]
                      ELSE IF z = y THEN h.prev[x]
                      ELSE IF z = h.next[x] THEN y
                      ELSE IF z = h.next[y] THEN x ELSE h.prev[z]

\* The stores of swap do this where neither head is its own neighbour
\* or the other's.
LEMMA SwapPoints ==
  ASSUME NEW h, AllValid(h), NEW x \in Places, NEW y \in Places, x # y,
         h.next[x] \notin {x, y}, h.prev[x] \notin {x, y},
         h.next[y] \notin {x, y}, h.prev[y] \notin {x, y}
  PROVE  Swaps(h, SwapHeads(h, x, y), x, y)
<1> DEFINE a == h.next[x]
           b == h.prev[x]
           c == h.next[y]
           d == h.prev[y]
<1>1. h \in Heaps /\ a \in Places /\ b \in Places /\ c \in Places /\ d \in Places
  BY DEF AllValid, Heaps
<1>v. \A z \in Places : /\ h.next[z] \in Places /\ h.prev[z] \in Places
                        /\ h.next[h.prev[z]] = z /\ h.prev[h.next[z]] = z
  BY DEF AllValid, Heaps, Valid
<1>k. /\ h.next[x] = a /\ h.prev[x] = b /\ h.next[y] = c /\ h.prev[y] = d
      /\ h.prev[a] = x /\ h.next[b] = x /\ h.prev[c] = y /\ h.next[d] = y
      /\ a \notin {x, y, c} /\ b \notin {x, y, d} /\ c \notin {x, y} /\ d \notin {x, y}
  BY <1>v
<1> HIDE DEF a, b, c, d
<1> DEFINE h1 == SetNext(h, b, y)
           h2 == SetPrev(h1, a, y)
           h3 == SetNext(h2, d, x)
           h4 == SetPrev(h3, c, x)
           g == [next |-> [h4.next EXCEPT ![x] = h4.next[y], ![y] = h4.next[x]],
                 prev |-> [h4.prev EXCEPT ![x] = h4.prev[y], ![y] = h4.prev[x]]]
<1>2. /\ h1 \in Heaps
      /\ \A z \in Places : /\ h1.next[z] = IF z = b THEN y ELSE h.next[z]
                           /\ h1.prev[z] = h.prev[z]
  BY <1>1, StorePoints
<1> HIDE DEF h1
<1>3. /\ h2 \in Heaps
      /\ \A z \in Places : /\ h2.prev[z] = IF z = a THEN y ELSE h1.prev[z]
                           /\ h2.next[z] = h1.next[z]
  BY <1>1, <1>2, StorePoints
<1> HIDE DEF h2
<1>4. /\ h3 \in Heaps
      /\ \A z \in Places : /\ h3.next[z] = IF z = d THEN x ELSE h2.next[z]
                           /\ h3.prev[z] = h2.prev[z]
  BY <1>1, <1>3, StorePoints
<1> HIDE DEF h3
<1>5. /\ h4 \in Heaps
      /\ \A z \in Places : /\ h4.prev[z] = IF z = c THEN x ELSE h3.prev[z]
                           /\ h4.next[z] = h3.next[z]
  BY <1>1, <1>4, StorePoints
<1>6. h1.next[x] = a /\ h2.prev[y] = d /\ h3.next[y] = c
  BY <1>2, <1>3, <1>4, <1>k
<1>7. SwapHeads(h, x, y) = g
  <2> DEFINE k1 == SetNext(h, h.prev[x], y)
             k2 == SetPrev(k1, k1.next[x], y)
             k3 == SetNext(k2, k2.prev[y], x)
             k4 == SetPrev(k3, k3.next[y], x)
  <2>1. k1 = h1
    BY <1>k DEF h1
  <2> HIDE DEF k1
  <2>2. k2 = h2
    BY <2>1, <1>6 DEF h2
  <2> HIDE DEF k2
  <2>3. k3 = h3
    BY <2>2, <1>6 DEF h3
  <2> HIDE DEF k3
  <2>4. k4 = h4
    BY <2>3, <1>6
  <2>5. SwapHeads(h, x, y) =
          [next |-> [k4.next EXCEPT ![x] = k4.next[y], ![y] = k4.next[x]],
           prev |-> [k4.prev EXCEPT ![x] = k4.prev[y], ![y] = k4.prev[x]]]
    BY DEF SwapHeads, k1, k2, k3
  <2> HIDE DEF k4, h4
  <2> QED
    BY <2>4, <2>5
<1> HIDE DEF h4
<1>8. /\ g \in Heaps
      /\ \A z \in Places :
           /\ g.next[z] = IF z = y THEN h4.next[x] ELSE IF z = x THEN h4.next[y] ELSE h4.next[z]
           /\ g.prev[z] = IF z = y THEN h4.prev[x] ELSE IF z = x THEN h4.prev[y] ELSE h4.prev[z]
  BY <1>5 DEF Heaps
<1> HIDE DEF g
<1>9. \A z \in Places :
        /\ h4.next[z] = IF z = d THEN x ELSE IF z = b THEN y ELSE h.next[z]
        /\ h4.prev[z] = IF z = c THEN x ELSE IF z = a THEN y ELSE h.prev[z]
  BY <1>2, <1>3, <1>4, <1>5
<1>10. \A z \in Places :
         /\ g.next[z] = IF z = x THEN c ELSE IF z = y THEN a
                        ELSE IF z = b THEN y ELSE IF z = d THEN x ELSE h.next[z]
         /\ g.prev[z] = IF z = x THEN d ELSE IF z = y THEN b
                        ELSE IF z = a THEN y ELSE IF z = c THEN x ELSE h.prev[z]
  BY <1>8, <1>9, <1>k
<1>11. ASSUME NEW z \in Places PROVE Valid(g, z)
  <2>1. g.next[g.prev[z]] = z
    BY <1>1, <1>v, <1>k, <1>10
  <2>2. g.prev[g.next[z]] = z
    BY <1>1, <1>v, <1>k, <1>10
  <2> QED
    BY <2>1, <2>2 DEF Valid
<1> QED
  BY <1>7, <1>8, <1>10, <1>11 DEF AllValid, Swaps, a, b, c, d

-----------------------------------------------------------------------------
(***************************************************************************)
(* What a heap is like whose lists are those of q, and whose nodes in d    *)
(* are what clear left behind.                                             *)
(***************************************************************************)
\* No node has two places.
Placed(q) ==
  /\ q \in [List -> Seq(Node)]
  /\ \A l, k \in List : \A i \in 1..Len(q[l]), j \in 1..Len(q[k]) :
       q[l][i] = q[k][j] => l = k /\ i = j

InList(q, n) == \E l \in List : \E i \in 1..Len(q[l]) : q[l][i] = n

Linked(h, q, d) ==
  /\ AllValid(h)
  /\ Placed(q)
  /\ \A l \in List : Ring(h.next, l, q[l])
  /\ d \subseteq Node
  /\ \A n \in d : ~InList(q, n) /\ h.next[n] \in d /\ h.prev[n] \in d
  /\ \A n \in Node \ d : ~InList(q, n) => h.next[n] = n

\* The places of the rings, heads included, are distinct.
LEMMA PlacesDistinct ==
  ASSUME NEW q, Placed(q), NEW l \in List, NEW k \in List,
         NEW i \in 0..Len(q[l]), NEW j \in 0..Len(q[k]),
         At(l, q[l], i) = At(k, q[k], j)
  PROVE  l = k /\ i = j
<1>1. \A m \in List : q[m] \in Seq(Node) /\ Len(q[m]) \in Nat
  BY DEF Placed
<1>2. CASE i = 0
  <2>1. At(l, q[l], i) \in List
    BY <1>2 DEF At
  <2>2. CASE j = 0
    BY <1>2, <2>2 DEF At
  <2>3. CASE j # 0
    <3>1. At(k, q[k], j) \in Node
      BY <1>1, <2>3 DEF At
    <3> QED
      BY <2>1, <3>1, DclListAssumption
  <2> QED
    BY <2>2, <2>3
<1>3. CASE i # 0
  <2>1. At(l, q[l], i) = q[l][i] /\ i \in 1..Len(q[l]) /\ q[l][i] \in Node
    BY <1>1, <1>3 DEF At
  <2>2. CASE j = 0
    <3>1. At(k, q[k], j) \in List
      BY <2>2 DEF At
    <3> QED
      BY <2>1, <3>1, DclListAssumption
  <2>3. CASE j # 0
    <3>1. At(k, q[k], j) = q[k][j] /\ j \in 1..Len(q[k])
      BY <1>1, <2>3 DEF At
    <3> QED
      BY <2>1, <3>1, ZenonT(30) DEF Placed
  <2> QED
    BY <2>2, <2>3
<1> QED
  BY <1>2, <1>3

\* A place is a node of its list or its head; the last link leads to the head.
LEMMA PlaceFacts ==
  ASSUME NEW q, Placed(q), NEW l \in List
  PROVE  /\ q[l] \in Seq(Node) /\ Len(q[l]) \in Nat
         /\ At(l, q[l], 0) = l /\ At(l, q[l], Len(q[l]) + 1) = l
         /\ \A i \in 1..Len(q[l]) : At(l, q[l], i) = q[l][i] /\ q[l][i] \in Node
         /\ \A i \in Int : At(l, q[l], i) \in Places
<1>1. q[l] \in Seq(Node) /\ Len(q[l]) \in Nat
  BY DEF Placed
<1> QED
  BY <1>1 DEF At, Places

\* From a place, next leads to the following and prev to the one before.
LEMMA PlaceLinks ==
  ASSUME NEW h, NEW q, NEW d, Linked(h, q, d), NEW l \in List
  PROVE  /\ \A i \in 0..Len(q[l]) : h.next[At(l, q[l], i)] = At(l, q[l], i + 1)
         /\ \A i \in 1..(Len(q[l]) + 1) : h.prev[At(l, q[l], i)] = At(l, q[l], i - 1)
         /\ h.next[l] = At(l, q[l], 1)
         /\ h.prev[l] = At(l, q[l], Len(q[l]))
<1> DEFINE P(i) == At(l, q[l], i)
<1>1. /\ Len(q[l]) \in Nat /\ P(0) = l /\ P(Len(q[l]) + 1) = l
      /\ \A i \in Int : P(i) \in Places
  BY PlaceFacts DEF Linked
<1>2. \A i \in 0..Len(q[l]) : h.next[P(i)] = P(i + 1)
  BY DEF Linked, Ring
<1>3. \A x \in Places : h.prev[h.next[x]] = x
  BY DEF Linked, AllValid, Valid
<1> HIDE DEF P
<1>4. ASSUME NEW i \in 1..(Len(q[l]) + 1) PROVE h.prev[P(i)] = P(i - 1)
  <2>1. i - 1 \in 0..Len(q[l]) /\ (i - 1) + 1 = i /\ i - 1 \in Int
    BY <1>1
  <2> QED
    BY <1>1, <1>2, <1>3, <2>1
<1>5. h.next[l] = P(1)
  <2>1. 0 \in 0..Len(q[l]) /\ 0 + 1 = 1
    BY <1>1
  <2> QED
    BY <1>1, <1>2, <2>1
<1>6. h.prev[l] = P(Len(q[l]))
  <2>1. Len(q[l]) + 1 \in 1..(Len(q[l]) + 1) /\ (Len(q[l]) + 1) - 1 = Len(q[l])
    BY <1>1
  <2> QED
    BY <1>1, <1>4, <2>1
<1> QED
  BY <1>2, <1>4, <1>5, <1>6 DEF P

\* The bound of the walks is no bound: no list is longer than there are nodes.
LEMMA ListsFit ==
  ASSUME NEW q, Placed(q), NEW l \in List
  PROVE  Bound \in Nat /\ Len(q[l]) <= Bound
<1>1. q[l] \in Seq(Node) /\ Len(q[l]) \in Nat
  BY DEF Placed
<1>2. q[l] \in Injection(1..Len(q[l]), Node)
  <2>1. q[l] \in [1..Len(q[l]) -> Node]
    BY <1>1
  <2> QED
    BY <2>1 DEF Placed, Injection, IsInjective
<1>3. Cardinality(Node) \in Nat
  BY FS_CardinalityType, DclListAssumption
<1>4. Cardinality(1..Len(q[l])) <= Cardinality(Node)
  BY <1>2, FS_Injection, DclListAssumption
<1>5. Cardinality(1..Len(q[l])) = Len(q[l])
  BY <1>1, FS_Interval
<1> QED
  BY <1>1, <1>3, <1>4, <1>5 DEF Bound

\* Read forward the lists are those of q, read backward their mirror images.
LEMMA ReadsLists ==
  ASSUME NEW h, NEW q, NEW d, Linked(h, q, d), NEW l \in List
  PROVE  /\ Forward(h, l, Bound) = q[l]
         /\ Backward(h, l, Bound) = Reverse(q[l])
<1> DEFINE s == q[l]
           r == Reverse(s)
           n == Len(s)
<1>1. /\ Placed(q) /\ AllValid(h)
      /\ DOMAIN h.next = Places /\ DOMAIN h.prev = Places
  BY DEF Linked, AllValid, Heaps
<1>2. s \in Seq(Node) /\ n \in Nat /\ n <= Bound /\ Bound \in Nat
  BY <1>1, ListsFit DEF Placed
<1>3. l \notin Node /\ l \in Places
  BY DclListAssumption DEF Places
<1>4. Forward(h, l, Bound) = s
  <2>1. s \in Seq(DOMAIN h.next) /\ \A i \in 1..Len(s) : s[i] # l
    BY <1>1, <1>2, <1>3 DEF Places
  <2>2. Ring(h.next, l, s)
    BY DEF Linked
  <2> QED
    BY <1>1, <1>2, <1>3, <2>1, <2>2, WalkReads DEF Forward
<1>5. /\ r \in Seq(Node) /\ Len(r) = n
      /\ \A i \in 1..n : r[i] = s[n + 1 - i]
  BY <1>2 DEF Reverse
<1>6. \A i \in 0..(n + 1) : At(l, r, i) = At(l, s, n + 1 - i)
  BY <1>2, <1>5 DEF At
<1>7. Ring(h.prev, l, r)
  <2> SUFFICES ASSUME NEW i \in 0..n PROVE h.prev[At(l, r, i)] = At(l, r, i + 1)
    BY <1>5 DEF Ring
  <2> DEFINE j == n + 1 - i
  <2>1. j \in 1..(n + 1) /\ n + 1 - (i + 1) = j - 1 /\ i \in 0..(n + 1) /\ i + 1 \in 0..(n + 1)
    <3> HIDE DEF n
    <3> QED
      BY <1>2
  <2>2. At(l, r, i) = At(l, s, j) /\ At(l, r, i + 1) = At(l, s, j - 1)
    BY <1>6, <2>1
  <2> HIDE DEF j
  <2>3. h.prev[At(l, s, j)] = At(l, s, j - 1)
    BY <2>1, PlaceLinks
  <2> QED
    BY <2>2, <2>3
<1>8. Backward(h, l, Bound) = r
  <2>1. r \in Seq(DOMAIN h.prev) /\ \A i \in 1..Len(r) : r[i] # l
    BY <1>1, <1>3, <1>5 DEF Places
  <2> HIDE DEF r
  <2> QED
    BY <1>1, <1>2, <1>3, <1>5, <1>7, <2>1, WalkReads DEF Backward
<1> QED
  BY <1>4, <1>8

-----------------------------------------------------------------------------
Among(s, x) == \E i \in 1..Len(s) : s[i] = x
Elsewhere(q, l, x) == \E k \in List \ {l} : Among(q[k], x)
Distinct(s) == \A i, j \in 1..Len(s) : s[i] = s[j] => i = j

Replace(q, l, t) == [q EXCEPT ![l] = t]

\* One list is replaced by a sequence of nodes no other list has.
LEMMA ReplacePlaced ==
  ASSUME NEW q, Placed(q), NEW l \in List, NEW t \in Seq(Node), Distinct(t),
         \A i \in 1..Len(t) : ~Elsewhere(q, l, t[i])
  PROVE  /\ Placed(Replace(q, l, t)) /\ Replace(q, l, t)[l] = t
         /\ \A k \in List \ {l} : Replace(q, l, t)[k] = q[k]
         /\ \A x : InList(Replace(q, l, t), x) <=> Among(t, x) \/ Elsewhere(q, l, x)
<1> DEFINE p == Replace(q, l, t)
<1>1. /\ p \in [List -> Seq(Node)] /\ p[l] = t
      /\ \A k \in List \ {l} : p[k] = q[k]
  BY DEF Placed, Replace
<1> HIDE DEF p
<1>2. ASSUME NEW m \in List, NEW k \in List,
             NEW i \in 1..Len(p[m]), NEW j \in 1..Len(p[k]), p[m][i] = p[k][j]
      PROVE  m = k /\ i = j
  <2>1. CASE m = l /\ k = l
    BY <1>1, <1>2, <2>1 DEF Distinct
  <2>2. CASE m = l /\ k # l
    <3>1. Elsewhere(q, l, t[i]) /\ i \in 1..Len(t)
      BY <1>1, <1>2, <2>2 DEF Elsewhere, Among
    <3> QED
      BY <3>1
  <2>3. CASE m # l /\ k = l
    <3>1. Elsewhere(q, l, t[j]) /\ j \in 1..Len(t)
      BY <1>1, <1>2, <2>3 DEF Elsewhere, Among
    <3> QED
      BY <3>1
  <2>4. CASE m # l /\ k # l
    BY <1>1, <1>2, <2>4 DEF Placed
  <2> QED
    BY <2>1, <2>2, <2>3, <2>4
<1>3. Placed(p)
  BY <1>1, <1>2 DEF Placed
<1>4. ASSUME NEW x PROVE InList(p, x) <=> Among(t, x) \/ Elsewhere(q, l, x)
  BY <1>1, ZenonT(60) DEF InList, Among, Elsewhere
<1> QED
  BY <1>1, <1>3, <1>4 DEF p

\* A list's nodes are in no other list, and are distinct.
LEMMA PlacedApart ==
  ASSUME NEW q, Placed(q), NEW l \in List
  PROVE  /\ Distinct(q[l])
         /\ \A i \in 1..Len(q[l]) : ~Elsewhere(q, l, q[l][i])
         /\ \A x : InList(q, x) <=> Among(q[l], x) \/ Elsewhere(q, l, x)
<1>1. Distinct(q[l])
  BY DEF Placed, Distinct
<1>2. ASSUME NEW i \in 1..Len(q[l]), Elsewhere(q, l, q[l][i]) PROVE FALSE
  BY <1>2 DEF Placed, Elsewhere, Among
<1>3. ASSUME NEW x PROVE InList(q, x) <=> Among(q[l], x) \/ Elsewhere(q, l, x)
  BY Zenon DEF InList, Among, Elsewhere
<1> QED
  BY <1>1, <1>2, <1>3

\* A node before those of s, or behind them.
PutFront(s, n) == <<n>> \o s
PutBack(s, n) == Append(s, n)

\* What PutFront makes of distinct nodes and another.
LEMMA ConsNodes ==
  ASSUME NEW s \in Seq(Node), NEW n \in Node, ~Among(s, n), Distinct(s)
  PROVE  /\ PutFront(s, n) \in Seq(Node) /\ Len(PutFront(s, n)) = Len(s) + 1
         /\ \A i \in 1..(Len(s) + 1) : PutFront(s, n)[i] = IF i = 1 THEN n ELSE s[i - 1]
         /\ Distinct(PutFront(s, n))
         /\ \A x : Among(PutFront(s, n), x) <=> x = n \/ Among(s, x)
<1> DEFINE t == PutFront(s, n)
<1>1. /\ t \in Seq(Node) /\ Len(t) = Len(s) + 1 /\ Len(s) \in Nat
      /\ \A i \in 1..(Len(s) + 1) : t[i] = IF i = 1 THEN n ELSE s[i - 1]
  BY DEF PutFront
<1> HIDE DEF t
<1>2. ASSUME NEW i \in 1..Len(t), NEW j \in 1..Len(t), t[i] = t[j] PROVE i = j
  <2>1. \A m \in 1..Len(t) : m # 1 => m - 1 \in 1..Len(s) /\ t[m] = s[m - 1] /\ t[m] # n
    BY <1>1 DEF Among
  <2>2. CASE i = 1 \/ j = 1
    <3>1. t[1] = n
      BY <1>1
    <3> QED
      BY <1>2, <2>1, <2>2, <3>1
  <2>3. CASE i # 1 /\ j # 1
    <3>1. i - 1 = j - 1
      BY <1>2, <2>1, <2>3 DEF Distinct
    <3> QED
      BY <3>1, <1>1
  <2> QED
    BY <2>2, <2>3
<1>3. ASSUME NEW x PROVE Among(t, x) <=> x = n \/ Among(s, x)
  <2>1. ASSUME Among(t, x) PROVE x = n \/ Among(s, x)
    <3>1. PICK i \in 1..Len(t) : t[i] = x
      BY <2>1 DEF Among
    <3>2. i # 1 => i - 1 \in 1..Len(s)
      BY <1>1
    <3> QED
      BY <1>1, <3>1, <3>2 DEF Among
  <2>2. ASSUME x = n PROVE Among(t, x)
    <3>1. 1 \in 1..Len(t) /\ t[1] = n
      BY <1>1
    <3> QED
      BY <2>2, <3>1 DEF Among
  <2>3. ASSUME Among(s, x) PROVE Among(t, x)
    <3>1. PICK i \in 1..Len(s) : s[i] = x
      BY <2>3 DEF Among
    <3>2. i + 1 \in 1..Len(t) /\ t[i + 1] = x
      BY <1>1, <3>1
    <3> QED
      BY <3>2 DEF Among
  <2> QED
    BY <2>1, <2>2, <2>3
<1> QED
  BY <1>1, <1>2, <1>3 DEF Distinct, t

\* What PutBack makes of them.
LEMMA SnocNodes ==
  ASSUME NEW s \in Seq(Node), NEW n \in Node, ~Among(s, n), Distinct(s)
  PROVE  /\ PutBack(s, n) \in Seq(Node) /\ Len(PutBack(s, n)) = Len(s) + 1
         /\ \A i \in 1..(Len(s) + 1) : PutBack(s, n)[i] = IF i = Len(s) + 1 THEN n ELSE s[i]
         /\ Distinct(PutBack(s, n))
         /\ \A x : Among(PutBack(s, n), x) <=> x = n \/ Among(s, x)
<1> DEFINE t == PutBack(s, n)
<1>1. /\ t \in Seq(Node) /\ Len(t) = Len(s) + 1 /\ Len(s) \in Nat
      /\ \A i \in 1..(Len(s) + 1) : t[i] = IF i = Len(s) + 1 THEN n ELSE s[i]
  BY DEF PutBack
<1> HIDE DEF t
<1>2. \A m \in 1..Len(t) : m # Len(t) => m \in 1..Len(s) /\ t[m] = s[m] /\ t[m] # n
  BY <1>1 DEF Among
<1>3. Len(t) \in 1..Len(t) /\ t[Len(t)] = n /\ \A i \in 1..Len(s) : i \in 1..Len(t)
  BY <1>1
<1>4. Distinct(t)
  BY <1>2, <1>3 DEF Distinct
<1>5. ASSUME NEW x PROVE Among(t, x) <=> x = n \/ Among(s, x)
  <2>1. ASSUME Among(t, x) PROVE x = n \/ Among(s, x)
    BY <1>2, <1>3, <2>1 DEF Among
  <2>2. ASSUME x = n PROVE Among(t, x)
    BY <1>3, <2>2 DEF Among
  <2>3. ASSUME Among(s, x) PROVE Among(t, x)
    <3>1. PICK i \in 1..Len(s) : s[i] = x
      BY <2>3 DEF Among
    <3>2. i \in 1..Len(t) /\ t[i] = x
      BY <1>1, <3>1
    <3> QED
      BY <3>2 DEF Among
  <2> QED
    BY <2>1, <2>2, <2>3
<1> QED
  BY <1>1, <1>4, <1>5 DEF t

\* push_front puts a fresh node before the others.
LEMMA PushFrontLinks ==
  ASSUME NEW h, NEW q, NEW d, Linked(h, q, d),
         NEW l \in List, NEW n \in Node, ~InList(q, n), n \notin d
  PROVE  Linked(InsertFront(h, l, n), Replace(q, l, PutFront(q[l], n)), d)
<1> DEFINE s == q[l]
           t == PutFront(s, n)
           p == Replace(q, l, t)
           g == InsertFront(h, l, n)
<1>1. /\ Placed(q) /\ AllValid(h) /\ h.next[n] = n
      /\ n # l /\ n \in Places /\ l \in Places
      /\ d \subseteq Node /\ s \in Seq(Node) /\ Len(s) \in Nat
  BY DclListAssumption DEF Linked, Placed, Places
<1>2. /\ AllValid(g)
      /\ \A x \in Places :
           /\ g.next[x] = IF x = l THEN n ELSE IF x = n THEN h.next[l] ELSE h.next[x]
           /\ g.prev[x] = IF x = n THEN l ELSE IF x = h.next[l] THEN n ELSE h.prev[x]
  <2>1. InsertsFront(h, g, l, n)
    BY <1>1, InsertFrontPoints
  <2> HIDE DEF g
  <2> QED
    BY <2>1 DEF InsertsFront
<1>3. /\ ~Among(s, n) /\ ~Elsewhere(q, l, n) /\ Distinct(s)
      /\ \A i \in 1..Len(s) : ~Elsewhere(q, l, s[i])
  BY <1>1, PlacedApart
<1>4. /\ t \in Seq(Node) /\ Len(t) = Len(s) + 1 /\ Distinct(t)
      /\ \A i \in 1..(Len(s) + 1) : t[i] = IF i = 1 THEN n ELSE s[i - 1]
      /\ \A x : Among(t, x) <=> x = n \/ Among(s, x)
  BY <1>1, <1>3, ConsNodes
<1> HIDE DEF g, t
<1>5. \A i \in 1..Len(t) : ~Elsewhere(q, l, t[i])
  <2>1. \A i \in 1..Len(t) : Among(t, t[i])
    BY DEF Among
  <2> QED
    BY <1>3, <1>4, <2>1 DEF Among
<1>6. /\ Placed(p) /\ p[l] = t /\ \A k \in List \ {l} : p[k] = q[k]
      /\ \A x : InList(p, x) <=> Among(t, x) \/ Elsewhere(q, l, x)
  BY <1>1, <1>4, <1>5, ReplacePlaced
<1> HIDE DEF p
<1>7. \A x : InList(p, x) <=> x = n \/ InList(q, x)
  BY <1>1, <1>4, <1>6, PlacedApart
<1>8. ASSUME NEW k \in List, NEW i \in 0..Len(q[k])
      PROVE  At(k, q[k], i) # n /\ (At(k, q[k], i) = l => k = l /\ i = 0)
  <2>1. At(k, q[k], i) # n
    BY <1>1, DclListAssumption DEF At, InList, Placed
  <2>2. At(l, q[l], 0) = l /\ 0 \in 0..Len(q[l])
    BY <1>1, PlaceFacts
  <2> QED
    BY <1>1, <2>1, <2>2, PlacesDistinct
<1>9. \A k \in List : \A i \in 0..Len(q[k]) :
        At(k, q[k], i) \in Places /\ h.next[At(k, q[k], i)] = At(k, q[k], i + 1)
  BY <1>1, PlaceFacts, PlaceLinks
<1>10. ASSUME NEW k \in List PROVE Ring(g.next, k, p[k])
  <2>1. CASE k # l
    <3>1. p[k] = q[k]
      BY <1>6, <2>1
    <3> QED
      BY <1>2, <1>8, <1>9, <2>1, <3>1 DEF Ring
  <2>2. CASE k = l
    <3>1. \A j \in 1..(Len(s) + 2) :
            At(l, t, j) = IF j = 1 THEN n ELSE At(l, s, j - 1)
      BY <1>1, <1>4 DEF At
    <3> SUFFICES ASSUME NEW i \in 0..(Len(s) + 1)
                 PROVE  g.next[At(l, t, i)] = At(l, t, i + 1)
      BY <1>4, <1>6, <2>2 DEF Ring
    <3>2. CASE i = 0
      <4>1. At(l, t, 0) = l
        BY <1>1, <1>4 DEF At
      <4> QED
        BY <1>1, <1>2, <3>1, <3>2, <4>1
    <3>3. CASE i = 1
      <4>1. h.next[l] = At(l, s, 1)
        BY PlaceLinks
      <4> QED
        BY <1>1, <1>2, <3>1, <3>3, <4>1
    <3>4. CASE i > 1
      <4>1. /\ At(l, t, i) = At(l, s, i - 1) /\ At(l, t, i + 1) = At(l, s, (i - 1) + 1)
            /\ i - 1 \in 0..Len(s) /\ i - 1 # 0
        BY <1>1, <3>1, <3>4
      <4> QED
        BY <1>2, <1>8, <1>9, <4>1
    <3> QED
      BY <1>1, <3>2, <3>3, <3>4
  <2> QED
    BY <2>1, <2>2
<1>11. ASSUME NEW x \in d
       PROVE  ~InList(p, x) /\ g.next[x] \in d /\ g.prev[x] \in d
  <2>1. /\ ~InList(q, x) /\ h.next[x] \in d /\ h.prev[x] \in d
        /\ x \in Node /\ x \in Places /\ x # n /\ x # l
    BY <1>1, DclListAssumption DEF Linked, Places
  <2>2. x # h.next[l]
    <3>1. h.prev[h.next[l]] = l
      BY <1>1 DEF AllValid, Valid
    <3> QED
      BY <1>1, <2>1, <3>1, DclListAssumption
  <2> QED
    BY <1>2, <1>7, <2>1, <2>2
<1>12. ASSUME NEW x \in Node \ d, ~InList(p, x) PROVE g.next[x] = x
  <2>1. ~InList(q, x) /\ x # n /\ x # l /\ x \in Places
    BY <1>7, <1>12, DclListAssumption DEF Places
  <2>2. h.next[x] = x
    BY <2>1 DEF Linked
  <2> QED
    BY <1>2, <2>1, <2>2
<1>13. Linked(g, p, d)
  BY <1>1, <1>2, <1>6, <1>10, <1>11, <1>12 DEF Linked
<1> QED
  BY <1>13 DEF g, p, t

\* push_back puts it behind them.
LEMMA PushBackLinks ==
  ASSUME NEW h, NEW q, NEW d, Linked(h, q, d),
         NEW l \in List, NEW n \in Node, ~InList(q, n), n \notin d
  PROVE  Linked(InsertBack(h, l, n), Replace(q, l, PutBack(q[l], n)), d)
<1> DEFINE s == q[l]
           t == PutBack(s, n)
           p == Replace(q, l, t)
           g == InsertBack(h, l, n)
<1>1. /\ Placed(q) /\ AllValid(h) /\ h.next[n] = n
      /\ n # l /\ n \in Places /\ l \in Places
      /\ d \subseteq Node /\ s \in Seq(Node) /\ Len(s) \in Nat
  BY DclListAssumption DEF Linked, Placed, Places
<1>2. /\ AllValid(g)
      /\ \A x \in Places :
           /\ g.next[x] = IF x = n THEN l ELSE IF x = h.prev[l] THEN n ELSE h.next[x]
           /\ g.prev[x] = IF x = l THEN n ELSE IF x = n THEN h.prev[l] ELSE h.prev[x]
  <2>1. InsertsBack(h, g, l, n)
    BY <1>1, InsertBackPoints
  <2> HIDE DEF g
  <2> QED
    BY <2>1 DEF InsertsBack
<1>3. /\ ~Among(s, n) /\ ~Elsewhere(q, l, n) /\ Distinct(s)
      /\ \A i \in 1..Len(s) : ~Elsewhere(q, l, s[i])
  BY <1>1, PlacedApart
<1>4. /\ t \in Seq(Node) /\ Len(t) = Len(s) + 1 /\ Distinct(t)
      /\ \A i \in 1..(Len(s) + 1) : t[i] = IF i = Len(s) + 1 THEN n ELSE s[i]
      /\ \A x : Among(t, x) <=> x = n \/ Among(s, x)
  BY <1>1, <1>3, SnocNodes
<1> HIDE DEF g, t
<1>5. \A i \in 1..Len(t) : ~Elsewhere(q, l, t[i])
  <2>1. \A i \in 1..Len(t) : Among(t, t[i])
    BY DEF Among
  <2> QED
    BY <1>3, <1>4, <2>1 DEF Among
<1>6. /\ Placed(p) /\ p[l] = t /\ \A k \in List \ {l} : p[k] = q[k]
      /\ \A x : InList(p, x) <=> Among(t, x) \/ Elsewhere(q, l, x)
  BY <1>1, <1>4, <1>5, ReplacePlaced
<1> HIDE DEF p
<1>7. \A x : InList(p, x) <=> x = n \/ InList(q, x)
  BY <1>1, <1>4, <1>6, PlacedApart
<1>p. h.prev[l] = At(l, s, Len(s)) /\ Len(s) \in 0..Len(s)
  BY <1>1, PlaceLinks
<1>8. ASSUME NEW k \in List, NEW i \in 0..Len(q[k])
      PROVE  At(k, q[k], i) # n /\ (At(k, q[k], i) = h.prev[l] => k = l /\ i = Len(s))
  <2>1. At(k, q[k], i) # n
    BY <1>1, DclListAssumption DEF At, InList, Placed
  <2> QED
    BY <1>1, <1>p, <2>1, PlacesDistinct
<1>9. \A k \in List : \A i \in 0..Len(q[k]) :
        At(k, q[k], i) \in Places /\ h.next[At(k, q[k], i)] = At(k, q[k], i + 1)
  BY <1>1, PlaceFacts, PlaceLinks
<1>10. ASSUME NEW k \in List PROVE Ring(g.next, k, p[k])
  <2>1. CASE k # l
    <3>1. p[k] = q[k]
      BY <1>6, <2>1
    <3> QED
      BY <1>2, <1>8, <1>9, <2>1, <3>1 DEF Ring
  <2>2. CASE k = l
    <3>1. \A j \in 0..(Len(s) + 2) :
            At(l, t, j) = IF j = Len(s) + 1 THEN n
                          ELSE IF j = Len(s) + 2 THEN l ELSE At(l, s, j)
      BY <1>1, <1>4 DEF At
    <3> SUFFICES ASSUME NEW i \in 0..(Len(s) + 1)
                 PROVE  g.next[At(l, t, i)] = At(l, t, i + 1)
      BY <1>4, <1>6, <2>2 DEF Ring
    <3>2. CASE i = Len(s) + 1
      <4>1. At(l, t, i) = n /\ At(l, t, i + 1) = l
        BY <1>1, <3>1, <3>2
      <4> QED
        BY <1>1, <1>2, <4>1
    <3>3. CASE i = Len(s)
      <4>1. At(l, t, i) = h.prev[l] /\ At(l, t, i + 1) = n /\ At(l, t, i) \in Places
        BY <1>1, <1>p, <1>9, <3>1, <3>3
      <4>2. At(l, t, i) # n
        BY <1>p, <1>8, <4>1
      <4> QED
        BY <1>2, <4>1, <4>2
    <3>4. CASE i < Len(s)
      <4>1. /\ At(l, t, i) = At(l, s, i) /\ At(l, t, i + 1) = At(l, s, i + 1)
            /\ i \in 0..Len(s) /\ i # Len(s)
        BY <1>1, <3>1, <3>4
      <4> QED
        BY <1>2, <1>8, <1>9, <4>1
    <3> QED
      BY <1>1, <3>2, <3>3, <3>4
  <2> QED
    BY <2>1, <2>2
<1>v. h.next[h.prev[l]] = l
  BY <1>1 DEF AllValid, Valid
<1>11. ASSUME NEW x \in d
       PROVE  ~InList(p, x) /\ g.next[x] \in d /\ g.prev[x] \in d
  <2>1. /\ ~InList(q, x) /\ h.next[x] \in d /\ h.prev[x] \in d
        /\ x \in Node /\ x \in Places /\ x # n /\ x # l
    BY <1>1, DclListAssumption DEF Linked, Places
  <2>2. x # h.prev[l]
    BY <1>1, <1>v, <2>1, DclListAssumption
  <2> QED
    BY <1>2, <1>7, <2>1, <2>2
<1>12. ASSUME NEW x \in Node \ d, ~InList(p, x) PROVE g.next[x] = x
  <2>1. ~InList(q, x) /\ x # n /\ x # l /\ x \in Places
    BY <1>7, <1>12, DclListAssumption DEF Places
  <2>2. h.next[x] = x
    BY <2>1 DEF Linked
  <2>3. x # h.prev[l]
    BY <1>v, <2>1, <2>2
  <2> QED
    BY <1>2, <2>1, <2>2, <2>3
<1>13. Linked(g, p, d)
  BY <1>1, <1>2, <1>6, <1>10, <1>11, <1>12 DEF Linked
<1> QED
  BY <1>13 DEF g, p, t

\* What a sequence of distinct nodes has without its i-th.
LEMMA WithoutNodes ==
  ASSUME NEW s \in Seq(Node), Distinct(s), NEW i \in 1..Len(s)
  PROVE  /\ Lists!Without(s, i) \in Seq(Node) /\ Len(Lists!Without(s, i)) = Len(s) - 1
         /\ \A j \in 1..(Len(s) - 1) : Lists!Without(s, i)[j] = s[IF j < i THEN j ELSE j + 1]
         /\ Distinct(Lists!Without(s, i))
         /\ \A x : Among(Lists!Without(s, i), x) <=> x # s[i] /\ Among(s, x)
<1> DEFINE t == Lists!Without(s, i)
<1>1. /\ Len(s) \in Nat /\ Len(s) - 1 \in Nat
      /\ \A j \in 1..(Len(s) - 1) : (IF j < i THEN j ELSE j + 1) \in 1..Len(s)
  OBVIOUS
<1>2. /\ t \in Seq(Node) /\ Len(t) = Len(s) - 1
      /\ \A j \in 1..(Len(s) - 1) : t[j] = s[IF j < i THEN j ELSE j + 1]
  BY <1>1 DEF Lists!Without
<1> HIDE DEF t
<1>3. ASSUME NEW j \in 1..Len(t), NEW k \in 1..Len(t), t[j] = t[k] PROVE j = k
  <2>1. (IF j < i THEN j ELSE j + 1) = (IF k < i THEN k ELSE k + 1)
    BY <1>1, <1>2, <1>3, SMTT(30) DEF Distinct
  <2> QED
    BY <1>2, <2>1
<1>4. ASSUME NEW x PROVE Among(t, x) <=> x # s[i] /\ Among(s, x)
  <2>1. ASSUME Among(t, x) PROVE x # s[i] /\ Among(s, x)
    <3>1. PICK j \in 1..(Len(s) - 1) : t[j] = x
      BY <1>2, <2>1 DEF Among
    <3>2. PICK k \in 1..Len(s) : k = (IF j < i THEN j ELSE j + 1) /\ k # i
      BY <1>1
    <3> QED
      BY <1>2, <3>1, <3>2 DEF Among, Distinct
  <2>2. ASSUME x # s[i], Among(s, x) PROVE Among(t, x)
    <3>1. PICK k \in 1..Len(s) : s[k] = x
      BY <2>2 DEF Among
    <3>2. PICK j \in 1..(Len(s) - 1) : k = (IF j < i THEN j ELSE j + 1)
      <4>1. CASE k < i
        <5>1. k \in 1..(Len(s) - 1)
          BY <1>1, <4>1
        <5> QED
          BY <4>1, <5>1
      <4>2. CASE k > i
        <5>1. k - 1 \in 1..(Len(s) - 1) /\ ~(k - 1 < i) /\ (k - 1) + 1 = k
          BY <1>1, <4>2
        <5> QED
          BY <5>1
      <4> QED
        BY <2>2, <3>1, <4>1, <4>2
    <3> QED
      BY <1>2, <3>1, <3>2 DEF Among
  <2> QED
    BY <2>1, <2>2
<1> QED
  BY <1>2, <1>3, <1>4 DEF t, Distinct

\* erase of a node takes it out of its list.
LEMMA EraseLinks ==
  ASSUME NEW h, NEW q, NEW d, Linked(h, q, d),
         NEW l \in List, NEW i \in 1..Len(q[l])
  PROVE  /\ Linked(Erase(h, q[l][i]), Replace(q, l, Lists!Without(q[l], i)), d)
         /\ q[l][i] \notin d
<1> DEFINE s == q[l]
           n == s[i]
           t == Lists!Without(s, i)
           p == Replace(q, l, t)
           g == Erase(h, n)
<1>1. /\ Placed(q) /\ AllValid(h)
      /\ n \in Node /\ n \in Places /\ l \in Places
      /\ d \subseteq Node /\ s \in Seq(Node) /\ Len(s) \in Nat /\ Len(s) - 1 \in Nat
  BY DEF Linked, Placed, Places
<1>3. /\ Distinct(s) /\ \A j \in 1..Len(s) : ~Elsewhere(q, l, s[j])
  BY <1>1, PlacedApart
<1>4. /\ t \in Seq(Node) /\ Len(t) = Len(s) - 1 /\ Distinct(t)
      /\ \A j \in 1..(Len(s) - 1) : t[j] = s[IF j < i THEN j ELSE j + 1]
      /\ \A x : Among(t, x) <=> x # n /\ Among(s, x)
  BY <1>1, <1>3, WithoutNodes
<1>m. /\ At(l, s, i) = n
      /\ h.prev[n] = At(l, s, i - 1) /\ h.next[n] = At(l, s, i + 1)
      /\ i - 1 \in 0..Len(s) /\ i \in 0..Len(s)
  <2>1. At(l, s, i) = n /\ i \in 1..(Len(s) + 1) /\ i \in 0..Len(s) /\ i - 1 \in 0..Len(s)
    BY <1>1 DEF At
  <2> QED
    BY <2>1, PlaceLinks
<1>i. InList(q, n) /\ ~Elsewhere(q, l, n)
  BY <1>3 DEF InList
<1>2. /\ AllValid(g)
      /\ \A x \in Places :
           /\ g.next[x] = IF x = n THEN n
                          ELSE IF x = h.prev[n] THEN h.next[n] ELSE h.next[x]
           /\ g.prev[x] = IF x = n THEN n
                          ELSE IF x = h.next[n] THEN h.prev[n] ELSE h.prev[x]
  <2>1. Erases(h, g, n)
    BY <1>1, ErasePoints
  <2> HIDE DEF g, n
  <2> QED
    BY <2>1 DEF Erases
<1> HIDE DEF g, t, n
<1>5. \A j \in 1..Len(t) : ~Elsewhere(q, l, t[j])
  <2>1. \A j \in 1..Len(t) : Among(t, t[j])
    BY DEF Among
  <2> QED
    BY <1>3, <1>4, <2>1 DEF Among
<1>6. /\ Placed(p) /\ p[l] = t /\ \A k \in List \ {l} : p[k] = q[k]
      /\ \A x : InList(p, x) <=> Among(t, x) \/ Elsewhere(q, l, x)
  BY <1>1, <1>4, <1>5, ReplacePlaced
<1> HIDE DEF p
<1>7. \A x : InList(p, x) <=> x # n /\ InList(q, x)
  BY <1>1, <1>4, <1>6, <1>i, PlacedApart
<1>8. ASSUME NEW k \in List, NEW j \in 0..Len(q[k])
      PROVE  /\ At(k, q[k], j) = n => k = l /\ j = i
             /\ At(k, q[k], j) = h.prev[n] => k = l /\ j = i - 1
  BY <1>1, <1>m, PlacesDistinct
<1>9. \A k \in List : \A j \in 0..Len(q[k]) :
        At(k, q[k], j) \in Places /\ h.next[At(k, q[k], j)] = At(k, q[k], j + 1)
  BY <1>1, PlaceFacts, PlaceLinks
<1>10. ASSUME NEW k \in List PROVE Ring(g.next, k, p[k])
  <2>1. CASE k # l
    <3>1. p[k] = q[k]
      BY <1>6, <2>1
    <3> QED
      BY <1>2, <1>8, <1>9, <2>1, <3>1 DEF Ring
  <2>2. CASE k = l
    <3>1. \A j \in 0..Len(s) :
            At(l, t, j) = IF j < i THEN At(l, s, j) ELSE At(l, s, j + 1)
      BY <1>1, <1>4 DEF At
    <3> SUFFICES ASSUME NEW j \in 0..(Len(s) - 1)
                 PROVE  g.next[At(l, t, j)] = At(l, t, j + 1)
      BY <1>4, <1>6, <2>2 DEF Ring
    <3>j. j \in 0..Len(s) /\ j + 1 \in 0..Len(s)
      BY <1>1
    <3>2. CASE j < i - 1
      <4>1. /\ At(l, t, j) = At(l, s, j) /\ At(l, t, j + 1) = At(l, s, j + 1)
            /\ j # i /\ j # i - 1
        BY <3>j, <3>1, <3>2
      <4> QED
        BY <1>2, <1>8, <1>9, <3>j, <4>1
    <3>3. CASE j = i - 1
      <4>1. /\ At(l, t, j) = h.prev[n] /\ At(l, t, j + 1) = h.next[n] /\ i - 1 # i
        BY <1>m, <3>j, <3>1, <3>3
      <4>2. At(l, t, j) # n /\ At(l, t, j) \in Places
        BY <1>8, <1>9, <1>m, <4>1
      <4> QED
        BY <1>2, <4>1, <4>2
    <3>4. CASE j > i - 1
      <4>1. /\ At(l, t, j) = At(l, s, j + 1) /\ At(l, t, j + 1) = At(l, s, (j + 1) + 1)
            /\ j + 1 # i /\ j + 1 # i - 1
        BY <3>j, <3>1, <3>4
      <4> QED
        BY <1>2, <1>8, <1>9, <3>j, <4>1
    <3> QED
      BY <3>2, <3>3, <3>4
  <2> QED
    BY <2>1, <2>2
<1>n. n \notin d
  BY <1>i DEF Linked
<1>v. \A x \in Places : h.prev[h.next[x]] = x /\ h.next[h.prev[x]] = x
  BY <1>1 DEF AllValid, Valid
<1>11. ASSUME NEW x \in d
       PROVE  ~InList(p, x) /\ g.next[x] \in d /\ g.prev[x] \in d
  <2>1. /\ ~InList(q, x) /\ h.next[x] \in d /\ h.prev[x] \in d
        /\ x \in Places /\ x # n
    BY <1>1, <1>n DEF Linked, Places
  <2>2. x # h.prev[n] /\ x # h.next[n]
    BY <1>1, <1>n, <1>v, <2>1
  <2> QED
    BY <1>2, <1>7, <2>1, <2>2
<1>12. ASSUME NEW x \in Node \ d, ~InList(p, x) PROVE g.next[x] = x
  <2>1. x \in Places
    BY DEF Places
  <2>2. CASE x = n
    BY <1>2, <2>1, <2>2
  <2>3. CASE x # n
    <3>1. h.next[x] = x
      BY <1>7, <1>12, <2>3 DEF Linked
    <3>2. x # h.prev[n]
      BY <1>1, <1>v, <2>3, <3>1
    <3> QED
      BY <1>2, <2>1, <2>3, <3>1, <3>2
  <2> QED
    BY <2>2, <2>3
<1>13. Linked(g, p, d)
  BY <1>1, <1>2, <1>6, <1>10, <1>11, <1>12 DEF Linked
<1> QED
  BY <1>13, <1>n DEF g, p, t, n

\* erase of a node whose list was cleared leaves the lists alone.
LEMMA EraseDroppedLinks ==
  ASSUME NEW h, NEW q, NEW d, Linked(h, q, d), NEW n \in d
  PROVE  Linked(Erase(h, n), q, d \ {n}) /\ ~InList(q, n)
<1> DEFINE g == Erase(h, n)
<1>1. /\ Placed(q) /\ AllValid(h) /\ n \in Node /\ n \in Places /\ d \subseteq Node
      /\ ~InList(q, n) /\ h.next[n] \in d /\ h.prev[n] \in d
  BY DEF Linked, Places
<1>2. /\ AllValid(g)
      /\ \A x \in Places :
           /\ g.next[x] = IF x = n THEN n
                          ELSE IF x = h.prev[n] THEN h.next[n] ELSE h.next[x]
           /\ g.prev[x] = IF x = n THEN n
                          ELSE IF x = h.next[n] THEN h.prev[n] ELSE h.prev[x]
  <2>1. Erases(h, g, n)
    BY <1>1, ErasePoints
  <2> HIDE DEF g
  <2> QED
    BY <2>1 DEF Erases
<1> HIDE DEF g
<1>v. \A x \in Places : h.prev[h.next[x]] = x /\ h.next[h.prev[x]] = x
  BY <1>1 DEF AllValid, Valid
<1>3. \A k \in List : \A j \in 0..Len(q[k]) :
        At(k, q[k], j) \in Places /\ h.next[At(k, q[k], j)] = At(k, q[k], j + 1)
  BY <1>1, PlaceFacts, PlaceLinks
<1>4. ASSUME NEW k \in List, NEW j \in 0..Len(q[k]), At(k, q[k], j) \in d PROVE FALSE
  <2>1. CASE j \in 1..Len(q[k])
    <3>1. InList(q, At(k, q[k], j))
      BY <2>1 DEF InList, At
    <3> QED
      BY <1>4, <3>1 DEF Linked
  <2>2. CASE j \notin 1..Len(q[k])
    <3>1. At(k, q[k], j) \in List
      BY <2>2 DEF At
    <3> QED
      BY <1>1, <1>4, <3>1, DclListAssumption
  <2> QED
    BY <2>1, <2>2
<1>5. ASSUME NEW k \in List PROVE Ring(g.next, k, q[k])
  <2> SUFFICES ASSUME NEW j \in 0..Len(q[k])
               PROVE  g.next[At(k, q[k], j)] = At(k, q[k], j + 1)
    BY DEF Ring
  <2>1. At(k, q[k], j) # n /\ At(k, q[k], j) # h.prev[n]
    BY <1>1, <1>4
  <2> QED
    BY <1>2, <1>3, <2>1
<1>6. ASSUME NEW x \in d \ {n}
      PROVE  ~InList(q, x) /\ g.next[x] \in d \ {n} /\ g.prev[x] \in d \ {n}
  <2>1. /\ ~InList(q, x) /\ h.next[x] \in d /\ h.prev[x] \in d
        /\ x \in Places /\ x # n /\ h.next[n] \in Places /\ h.prev[n] \in Places
    BY <1>1 DEF Linked, Places
  <2>2. g.next[x] \in d \ {n}
    BY <1>1, <1>2, <1>v, <2>1
  <2>3. g.prev[x] \in d \ {n}
    BY <1>1, <1>2, <1>v, <2>1
  <2> QED
    BY <2>1, <2>2, <2>3
<1>7. ASSUME NEW x \in Node \ (d \ {n}), ~InList(q, x) PROVE g.next[x] = x
  <2>1. x \in Places
    BY DEF Places
  <2>2. CASE x = n
    BY <1>2, <2>1, <2>2
  <2>3. CASE x # n
    <3>1. h.next[x] = x /\ x # h.prev[n]
      BY <1>1, <1>7, <2>3 DEF Linked
    <3> QED
      BY <1>2, <2>1, <2>3, <3>1
  <2> QED
    BY <2>2, <2>3
<1>8. Linked(g, q, d \ {n})
  BY <1>1, <1>2, <1>5, <1>6, <1>7 DEF Linked
<1> QED
  BY <1>1, <1>8 DEF g

\* clear, the erase of the head, leaves a ring of its nodes.
LEMMA ClearLinks ==
  ASSUME NEW h, NEW q, NEW d, Linked(h, q, d), NEW l \in List
  PROVE  Linked(Erase(h, l), Replace(q, l, << >>), d \cup Elems(q[l]))
<1> DEFINE s == q[l]
           t == << >>
           p == Replace(q, l, t)
           g == Erase(h, l)
           e == d \cup Elems(s)
<1>1. /\ Placed(q) /\ AllValid(h) /\ l \in Places
      /\ d \subseteq Node /\ s \in Seq(Node) /\ Len(s) \in Nat
  BY DEF Linked, Placed, Places
<1>e. /\ \A x : x \in Elems(s) <=> Among(s, x)
      /\ e \subseteq Node
  BY <1>1 DEF Elems, Among
<1>2. /\ AllValid(g)
      /\ \A x \in Places :
           /\ g.next[x] = IF x = l THEN l
                          ELSE IF x = h.prev[l] THEN h.next[l] ELSE h.next[x]
           /\ g.prev[x] = IF x = l THEN l
                          ELSE IF x = h.next[l] THEN h.prev[l] ELSE h.prev[x]
  <2>1. Erases(h, g, l)
    BY <1>1, ErasePoints
  <2> HIDE DEF g
  <2> QED
    BY <2>1 DEF Erases
<1> HIDE DEF g
<1>4. t \in Seq(Node) /\ Len(t) = 0 /\ Distinct(t) /\ \A x : ~Among(t, x)
  BY DEF Distinct, Among
<1> HIDE DEF t
<1>5. \A j \in 1..Len(t) : ~Elsewhere(q, l, t[j])
  BY <1>4
<1>6. /\ Placed(p) /\ p[l] = t /\ \A k \in List \ {l} : p[k] = q[k]
      /\ \A x : InList(p, x) <=> Among(t, x) \/ Elsewhere(q, l, x)
  BY <1>1, <1>4, <1>5, ReplacePlaced
<1> HIDE DEF p
<1>7. \A x : InList(p, x) <=> ~Among(s, x) /\ InList(q, x)
  <2>1. \A j \in 1..Len(s) : ~Elsewhere(q, l, s[j])
    BY <1>1, PlacedApart
  <2>2. \A x : Among(s, x) => ~Elsewhere(q, l, x)
    BY <2>1 DEF Among
  <2>3. \A x : InList(q, x) <=> Among(s, x) \/ Elsewhere(q, l, x)
    BY <1>1, PlacedApart
  <2>4. \A x : InList(p, x) <=> Elsewhere(q, l, x)
    BY <1>4, <1>6
  <2> HIDE DEF s
  <2> QED
    BY <2>2, <2>3, <2>4
<1>m. /\ h.prev[l] = At(l, s, Len(s)) /\ h.next[l] = At(l, s, 1)
      /\ At(l, s, 0) = l /\ At(l, s, Len(s) + 1) = l
      /\ 0 \in 0..Len(s) /\ Len(s) \in 0..Len(s)
  BY <1>1, PlaceLinks, PlaceFacts
<1>8. ASSUME NEW k \in List \ {l}, NEW j \in 0..Len(q[k])
      PROVE  At(k, q[k], j) # l /\ At(k, q[k], j) # h.prev[l]
  BY <1>1, <1>m, PlacesDistinct
<1>9. \A k \in List : \A j \in 0..Len(q[k]) :
        At(k, q[k], j) \in Places /\ h.next[At(k, q[k], j)] = At(k, q[k], j + 1)
  BY <1>1, PlaceFacts, PlaceLinks
<1>10. ASSUME NEW k \in List PROVE Ring(g.next, k, p[k])
  <2>1. CASE k # l
    <3>1. p[k] = q[k]
      BY <1>6, <2>1
    <3> QED
      BY <1>2, <1>8, <1>9, <2>1, <3>1 DEF Ring
  <2>2. CASE k = l
    BY <1>1, <1>2, <1>4, <1>6, <2>2 DEF Ring, At
  <2> QED
    BY <2>1, <2>2
<1>11. ASSUME NEW x \in e
       PROVE  ~InList(p, x) /\ g.next[x] \in e /\ g.prev[x] \in e
  <2>1. x \in Places /\ x # l /\ x \in Node
    BY <1>e, DclListAssumption DEF Places
  <2>2. CASE x \in d
    <3>1. ~InList(q, x) /\ h.next[x] \in d /\ h.prev[x] \in d
      BY <2>2 DEF Linked
    <3>2. h.prev[h.next[x]] = x /\ h.next[h.prev[x]] = x
          /\ h.prev[h.next[l]] = l /\ h.next[h.prev[l]] = l
      BY <1>1, <2>1 DEF AllValid, Valid
    <3>3. x # h.prev[l] /\ x # h.next[l]
      BY <1>1, <3>1, <3>2, DclListAssumption
    <3> QED
      BY <1>2, <1>7, <2>1, <3>1, <3>3
  <2>3. CASE Among(s, x)
    <3>1. PICK i \in 1..Len(s) : s[i] = x
      BY <2>3 DEF Among
    <3>2. /\ At(l, s, i) = x /\ i \in 0..Len(s) /\ i \in 1..(Len(s) + 1)
          /\ \A j \in 1..Len(s) : At(l, s, j) \in e
      <4>1. \A j \in 1..Len(s) : Among(s, s[j])
        BY DEF Among
      <4>2. \A j \in 1..Len(s) : At(l, s, j) = s[j]
        BY DEF At
      <4>3. \A j \in 1..Len(s) : At(l, s, j) \in e
        BY <1>e, <4>1, <4>2
      <4>4. i \in 0..Len(s) /\ i \in 1..(Len(s) + 1)
        BY <1>1
      <4> QED
        BY <3>1, <4>2, <4>3, <4>4
    <3>3. h.next[x] = At(l, s, i + 1) /\ h.prev[x] = At(l, s, i - 1)
      BY <3>2, PlaceLinks
    <3>4. At(l, s, 1) \in e /\ At(l, s, Len(s)) \in e
      BY <1>1, <3>1, <3>2
    <3>5. g.next[x] \in e
      <4>1. CASE i = Len(s)
        BY <1>2, <1>m, <2>1, <3>2, <3>4, <4>1
      <4>2. CASE i # Len(s)
        <5>1. i + 1 \in 1..Len(s)
          BY <1>1, <4>2
        <5> QED
          BY <1>2, <1>m, <2>1, <3>2, <3>3, <3>4, <5>1
      <4> QED
        BY <4>1, <4>2
    <3>6. g.prev[x] \in e
      <4>1. CASE i = 1
        BY <1>2, <1>m, <2>1, <3>2, <3>4, <4>1
      <4>2. CASE i # 1
        <5>1. i - 1 \in 1..Len(s)
          BY <1>1, <4>2
        <5> QED
          BY <1>2, <1>m, <2>1, <3>2, <3>3, <3>4, <5>1
      <4> QED
        BY <4>1, <4>2
    <3> QED
      BY <1>7, <2>3, <3>5, <3>6
  <2> HIDE DEF s
  <2> QED
    BY <1>e, <2>2, <2>3
<1>12. ASSUME NEW x \in Node \ e, ~InList(p, x) PROVE g.next[x] = x
  <2>1. x \in Places /\ x # l /\ x \notin d /\ ~InList(q, x)
    BY <1>e, <1>7, <1>12, DclListAssumption DEF Places
  <2>2. h.next[x] = x
    BY <2>1 DEF Linked
  <2>3. x # h.prev[l]
    BY <1>1, <2>1, <2>2 DEF AllValid, Valid
  <2> QED
    BY <1>2, <2>1, <2>2, <2>3
<1> HIDE DEF e
<1>13. Linked(g, p, e)
  BY <1>2, <1>e, <1>6, <1>10, <1>11, <1>12 DEF Linked
<1> QED
  BY <1>13 DEF g, p, t, e

\* swap of two heads trades their nodes.
Traded(q, l, m) == [q EXCEPT ![l] = q[m], ![m] = q[l]]

\* After swap the rings of two lists that are not empty lie along each
\* other's nodes.
LEMMA SwapLinks ==
  ASSUME NEW h, NEW q, NEW d, Linked(h, q, d),
         NEW l \in List, NEW m \in List, l # m, q[l] # << >>, q[m] # << >>
  PROVE  Linked(SwapHeads(h, l, m), Traded(q, l, m), d)
<1> DEFINE p == Traded(q, l, m)
           g == SwapHeads(h, l, m)
           a == Len(q[l])
           b == Len(q[m])
<1>1. /\ Placed(q) /\ AllValid(h) /\ l \in Places /\ m \in Places /\ d \subseteq Node
      /\ q \in [List -> Seq(Node)] /\ a \in Nat \ {0} /\ b \in Nat \ {0}
  BY DEF Linked, Placed, Places
<1>f. /\ \A k \in List \ {l, m} : p[k] = q[k]
      /\ p[l] = q[m] /\ p[m] = q[l] /\ p \in [List -> Seq(Node)]
  BY <1>1 DEF Traded
<1> HIDE DEF p
<1>m. /\ h.next[l] = At(l, q[l], 1) /\ h.prev[l] = At(l, q[l], a)
      /\ h.next[m] = At(m, q[m], 1) /\ h.prev[m] = At(m, q[m], b)
      /\ l = At(l, q[l], 0) /\ m = At(m, q[m], 0)
  BY <1>1, PlaceLinks, PlaceFacts
<1>i. /\ 0 \in 0..a /\ 1 \in 0..a /\ a \in 0..a /\ a # 0
      /\ 0 \in 0..b /\ 1 \in 0..b /\ b \in 0..b /\ b # 0
  BY <1>1
<1>8. ASSUME NEW k \in List, NEW j \in 0..Len(q[k])
      PROVE  /\ At(k, q[k], j) = l => k = l /\ j = 0
             /\ At(k, q[k], j) = m => k = m /\ j = 0
             /\ At(k, q[k], j) = h.prev[l] => k = l /\ j = a
             /\ At(k, q[k], j) = h.prev[m] => k = m /\ j = b
  BY <1>1, <1>m, <1>i, PlacesDistinct
<1>9. \A k \in List : \A j \in 0..Len(q[k]) :
        At(k, q[k], j) \in Places /\ h.next[At(k, q[k], j)] = At(k, q[k], j + 1)
  BY <1>1, PlaceFacts, PlaceLinks
<1>a. /\ h.next[l] \notin {l, m} /\ h.prev[l] \notin {l, m}
      /\ h.next[m] \notin {l, m} /\ h.prev[m] \notin {l, m}
  BY <1>m, <1>i, <1>8
<1>2. /\ AllValid(g)
      /\ \A z \in Places :
           /\ g.next[z] = IF z = l THEN h.next[m]
                          ELSE IF z = m THEN h.next[l]
                          ELSE IF z = h.prev[l] THEN m
                          ELSE IF z = h.prev[m] THEN l ELSE h.next[z]
           /\ g.prev[z] = IF z = l THEN h.prev[m]
                          ELSE IF z = m THEN h.prev[l]
                          ELSE IF z = h.next[l] THEN m
                          ELSE IF z = h.next[m] THEN l ELSE h.prev[z]
  <2>1. Swaps(h, g, l, m)
    BY <1>1, <1>a, SwapPoints
  <2> HIDE DEF g
  <2> QED
    BY <2>1 DEF Swaps
<1> HIDE DEF g
<1>3. Placed(p)
  <2> DEFINE s(k) == IF k = l THEN m ELSE IF k = m THEN l ELSE k
  <2>1. \A k \in List : p[k] = q[s(k)] /\ s(k) \in List
    BY <1>f
  <2>2. \A k, n \in List : s(k) = s(n) => k = n
    OBVIOUS
  <2> HIDE DEF s
  <2>3. ASSUME NEW k \in List, NEW n \in List,
               NEW i \in 1..Len(p[k]), NEW j \in 1..Len(p[n]), p[k][i] = p[n][j]
        PROVE  k = n /\ i = j
    <3>1. PICK kk \in List : kk = s(k) /\ p[k] = q[kk]
      BY <2>1
    <3>2. PICK nn \in List : nn = s(n) /\ p[n] = q[nn]
      BY <2>1
    <3>3. kk = nn /\ i = j
      BY <1>1, <2>3, <3>1, <3>2 DEF Placed
    <3> QED
      BY <2>2, <3>1, <3>2, <3>3
  <2> QED
    BY <1>f, <2>3 DEF Placed
<1>4. \A x : InList(p, x) <=> InList(q, x)
  <2>1. ASSUME NEW x, NEW k \in List, NEW i \in 1..Len(p[k]), p[k][i] = x
        PROVE  InList(q, x)
    <3>1. CASE k = l
      BY <1>f, <2>1, <3>1 DEF InList
    <3>2. CASE k = m
      BY <1>f, <2>1, <3>2 DEF InList
    <3>3. CASE k \notin {l, m}
      BY <1>f, <2>1, <3>3 DEF InList
    <3> QED
      BY <3>1, <3>2, <3>3
  <2>2. ASSUME NEW x, NEW k \in List, NEW i \in 1..Len(q[k]), q[k][i] = x
        PROVE  InList(p, x)
    <3>1. CASE k = l
      BY <1>f, <2>2, <3>1 DEF InList
    <3>2. CASE k = m
      BY <1>f, <2>2, <3>2 DEF InList
    <3>3. CASE k \notin {l, m}
      BY <1>f, <2>2, <3>3 DEF InList
    <3> QED
      BY <3>1, <3>2, <3>3
  <2> QED
    BY <2>1, <2>2 DEF InList
<1>5. ASSUME NEW k \in List PROVE Ring(g.next, k, p[k])
  <2>1. CASE k \notin {l, m}
    <3>1. p[k] = q[k]
      BY <1>f, <2>1
    <3> QED
      BY <1>2, <1>8, <1>9, <2>1, <3>1 DEF Ring
  <2>2. CASE k = l
    <3>1. \A j \in 1..b : At(l, q[m], j) = At(m, q[m], j)
      BY <1>1 DEF At
    <3>2. At(l, q[m], 0) = l /\ At(l, q[m], b + 1) = l
      BY <1>1 DEF At
    <3> SUFFICES ASSUME NEW j \in 0..b PROVE g.next[At(l, q[m], j)] = At(l, q[m], j + 1)
      BY <1>f, <2>2 DEF Ring
    <3> HIDE DEF a, b
    <3>3. CASE j = 0
      <4>1. 1 \in 1..b
        BY <1>1
      <4> QED
        BY <1>1, <1>2, <1>m, <3>1, <3>2, <3>3, <4>1
    <3>4. CASE j = b
      <4>1. b \in 1..b
        BY <1>1
      <4>2. At(l, q[m], j) = h.prev[m] /\ h.prev[m] # l /\ h.prev[m] # m
        BY <1>m, <1>a, <3>1, <3>4, <4>1
      <4>3. h.prev[m] # h.prev[l] /\ h.prev[m] \in Places
        BY <1>m, <1>i, <1>8, <1>9 DEF a, b
      <4> QED
        BY <1>2, <3>2, <3>4, <4>2, <4>3
    <3>5. CASE j # 0 /\ j # b
      <4>1. j \in 1..b /\ j + 1 \in 1..b
        BY <1>1, <3>5
      <4>2. At(l, q[m], j) = At(m, q[m], j) /\ At(l, q[m], j + 1) = At(m, q[m], j + 1)
        BY <3>1, <4>1
      <4>3. /\ At(m, q[m], j) \notin {l, m, h.prev[l], h.prev[m]}
            /\ At(m, q[m], j) \in Places /\ h.next[At(m, q[m], j)] = At(m, q[m], j + 1)
        BY <1>8, <1>9, <3>5 DEF a, b
      <4> QED
        BY <1>2, <4>2, <4>3
    <3> QED
      BY <3>3, <3>4, <3>5
  <2>3. CASE k = m
    <3>1. \A j \in 1..a : At(m, q[l], j) = At(l, q[l], j)
      BY <1>1 DEF At
    <3>2. At(m, q[l], 0) = m /\ At(m, q[l], a + 1) = m
      BY <1>1 DEF At
    <3> SUFFICES ASSUME NEW j \in 0..a PROVE g.next[At(m, q[l], j)] = At(m, q[l], j + 1)
      BY <1>f, <2>3 DEF Ring
    <3> HIDE DEF a, b
    <3>3. CASE j = 0
      <4>1. 1 \in 1..a
        BY <1>1
      <4> QED
        BY <1>1, <1>2, <1>m, <3>1, <3>2, <3>3, <4>1
    <3>4. CASE j = a
      <4>1. a \in 1..a
        BY <1>1
      <4>2. At(m, q[l], j) = h.prev[l] /\ h.prev[l] # l /\ h.prev[l] # m
        BY <1>m, <1>a, <3>1, <3>4, <4>1
      <4>3. h.prev[l] \in Places
        BY <1>m, <1>i, <1>9 DEF a, b
      <4> QED
        BY <1>2, <3>2, <3>4, <4>2, <4>3
    <3>5. CASE j # 0 /\ j # a
      <4>1. j \in 1..a /\ j + 1 \in 1..a
        BY <1>1, <3>5
      <4>2. At(m, q[l], j) = At(l, q[l], j) /\ At(m, q[l], j + 1) = At(l, q[l], j + 1)
        BY <3>1, <4>1
      <4>3. /\ At(l, q[l], j) \notin {l, m, h.prev[l], h.prev[m]}
            /\ At(l, q[l], j) \in Places /\ h.next[At(l, q[l], j)] = At(l, q[l], j + 1)
        BY <1>8, <1>9, <3>5 DEF a, b
      <4> QED
        BY <1>2, <4>2, <4>3
    <3> QED
      BY <3>3, <3>4, <3>5
  <2> QED
    BY <2>1, <2>2, <2>3
<1>6. ASSUME NEW x \in Node
      PROVE  /\ x \in d => ~InList(q, x) /\ g.next[x] = h.next[x] /\ g.prev[x] = h.prev[x]
             /\ x \notin d /\ ~InList(q, x) => g.next[x] = h.next[x]
  <2>1. x # l /\ x # m /\ x \in Places
    BY DclListAssumption DEF Places
  <2>2. ~InList(q, x) => x \notin {h.prev[l], h.prev[m], h.next[l], h.next[m]}
    <3>1. /\ h.prev[l] = q[l][a] /\ h.next[l] = q[l][1] /\ a \in 1..Len(q[l]) /\ 1 \in 1..Len(q[l])
          /\ h.prev[m] = q[m][b] /\ h.next[m] = q[m][1] /\ b \in 1..Len(q[m]) /\ 1 \in 1..Len(q[m])
      BY <1>1, <1>m DEF At
    <3> QED
      BY <3>1 DEF InList
  <2>3. x \in d => ~InList(q, x)
    BY DEF Linked
  <2> QED
    BY <1>2, <2>1, <2>2, <2>3
<1>7. Linked(g, p, d)
  <2>1. ASSUME NEW x \in d PROVE ~InList(p, x) /\ g.next[x] \in d /\ g.prev[x] \in d
    <3>1. x \in Node /\ h.next[x] \in d /\ h.prev[x] \in d
      BY <1>1 DEF Linked
    <3> QED
      BY <1>4, <1>6, <3>1
  <2>2. ASSUME NEW x \in Node \ d, ~InList(p, x) PROVE g.next[x] = x
    <3>1. ~InList(q, x)
      BY <1>4, <2>2
    <3>2. h.next[x] = x
      BY <3>1 DEF Linked
    <3> QED
      BY <1>6, <3>1, <3>2
  <2> QED
    BY <1>1, <1>2, <1>3, <1>5, <2>1, <2>2 DEF Linked
<1> QED
  BY <1>7 DEF g, p

-----------------------------------------------------------------------------
Contents == [l \in List |-> ListOf(l)]

(***************************************************************************)
(* The inductive invariant: the links are those of the lists a forward     *)
(* walk reads, whatever the nodes clear left behind.                       *)
(***************************************************************************)
DInv == Linked(heap, Contents, dropped)

\* A heap linked as q is read as q.
LEMMA Reread ==
  ASSUME NEW h, NEW q, NEW d, Linked(h, q, d)
  PROVE  [l \in List |-> Forward(h, l, Bound)] = q
<1>1. \A l \in List : Forward(h, l, Bound) = q[l]
  BY ReadsLists
<1>2. q \in [List -> Seq(Node)]
  BY DEF Linked, Placed
<1> QED
  BY <1>1, <1>2

\* In the words of the clients: what is fresh, empty, first and last.
LEMMA ClientFacts ==
  ASSUME DInv
  PROVE  /\ Contents \in [List -> Seq(Node)]
         /\ \A n \in Node : FreshNode(n) <=> ~InList(Contents, n) /\ n \notin dropped
         /\ \A n \in Node : FreshNode(n) <=> Lists!Fresh(n)
         /\ \A l \in List : Lists!Range(Contents[l]) = Elems(Contents[l])
         /\ \A l \in List : IsEmpty(heap, l) <=> Contents[l] = << >>
         /\ \A l \in List : Contents[l] # << >> =>
              /\ Len(Contents[l]) \in 1..Len(Contents[l]) /\ 1 \in 1..Len(Contents[l])
              /\ FirstOf(heap, l) = Contents[l][1]
              /\ LastOf(heap, l) = Contents[l][Len(Contents[l])]
<1>1. Placed(Contents) /\ Contents \in [List -> Seq(Node)]
  BY DEF DInv, Linked, Placed
<1>2. \A l \in List : ListOf(l) = Contents[l]
  BY DEF Contents
<1>3. \A l \in List : Contents[l] \in Seq(Node) /\ Len(Contents[l]) \in Nat
  BY <1>1
<1> HIDE DEF Contents
<1>4. ASSUME NEW n \in Node
      PROVE  /\ FreshNode(n) <=> ~InList(Contents, n) /\ n \notin dropped
             /\ FreshNode(n) <=> Lists!Fresh(n)
  <2>1. n \in LinkedNodes <=> \E l \in List : n \in Elems(Contents[l])
    BY <1>2 DEF LinkedNodes
  <2>2. \A l \in List : n \in Elems(Contents[l]) <=> \E i \in 1..Len(Contents[l]) : Contents[l][i] = n
    BY <1>3 DEF Elems
  <2>3. n \in LinkedNodes <=> InList(Contents, n)
    BY <2>1, <2>2 DEF InList
  <2>4. Lists!Linked(n) <=> \E l \in List : n \in Elems(Contents[l])
    BY DEF Lists!Linked, Lists!Range, Elems, Contents
  <2> QED
    BY <2>1, <2>3, <2>4 DEF FreshNode, Lists!Fresh
<1>5. ASSUME NEW l \in List
      PROVE  /\ IsEmpty(heap, l) <=> Contents[l] = << >>
             /\ Contents[l] # << >> =>
                  /\ Len(Contents[l]) \in 1..Len(Contents[l]) /\ 1 \in 1..Len(Contents[l])
                  /\ FirstOf(heap, l) = Contents[l][1]
                  /\ LastOf(heap, l) = Contents[l][Len(Contents[l])]
  <2>1. heap.next[l] = At(l, Contents[l], 1) /\ heap.prev[l] = At(l, Contents[l], Len(Contents[l]))
    BY PlaceLinks DEF DInv
  <2>2. CASE Contents[l] = << >>
    BY <1>3, <2>1, <2>2 DEF IsEmpty, At
  <2>3. CASE Contents[l] # << >>
    <3>1. Len(Contents[l]) \in 1..Len(Contents[l]) /\ 1 \in 1..Len(Contents[l])
      BY <1>3, <2>3
    <3>2. heap.next[l] = Contents[l][1] /\ heap.prev[l] = Contents[l][Len(Contents[l])]
      BY <2>1, <3>1 DEF At
    <3>3. Contents[l][1] \in Node /\ l \notin Node
      BY <1>3, <3>1, DclListAssumption
    <3> QED
      BY <2>3, <3>1, <3>2, <3>3 DEF IsEmpty, FirstOf, LastOf
  <2> QED
    BY <2>2, <2>3
<1>6. \A l \in List : Lists!Range(Contents[l]) = Elems(Contents[l])
  BY DEF Lists!Range, Elems
<1> QED
  BY <1>1, <1>4, <1>5, <1>6

\* Without its first or last element a sequence is its tail or its front.
LEMMA EndsTaken ==
  ASSUME NEW s \in Seq(Node), s # << >>
  PROVE  /\ Lists!Without(s, 1) = Tail(s)
         /\ Lists!Without(s, Len(s)) = SubSeq(s, 1, Len(s) - 1)
<1>1. Len(s) \in Nat /\ Len(s) >= 1
  OBVIOUS
<1>2. Lists!Without(s, 1) = Tail(s)
  <2>1. Tail(s) \in Seq(Node) /\ Len(Tail(s)) = Len(s) - 1
        /\ \A j \in 1..(Len(s) - 1) : Tail(s)[j] = s[j + 1]
    BY <1>1
  <2>2. Tail(s) = [j \in 1..(Len(s) - 1) |-> s[j + 1]]
    <3> DEFINE t == Tail(s)
               k == Len(s) - 1
    <3>0. t \in Seq(Node) /\ Len(t) = k /\ \A j \in 1..k : t[j] = s[j + 1]
      BY <2>1
    <3> HIDE DEF t, k
    <3>1. t \in [1..k -> Node]
      BY <3>0
    <3>2. t = [j \in 1..k |-> s[j + 1]]
      BY <3>0, <3>1
    <3> QED
      BY <3>2 DEF t, k
  <2>3. \A j \in 1..(Len(s) - 1) : ~(j < 1)
    BY <1>1
  <2> QED
    BY <2>2, <2>3 DEF Lists!Without
<1>3. Lists!Without(s, Len(s)) = SubSeq(s, 1, Len(s) - 1)
  <2>1. SubSeq(s, 1, Len(s) - 1) = [j \in 1..(Len(s) - 1) |-> s[j]]
    BY <1>1
  <2>2. \A j \in 1..(Len(s) - 1) : j < Len(s)
    BY <1>1
  <2> QED
    BY <2>1, <2>2 DEF Lists!Without
<1> QED
  BY <1>2, <1>3

\* Heads and nodes begin as rings of their own: all lists are empty.
LEMMA DInit ==
  ASSUME Init
  PROVE  DInv /\ Lists!Init
<1> DEFINE q == [l \in List |-> << >>]
<1>1. AllValid(heap) /\ \A n \in Places : heap.next[n] = n
  BY DEF Init, Unlinked, AllValid, Heaps, Places, Valid
<1>2. Placed(q) /\ \A x : ~InList(q, x)
  BY DEF Placed, InList
<1>3. \A l \in List : Ring(heap.next, l, q[l])
  BY <1>1 DEF Ring, At, Places
<1>4. Linked(heap, q, dropped)
  BY <1>1, <1>2, <1>3 DEF Linked, Init, Places
<1>5. Contents = q
  BY <1>4, Reread DEF Contents, ListOf
<1> QED
  BY <1>4, <1>5 DEF DInv, Lists!Init, Init, Contents

\* Every operation keeps the invariant and is the operation ListSpec has.
LEMMA DStep ==
  ASSUME DInv, [Next]_vars
  PROVE  DInv' /\ [Lists!Next]_(Lists!vars)
<1> DEFINE q == Contents
<1>0. /\ Linked(heap, q, dropped) /\ q \in [List -> Seq(Node)]
  BY ClientFacts DEF DInv
<1>r. ASSUME NEW p, Linked(heap', p, dropped')
      PROVE  Contents' = p /\ DInv'
  <2>1. [l \in List |-> Forward(heap', l, Bound)] = p
    BY <1>r, Reread
  <2>2. Contents' = [l \in List |-> Forward(heap', l, Bound)]
    BY DEF Contents, ListOf, Bound
  <2> QED
    BY <1>r, <2>1, <2>2 DEF DInv
<1>s. Contents = [l \in List |-> ListOf(l)]
  BY DEF Contents
<1> HIDE DEF q
<1>1. ASSUME NEW l \in List, NEW n \in Node, PushFront(l, n)
      PROVE  DInv' /\ Lists!PushFront(l, n)
  <2>1. /\ FreshNode(n) /\ ~InList(q, n) /\ n \notin dropped /\ Lists!Fresh(n)
        /\ heap' = InsertFront(heap, l, n) /\ dropped' = dropped
    BY <1>1, ClientFacts DEF PushFront, q
  <2>2. Linked(heap', Replace(q, l, PutFront(q[l], n)), dropped')
    BY <1>0, <2>1, PushFrontLinks
  <2>3. DInv' /\ Contents' = Replace(q, l, PutFront(q[l], n))
    BY <1>r, <2>2
  <2>4. Contents' = [Contents EXCEPT ![l] = <<n>> \o @]
    BY <2>3 DEF Replace, PutFront, q
  <2> QED
    BY <2>1, <2>3, <2>4 DEF Lists!PushFront, Contents
<1>2. ASSUME NEW l \in List, NEW n \in Node, PushBack(l, n)
      PROVE  DInv' /\ Lists!PushBack(l, n)
  <2>1. /\ FreshNode(n) /\ ~InList(q, n) /\ n \notin dropped /\ Lists!Fresh(n)
        /\ heap' = InsertBack(heap, l, n) /\ dropped' = dropped
    BY <1>2, ClientFacts DEF PushBack, q
  <2>2. Linked(heap', Replace(q, l, PutBack(q[l], n)), dropped')
    BY <1>0, <2>1, PushBackLinks
  <2>3. DInv' /\ Contents' = Replace(q, l, PutBack(q[l], n))
    BY <1>r, <2>2
  <2>4. Contents' = [Contents EXCEPT ![l] = Append(@, n)]
    BY <2>3 DEF Replace, PutBack, q
  <2> QED
    BY <2>1, <2>3, <2>4 DEF Lists!PushBack, Contents
<1>3. ASSUME NEW l \in List, PopFront(l)
      PROVE  DInv' /\ Lists!PopFront(l)
  <2>1. /\ q[l] # << >> /\ 1 \in 1..Len(q[l]) /\ q[l] \in Seq(Node)
        /\ heap' = Erase(heap, q[l][1]) /\ dropped' = dropped
    BY <1>3, ClientFacts DEF PopFront, q
  <2>2. Linked(heap', Replace(q, l, Lists!Without(q[l], 1)), dropped')
    BY <1>0, <2>1, EraseLinks
  <2>3. DInv' /\ Contents' = Replace(q, l, Tail(q[l]))
    BY <1>r, <2>1, <2>2, EndsTaken
  <2>4. Contents' = [Contents EXCEPT ![l] = Tail(@)]
    BY <2>3 DEF Replace, q
  <2> QED
    BY <2>1, <2>3, <2>4 DEF Lists!PopFront, Contents, q
<1>4. ASSUME NEW l \in List, PopBack(l)
      PROVE  DInv' /\ Lists!PopBack(l)
  <2>1. /\ q[l] # << >> /\ Len(q[l]) \in 1..Len(q[l]) /\ q[l] \in Seq(Node)
        /\ heap' = Erase(heap, q[l][Len(q[l])]) /\ dropped' = dropped
    BY <1>4, ClientFacts DEF PopBack, q
  <2>2. Linked(heap', Replace(q, l, Lists!Without(q[l], Len(q[l]))), dropped')
    BY <1>0, <2>1, EraseLinks
  <2>3. DInv' /\ Contents' = Replace(q, l, SubSeq(q[l], 1, Len(q[l]) - 1))
    BY <1>r, <2>1, <2>2, EndsTaken
  <2>4. Contents' = [Contents EXCEPT ![l] = SubSeq(@, 1, Len(@) - 1)]
    BY <2>3 DEF Replace, q
  <2> QED
    BY <2>1, <2>3, <2>4 DEF Lists!PopBack, Contents, q
<1>5. ASSUME NEW n \in Node, EraseNode(n)
      PROVE  DInv' /\ Lists!EraseNode(n)
  <2>1. /\ ~Lists!Fresh(n) /\ (InList(q, n) \/ n \in dropped)
        /\ heap' = Erase(heap, n) /\ dropped' = dropped \ {n}
    BY <1>5, ClientFacts DEF EraseNode, q
  <2>2. CASE n \in dropped
    <3>1. Linked(heap', q, dropped')
      BY <1>0, <2>1, <2>2, EraseDroppedLinks
    <3>2. DInv' /\ Contents' = q
      BY <1>r, <3>1
    <3> QED
      BY <2>1, <2>2, <3>2 DEF Lists!EraseNode, Contents, q
  <2>3. CASE n \notin dropped
    <3>1. PICK l \in List : \E i \in 1..Len(q[l]) : q[l][i] = n
      BY <2>1, <2>3 DEF InList
    <3>2. PICK i \in 1..Len(q[l]) : q[l][i] = n
      BY <3>1
    <3>3. Linked(heap', Replace(q, l, Lists!Without(q[l], i)), dropped)
      BY <1>0, <2>1, <3>2, EraseLinks
    <3>4. dropped' = dropped
      BY <2>1, <2>3
    <3>5. DInv' /\ Contents' = Replace(q, l, Lists!Without(q[l], i))
      BY <1>r, <3>3, <3>4
    <3>6. Contents' = [Contents EXCEPT ![l] = Lists!Without(@, i)]
      BY <3>5 DEF Replace, q
    <3>7. i \in DOMAIN Contents[l] /\ Contents[l][i] = n
      BY <1>0, <3>2 DEF q
    <3> QED
      BY <2>1, <3>5, <3>6, <3>7 DEF Lists!EraseNode, Contents
  <2> QED
    BY <2>2, <2>3
<1>6. ASSUME NEW l \in List, Clear(l)
      PROVE  DInv' /\ Lists!Clear(l)
  <2>1. /\ heap' = Erase(heap, l) /\ dropped' = dropped \cup Elems(q[l])
        /\ Lists!Range(q[l]) = Elems(q[l])
    BY <1>6, ClientFacts DEF Clear, Contents, q
  <2>2. Linked(heap', Replace(q, l, << >>), dropped')
    BY <1>0, <2>1, ClearLinks
  <2>3. DInv' /\ Contents' = Replace(q, l, << >>)
    BY <1>r, <2>2
  <2>4. Contents' = [Contents EXCEPT ![l] = << >>]
    BY <2>3 DEF Replace, q
  <2> QED
    BY <2>1, <2>3, <2>4 DEF Lists!Clear, Contents, q
<1>7. ASSUME NEW l \in List, NEW m \in List, l # m, Swap(l, m)
      PROVE  DInv' /\ Lists!Swap(l, m)
  <2>1. /\ q[l] # << >> /\ q[m] # << >>
        /\ heap' = SwapHeads(heap, l, m) /\ dropped' = dropped
    BY <1>7, ClientFacts DEF Swap, q
  <2>2. Linked(heap', Traded(q, l, m), dropped')
    BY <1>0, <1>7, <2>1, SwapLinks
  <2>3. DInv' /\ Contents' = Traded(q, l, m)
    BY <1>r, <2>2
  <2>4. Contents' = [Contents EXCEPT ![l] = Contents[m], ![m] = Contents[l]]
    BY <2>3 DEF Traded, q
  <2> QED
    BY <2>1, <2>3, <2>4 DEF Lists!Swap, Contents, q
<1>8. ASSUME UNCHANGED vars
      PROVE  DInv' /\ UNCHANGED Lists!vars
  <2>1. heap' = heap /\ dropped' = dropped
    BY <1>8 DEF vars
  <2>2. DInv' /\ Contents' = q
    BY <1>0, <1>r, <2>1
  <2> QED
    BY <2>1, <2>2 DEF Lists!vars, Contents, q
<1> QED
  BY <1>1, <1>2, <1>3, <1>4, <1>5, <1>6, <1>7, <1>8 DEF Next, Lists!Next

(***************************************************************************)
(* The links of dcl_list are always those of lists and of dropped rings.   *)
(***************************************************************************)
THEOREM ListInvariance ==
  Spec => []DInv
<1>1. Init => DInv
  BY DInit
<1>2. DInv /\ [Next]_vars => DInv'
  BY DStep
<1> QED
  BY <1>1, <1>2, PTL DEF Spec

(***************************************************************************)
(* Of dcl_list: a walk over prev is the mirror image of one over next, and *)
(* every node satisfies what erase asserts, in a list or left by a clear.  *)
(***************************************************************************)
THEOREM MirrorsCorrect ==
  Spec => []BackwardMirrors
<1>1. DInv => BackwardMirrors
  <2> SUFFICES ASSUME DInv PROVE BackwardMirrors
    OBVIOUS
  <2>1. ASSUME NEW l \in List PROVE Backward(heap, l, Bound) = Reverse(ListOf(l))
    BY <2>1, ReadsLists DEF DInv, Contents
  <2>2. \A n \in List \cup Node : Valid(heap, n)
    BY DEF DInv, Linked, AllValid, Places
  <2> QED
    BY <2>1, <2>2 DEF BackwardMirrors
<1> QED
  BY <1>1, ListInvariance, PTL

(***************************************************************************)
(* dcl_list implements ListSpec: read forward, its lists are the sequences *)
(* the operations promise.                                                 *)
(***************************************************************************)
THEOREM ListRefinement ==
  Spec => ImplementsLists
<1>1. Init => Lists!Init
  BY DInit
<1>2. DInv /\ [Next]_vars => [Lists!Next]_(Lists!vars)
  BY DStep
<1> QED
  BY <1>1, <1>2, ListInvariance, PTL DEF Spec, ImplementsLists, Lists!Spec
=============================================================================
