---------------------------- MODULE ContainerProofs ----------------------------
(***************************************************************************)
(* Proofs about the containers: the events of stdext/aop, for any number   *)
(* of connections and any depth of fires inside listeners, and the hash    *)
(* tables of stdext, for any keys, hasher, list of primes and size.        *)
(*                                                                         *)
(* What an event knows of its list is an instance of the facts proved of   *)
(* dcl_list: the list is the one head, the connections are the nodes, none *)
(* is ever cleared.  The inductive invariant of the events lays the ring   *)
(* of links along the connections in use, newest first, and says of every  *)
(* fire under way, the ones that wait for a listener included, that it has *)
(* called all it owes down to the connection it is about to visit, which   *)
(* is still in use unless the fire was stranded.                           *)
(*                                                                         *)
(* The inductive invariant of the hash tables says that every element lies *)
(* in the bucket of its key and equal keys of a chain side by side.  A     *)
(* position in the concatenated chains is what an iterator points at: an   *)
(* iteration goes from each position to the next, and erasing cuts out     *)
(* what lies between two positions.                                        *)
(***************************************************************************)
EXTENDS Event, HashTable, SequenceTheorems, FiniteSetTheorems, WellFoundedInduction, NaturalsInduction, TLAPS

\* What is proved of dcl_list, about the one list of an event.
Rings == INSTANCE DclListProofs WITH List <- {Event}, Node <- Conn, heap <- links, dropped <- {}

\* The ring of h leads from the event along s and back to it.
Along(h, s) == Rings!Linked(h, [l \in {Event} |-> s], {})

\* The event is a list that is no node, and its nodes are as many as the bound.
LEMMA OneRing ==
  /\ Rings!DclListAssumption
  /\ Rings!Bound = MaxConn + 1
  /\ Rings!Places = {Event} \cup Conn
<1>1. {Event} \cap Conn = {}
  BY DEF Event, Conn
<1>2. IsFiniteSet(Conn) /\ Cardinality(Conn) = MaxConn
  BY FS_Interval, EventAssumption DEF Conn
<1>3. Rings!IsFiniteSet(Conn) /\ Rings!Cardinality(Conn) = MaxConn
  BY <1>2 DEF IsFiniteSet, Rings!IsFiniteSet, Cardinality, Rings!Cardinality
<1> QED
  BY <1>1, <1>3 DEF Rings!DclListAssumption, Rings!Bound, Rings!Places

\* The operations on links are those the facts of dcl_list speak of.
LEMMA SameOperations ==
  /\ \A h, n : Rings!Erase(h, n) = Erase(h, n)
  /\ \A h, l, n : Rings!InsertFront(h, l, n) = InsertFront(h, l, n)
  /\ \A h, l, k : Rings!Forward(h, l, k) = Forward(h, l, k)
<1>1. ASSUME NEW h, NEW n PROVE Rings!Erase(h, n) = Erase(h, n)
  BY DEF Rings!Erase, Erase, Rings!SetNext, SetNext, Rings!SetPrev, SetPrev
<1>2. ASSUME NEW h, NEW l, NEW n PROVE Rings!InsertFront(h, l, n) = InsertFront(h, l, n)
  BY DEF Rings!InsertFront, InsertFront, Rings!SetNext, SetNext, Rings!SetPrev, SetPrev
<1>3. ASSUME NEW h, NEW l, NEW k PROVE Rings!Forward(h, l, k) = Forward(h, l, k)
  BY DEF Rings!Forward, Forward, Rings!Walk, Walk, Rings!Done, Done
<1> QED
  BY <1>1, <1>2, <1>3

\* What the links of such a ring say, and how fire reads it.
LEMMA RingReads ==
  ASSUME NEW h, NEW s, Along(h, s)
  PROVE  /\ s \in Seq(Conn)
         /\ Forward(h, Event, MaxConn + 1) = s
         /\ \A i, j \in 1..Len(s) : s[i] = s[j] => i = j
         /\ h.next[Event] = IF s = << >> THEN Event ELSE s[1]
         /\ \A i \in 1..Len(s) : h.next[s[i]] = IF i = Len(s) THEN Event ELSE s[i + 1]
         /\ \A c \in {Event} \cup Conn : h.next[c] \in {Event} \cup Conn
<1> DEFINE q == [l \in {Event} |-> s]
<1>1. Rings!Linked(h, q, {}) /\ q[Event] = s /\ Event \in {Event}
  BY DEF Along
<1> HIDE DEF q
<1>2. Rings!Placed(q) /\ Rings!AllValid(h)
  BY <1>1 DEF Rings!Linked
<1>3. s \in Seq(Conn) /\ \A i, j \in 1..Len(s) : s[i] = s[j] => i = j
  BY <1>1, <1>2 DEF Rings!Placed
<1>4. Rings!Forward(h, Event, Rings!Bound) = s
  BY <1>1, OneRing, Rings!ReadsLists
<1>5. /\ \A i \in 0..Len(s) : h.next[Rings!At(Event, s, i)] = Rings!At(Event, s, i + 1)
      /\ h.next[Event] = Rings!At(Event, s, 1)
  BY <1>1, OneRing, Rings!PlaceLinks
<1>6. ASSUME NEW i \in 1..Len(s)
      PROVE  h.next[s[i]] = IF i = Len(s) THEN Event ELSE s[i + 1]
  BY <1>3, <1>5 DEF Rings!At
<1>7. h.next[Event] = IF s = << >> THEN Event ELSE s[1]
  BY <1>3, <1>5 DEF Rings!At
<1>8. \A c \in {Event} \cup Conn : h.next[c] \in {Event} \cup Conn
  BY <1>2, OneRing DEF Rings!AllValid, Rings!Heaps
<1> QED
  BY <1>3, <1>4, <1>6, <1>7, <1>8, OneRing, SameOperations

\* At first nobody is connected.
LEMMA RingStarts == Along(Unlinked({Event} \cup Conn), << >>)
<1> DEFINE h == Unlinked({Event} \cup Conn)
           q == [l \in {Event} |-> << >>]
<1>1. Rings!AllValid(h) /\ \A n \in {Event} \cup Conn : h.next[n] = n
  BY OneRing DEF Unlinked, Rings!AllValid, Rings!Heaps, Rings!Valid
<1> HIDE DEF h
<1>2. Rings!Placed(q) /\ \A x : ~Rings!InList(q, x)
  BY DEF Rings!Placed, Rings!InList
<1>3. \A l \in {Event} : Rings!Ring(h.next, l, q[l])
  BY <1>1 DEF Rings!Ring, Rings!At
<1> QED
  BY <1>1, <1>2, <1>3 DEF Along, Rings!Linked, h

\* A connection comes to stand before all others.
LEMMA RingConnects ==
  ASSUME NEW h, NEW s, Along(h, s), NEW n \in Conn, \A i \in 1..Len(s) : s[i] # n
  PROVE  Along(InsertFront(h, Event, n), <<n>> \o s)
<1> DEFINE q == [l \in {Event} |-> s]
<1>1. Rings!Linked(h, q, {}) /\ ~Rings!InList(q, n)
  BY DEF Along, Rings!InList
<1>2. Rings!Linked(Rings!InsertFront(h, Event, n), Rings!Replace(q, Event, Rings!PutFront(q[Event], n)), {})
  <2> HIDE DEF q
  <2> QED
    BY <1>1, OneRing, Rings!PushFrontLinks
<1>3. Rings!Replace(q, Event, Rings!PutFront(q[Event], n)) = [l \in {Event} |-> <<n>> \o s]
  BY DEF Rings!Replace, Rings!PutFront
<1> QED
  BY <1>2, <1>3, SameOperations DEF Along

\* One that is disconnected leaves the others as they stand.
LEMMA RingDisconnects ==
  ASSUME NEW h, NEW s, Along(h, s), NEW i \in 1..Len(s)
  PROVE  \E t \in Seq(Conn) :
           /\ Along(Erase(h, s[i]), t)
           /\ Len(t) = Len(s) - 1
           /\ \A j \in 1..Len(t) : t[j] = s[IF j < i THEN j ELSE j + 1]
<1> DEFINE q == [l \in {Event} |-> s]
           t == Rings!Lists!Without(s, i)
<1>1. Rings!Linked(h, q, {}) /\ q[Event] = s
  BY DEF Along
<1>2. Rings!Linked(Rings!Erase(h, s[i]), Rings!Replace(q, Event, Rings!Lists!Without(q[Event], i)), {})
  <2> HIDE DEF q
  <2> QED
    BY <1>1, OneRing, Rings!EraseLinks
<1>3. Rings!Replace(q, Event, Rings!Lists!Without(q[Event], i)) = [l \in {Event} |-> t]
  BY DEF Rings!Replace
<1>4. s \in Seq(Conn) /\ Rings!Distinct(s)
  BY RingReads DEF Rings!Distinct
<1>5. /\ t \in Seq(Conn) /\ Len(t) = Len(s) - 1
      /\ \A j \in 1..(Len(s) - 1) : t[j] = s[IF j < i THEN j ELSE j + 1]
  BY <1>4, OneRing, Rings!WithoutNodes
<1> HIDE DEF t
<1> QED
  BY <1>2, <1>3, <1>5, SameOperations DEF Along
-----------------------------------------------------------------------------
\* What is known of a fire under way.
Fire == [next : {Event} \cup Conn, calling : BOOLEAN, called : Seq(Conn), expected : SUBSET Conn]

\* Connections are numbered as they are made: the newest comes first.
Descends(s) == \A i, j \in 1..Len(s) : i < j => s[i] > s[j]

\* A fire visits, newest first, the connections in use that it found when it
\* began; what was connected since is newer than all of these, and the
\* connections before the one it visits next have been called.
CalledSoFar(f, m, inUse) ==
  /\ f.next \in {Event} \cup (inUse \cap f.expected)
  /\ f.expected \subseteq 1..m
  /\ \A x \in inUse \ f.expected : \A y \in f.expected : x > y
  /\ Elems(f.called) \subseteq f.expected
  /\ Descends(f.called)
  /\ \A i \in 1..Len(f.called) : f.called[i] > f.next
  /\ \A y \in inUse \cap f.expected : y > f.next => y \in Elems(f.called)

\* The inductive invariant of the events.
EInv ==
  /\ Along(links, Listed)
  /\ made \in 0..MaxConn /\ handles \subseteq 1..made
  /\ ListedNewestFirst
  /\ fires \in Seq(Fire) /\ stranded \in BOOLEAN
  /\ ~stranded => \A k \in DOMAIN fires : CalledSoFar(fires[k], made, handles)

\* s is the sequence of the connections in use, newest first.
NewestFirst(s, inUse) ==
  /\ s \in Seq(Conn) /\ Len(s) \in Nat
  /\ \A i \in 1..Len(s) : s[i] \in inUse
  /\ \A x \in inUse : \E i \in 1..Len(s) : s[i] = x
  /\ Descends(s)

\* The invariant says of the list what it is about to visit.
LEMMA ListNow ==
  ASSUME EInv
  PROVE  /\ NewestFirst(Listed, handles) /\ handles \subseteq Conn
         /\ links.next[Event] = IF Listed = << >> THEN Event ELSE Listed[1]
         /\ \A i \in 1..Len(Listed) :
              links.next[Listed[i]] = IF i = Len(Listed) THEN Event ELSE Listed[i + 1]
<1> DEFINE s == Listed
<1>1. Along(links, s) /\ ListedNewestFirst
  BY DEF EInv
<1>2. s \in Seq(Conn)
  BY <1>1, RingReads
<1>3. DOMAIN s = 1..Len(s) /\ Len(s) \in Nat
  BY <1>2
<1>4. NewestFirst(s, handles) /\ handles \subseteq Conn
  BY <1>1, <1>2, <1>3 DEF NewestFirst, Elems, ListedNewestFirst, Descends
<1> HIDE DEF s
<1> QED
  BY <1>1, <1>4, RingReads DEF s

\* Where the ring leads after a step is the list after it.
LEMMA ListNext ==
  ASSUME NEW s, Along(links', s), NewestFirst(s, handles')
  PROVE  Listed' = s /\ Along(links', Listed') /\ ListedNewestFirst'
<1>1. Forward(links', Event, MaxConn + 1) = s
  BY RingReads
<1>2. Listed' = s
  BY <1>1 DEF Listed
<1>3. DOMAIN s = 1..Len(s)
  BY DEF NewestFirst
<1>4. Elems(s) = handles' /\ \A i, j \in DOMAIN s : i < j => s[i] > s[j]
  BY <1>3 DEF NewestFirst, Descends, Elems
<1> QED
  BY <1>2, <1>4 DEF ListedNewestFirst

\* Connections are numbers.
LEMMA Numbered ==
  ASSUME EInv
  PROVE  made \in Int /\ \A x \in handles : x \in Int /\ x \in 1..made
<1>1. made \in Int
  BY EventAssumption DEF EInv
<1> QED
  BY <1>1 DEF EInv

\* The invariant holds before anybody connects.
LEMMA EInitEInv ==
  ASSUME EInit PROVE EInv
<1>1. Along(links, << >>)
  BY RingStarts DEF EInit
<1>2. Listed = << >>
  BY <1>1, RingReads DEF Listed
<1> QED
  <2>1. ListedNewestFirst
    BY <1>2 DEF EInit, ListedNewestFirst, Elems
  <2>2. fires \in Seq(Fire) /\ DOMAIN fires = {}
    BY DEF EInit
  <2>3. made \in 0..MaxConn /\ handles \subseteq 1..made
    BY EventAssumption DEF EInit
  <2>4. stranded \in BOOLEAN
    BY Zenon DEF EInit
  <2>5. \A k \in DOMAIN fires : CalledSoFar(fires[k], made, handles)
    BY <2>2
  <2> QED
    BY <1>1, <1>2, <2>1, <2>2, <2>3, <2>4, <2>5 DEF EInv

\* A new connection is newer than all a fire expects and than all in use.
LEMMA AddListenerEInv ==
  ASSUME EInv, AddListener PROVE EInv'
<1> DEFINE s == Listed
           n == made + 1
           t == <<n>> \o s
<1>1. /\ Along(links, s) /\ NewestFirst(s, handles) /\ s \in Seq(Conn)
      /\ made \in 0..MaxConn /\ handles \subseteq 1..made
      /\ fires \in Seq(Fire) /\ stranded \in BOOLEAN
  BY ListNow DEF EInv, NewestFirst
<1>2. /\ made' = n /\ n \in 1..MaxConn /\ n \in Conn /\ handles' = handles \cup {n}
      /\ links' = InsertFront(links, Event, n) /\ fires' = fires /\ stranded' = stranded
  BY <1>1, EventAssumption DEF AddListener, Conn
<1>3. \A x \in handles : x \in Conn /\ x < n
  BY <1>1, EventAssumption DEF Conn
<1> HIDE DEF s, n
<1>4. \A i \in 1..Len(s) : s[i] \in handles /\ s[i] # n
  BY <1>1, <1>3, <1>2 DEF NewestFirst, Conn
<1>5. Along(links', t)
  BY <1>1, <1>2, <1>4, RingConnects
<1>6. /\ t \in Seq(Conn) /\ Len(t) = Len(s) + 1 /\ t[1] = n
      /\ \A i \in 2..Len(t) : t[i] = s[i - 1] /\ i - 1 \in 1..Len(s)
      /\ \A i \in 1..Len(s) : s[i] = t[i + 1] /\ i + 1 \in 1..Len(t)
  BY <1>1, <1>2
<1> HIDE DEF t
<1>7. \A i, j \in 1..Len(t) : i < j => t[i] > t[j]
  <2> SUFFICES ASSUME NEW i \in 1..Len(t), NEW j \in 1..Len(t), i < j
               PROVE  t[i] > t[j]
    OBVIOUS
  <2>1. t[j] = s[j - 1] /\ j - 1 \in 1..Len(s)
    BY <1>6
  <2>2. CASE i = 1
    BY <1>2, <1>3, <1>4, <1>6, <2>1, <2>2 DEF Conn
  <2>3. CASE i # 1
    <3>1. t[i] = s[i - 1] /\ i - 1 \in 1..Len(s) /\ i - 1 < j - 1
      BY <1>6, <2>3
    <3> QED
      BY <1>1, <2>1, <3>1 DEF NewestFirst, Descends
  <2> QED
    BY <2>2, <2>3
<1>8. NewestFirst(t, handles')
  <2>1. \A i \in 1..Len(t) : t[i] \in handles'
    BY <1>2, <1>4, <1>6
  <2>2. ASSUME NEW x \in handles' PROVE \E i \in 1..Len(t) : t[i] = x
    <3>1. CASE x = n
      <4>1. 1 \in 1..Len(t)
        BY <1>1, <1>6
      <4> QED
        BY <1>6, <3>1, <4>1
    <3>2. CASE x # n
      <4>1. PICK i \in 1..Len(s) : s[i] = x
        BY <1>1, <1>2, <3>2 DEF NewestFirst
      <4> QED
        BY <1>6, <4>1
    <3> QED
      BY <3>1, <3>2
  <2> QED
    BY <1>6, <1>7, <2>1, <2>2 DEF NewestFirst, Descends
<1>9. ASSUME ~stranded, NEW k \in DOMAIN fires
      PROVE  CalledSoFar(fires[k], made', handles')
  <2>1. CalledSoFar(fires[k], made, handles)
    BY <1>9 DEF EInv
  <2>2. \A y \in fires[k].expected : y \in 1..made /\ y < n /\ n > y
    BY <1>1, <2>1 DEF CalledSoFar, n
  <2>3. n \notin fires[k].expected
    BY <1>2, <2>2
  <2>4. /\ fires[k].expected \subseteq 1..made'
        /\ handles' \cap fires[k].expected = handles \cap fires[k].expected
        /\ handles' \ fires[k].expected = (handles \ fires[k].expected) \cup {n}
    BY <1>1, <1>2, <2>2, <2>3 DEF n
  <2> QED
    BY <2>1, <2>2, <2>4 DEF CalledSoFar
<1>10. made' \in 0..MaxConn /\ handles' \subseteq 1..made'
  BY <1>1, <1>2 DEF n
<1> QED
  BY <1>1, <1>2, <1>5, <1>8, <1>9, <1>10, ListNext DEF EInv

\* One that is disconnected leaves the list; a fire that was about to visit
\* it is stranded, any other owes it no call any more.
LEMMA DisconnectEInv ==
  ASSUME EInv, NEW c \in Conn, Disconnect(c) PROVE EInv'
<1> DEFINE s == Listed
<1>1. /\ Along(links, s) /\ NewestFirst(s, handles) /\ s \in Seq(Conn)
      /\ made \in 0..MaxConn /\ handles \subseteq 1..made
      /\ fires \in Seq(Fire) /\ stranded \in BOOLEAN
  BY ListNow DEF EInv, NewestFirst
<1>2. /\ c \in handles /\ handles' = handles \ {c} /\ made' = made
      /\ links' = Erase(links, c) /\ fires' = fires
      /\ stranded' = (stranded \/ \E i \in DOMAIN fires : fires[i].next = c)
  BY DEF Disconnect
<1> HIDE DEF s
<1>3. PICK i \in 1..Len(s) : s[i] = c
  BY <1>1, <1>2 DEF NewestFirst
<1>4. PICK t \in Seq(Conn) :
        /\ Along(links', t) /\ Len(t) = Len(s) - 1
        /\ \A j \in 1..Len(t) : t[j] = s[IF j < i THEN j ELSE j + 1]
  BY <1>1, <1>2, <1>3, RingDisconnects
<1> DEFINE at(j) == IF j < i THEN j ELSE j + 1
<1>5. /\ Len(s) \in Nat /\ Len(t) \in Nat /\ Len(t) = Len(s) - 1 /\ i \in 1..Len(s)
      /\ \A j, k \in 1..Len(s) : j < k => s[j] > s[k]
      /\ \A j \in 1..Len(s) : s[j] \in Int
  <2>1. Len(s) \in Nat /\ Len(t) \in Nat
    BY <1>1, <1>4
  <2>2. \A j \in 1..Len(s) : s[j] \in Int
    <3>1. \A j \in 1..Len(s) : s[j] \in handles
      BY <1>1 DEF NewestFirst
    <3> QED
      BY <3>1, Numbered
  <2> QED
    BY <1>1, <1>4, <2>1, <2>2 DEF NewestFirst, Descends
<1>a. \A j \in 1..Len(t) : at(j) \in 1..Len(s) /\ at(j) # i
  BY <1>5
<1>b. \A j, k \in 1..Len(t) : j < k => at(j) < at(k)
  BY <1>5
<1>c. \A j \in 1..Len(t) : t[j] = s[at(j)]
  BY <1>4
<1> HIDE DEF at
<1>6. ASSUME NEW j \in 1..Len(t), NEW k \in 1..Len(t), j < k
      PROVE  t[j] > t[k]
  BY <1>a, <1>b, <1>c, <1>5, <1>6
<1>7. ASSUME NEW j \in 1..Len(t) PROVE t[j] \in handles'
  <2>1. PICK k \in 1..Len(s) : t[j] = s[k] /\ k # i
    BY <1>a, <1>c
  <2>2. s[k] # s[i]
    <3>1. k < i \/ i < k
      BY <2>1
    <3> QED
      BY <1>5, <3>1
  <2> QED
    BY <1>1, <1>2, <1>3, <2>1, <2>2 DEF NewestFirst
<1>8. ASSUME NEW x \in handles' PROVE \E j \in 1..Len(t) : t[j] = x
  <2>1. PICK k \in 1..Len(s) : s[k] = x
    BY <1>1, <1>2 DEF NewestFirst
  <2>2. k # i
    BY <1>2, <1>3, <2>1
  <2>3. CASE k < i
    <3>1. k \in 1..Len(t) /\ at(k) = k
      BY <1>5, <2>3 DEF at
    <3> QED
      BY <1>c, <2>1, <3>1
  <2>4. CASE k > i
    <3>1. k - 1 \in 1..Len(t) /\ at(k - 1) = k
      BY <1>5, <2>4 DEF at
    <3> QED
      BY <1>c, <2>1, <3>1
  <2> QED
    BY <2>2, <2>3, <2>4
<1>9. NewestFirst(t, handles')
  <2>1. t \in Seq(Conn) /\ Len(t) \in Nat
    BY <1>4
  <2> QED
    BY <1>6, <1>7, <1>8, <2>1 DEF NewestFirst, Descends
<1>10. ASSUME ~stranded', NEW k \in DOMAIN fires
       PROVE  CalledSoFar(fires[k], made, handles \ {c})
  <2>1. CalledSoFar(fires[k], made, handles) /\ fires[k].next # c
    BY <1>1, <1>2, <1>10 DEF EInv
  <2> QED
    BY <2>1 DEF CalledSoFar
<1> QED
  BY <1>1, <1>2, <1>4, <1>9, <1>10, ListNext DEF EInv

\* A fire expects those in use when it begins, the first of which it visits.
LEMMA BeginFireEInv ==
  ASSUME EInv, BeginFire PROVE EInv'
<1> DEFINE s == Listed
           f == [next |-> FirstOf(links, Event), calling |-> FALSE,
                 called |-> << >>, expected |-> handles]
<1>1. /\ Along(links, s) /\ NewestFirst(s, handles) /\ handles \subseteq Conn
      /\ made \in 0..MaxConn /\ handles \subseteq 1..made
      /\ fires \in Seq(Fire) /\ stranded \in BOOLEAN
      /\ links.next[Event] = IF s = << >> THEN Event ELSE s[1]
  BY ListNow DEF EInv
<1>2. fires' = <<f>> \o fires /\ UNCHANGED <<links, made, handles, stranded>>
  BY DEF BeginFire
<1>3. Listed' = Listed
  BY <1>2 DEF Listed
<1>4. f.next = IF s = << >> THEN Event ELSE s[1]
  BY <1>1 DEF FirstOf
<1>5. f.expected = handles /\ f.called = << >> /\ f.next = FirstOf(links, Event)
  OBVIOUS
<1>6. f.next \in {Event} \cup handles /\ \A y \in handles : ~(y > f.next)
  <2> HIDE DEF s, f
  <2>1. CASE s = << >>
    <3>1. \A x \in handles : \E i \in 1..0 : s[i] = x
      BY <1>1, <2>1 DEF NewestFirst
    <3>2. handles = {}
      BY <3>1
    <3> QED
      BY <1>4, <2>1, <3>2
  <2>2. CASE s # << >>
    <3>1. 1 \in 1..Len(s) /\ f.next = s[1] /\ s[1] \in handles
      BY <1>1, <1>4, <2>2 DEF NewestFirst
    <3>2. ASSUME NEW y \in handles PROVE ~(y > s[1])
      <4>1. PICK i \in 1..Len(s) : s[i] = y
        BY <1>1 DEF NewestFirst
      <4>2. i = 1 \/ 1 < i
        OBVIOUS
      <4>3. y \in Int /\ s[1] \in Int
        BY <3>1, Numbered
      <4>4. 1 < i => s[1] > y
        BY <1>1, <3>1, <4>1 DEF NewestFirst, Descends
      <4> QED
        BY <4>1, <4>2, <4>3, <4>4
    <3> QED
      BY <3>1, <3>2
  <2> QED
    BY <2>1, <2>2
<1>7. f \in Fire
  <2>1. f.next \in {Event} \cup Conn
    BY <1>1, <1>6
  <2>2. << >> \in Seq(Conn) /\ handles \in SUBSET Conn
    BY <1>1
  <2> QED
    BY <2>1, <2>2 DEF Fire
<1> HIDE DEF f
<1>8. CalledSoFar(f, made, handles)
  <2>1. Elems(f.called) = {} /\ 1..Len(f.called) = {}
    BY <1>5 DEF Elems
  <2> QED
    BY <1>1, <1>5, <1>6, <2>1 DEF CalledSoFar, Descends
<1>9. /\ fires' \in Seq(Fire) /\ DOMAIN fires' = 1..(Len(fires) + 1) /\ fires'[1] = f
      /\ \A k \in 2..(Len(fires) + 1) : fires'[k] = fires[k - 1] /\ k - 1 \in DOMAIN fires
  BY <1>1, <1>2, <1>7
<1>10. ASSUME ~stranded', NEW k \in DOMAIN fires'
       PROVE  CalledSoFar(fires'[k], made', handles')
  BY <1>1, <1>2, <1>8, <1>9, <1>10 DEF EInv
<1> QED
  BY <1>1, <1>2, <1>3, <1>9, <1>10 DEF EInv, ListedNewestFirst

\* What a step of the innermost fire may change of it, and leaves of the rest.
LEMMA FireSteps ==
  ASSUME EInv, NEW f \in Fire, fires # << >>,
         fires' = [fires EXCEPT ![1] = f],
         ~stranded => CalledSoFar(f, made, handles),
         UNCHANGED <<links, made, handles, stranded>>
  PROVE  EInv'
<1>1. fires \in Seq(Fire) /\ 1 \in DOMAIN fires
  BY DEF EInv
<1>2. /\ fires' \in Seq(Fire) /\ DOMAIN fires' = DOMAIN fires
      /\ \A k \in DOMAIN fires : fires'[k] = IF k = 1 THEN f ELSE fires[k]
  BY <1>1
<1>3. ASSUME ~stranded', NEW k \in DOMAIN fires'
      PROVE  CalledSoFar(fires'[k], made', handles')
  BY <1>2, <1>3 DEF EInv
<1>4. Listed' = Listed
  BY DEF Listed
<1> QED
  BY <1>2, <1>3, <1>4 DEF EInv, ListedNewestFirst

\* The connection after the one whose listener is called is the newest of
\* those in use that are older, so none is passed over.
LEMMA CallListenerEInv ==
  ASSUME EInv, CallListener PROVE EInv'
<1> DEFINE f == fires[1]
           c == f.next
           g == [f EXCEPT !.next = links.next[c], !.calling = TRUE, !.called = Append(@, c)]
<1>1. /\ fires # << >> /\ c # Event
      /\ fires' = [fires EXCEPT ![1].next = links.next[c], ![1].calling = TRUE,
                                ![1].called = Append(@, c)]
      /\ UNCHANGED <<links, made, handles, stranded>>
  BY DEF CallListener, Done
<1>2. fires \in Seq(Fire) /\ 1 \in DOMAIN fires /\ f \in Fire
  BY <1>1 DEF EInv
<1>3. /\ f.called \in Seq(Conn) /\ c \in Conn /\ f.expected \in SUBSET Conn
      /\ f = [next |-> f.next, calling |-> f.calling, called |-> f.called, expected |-> f.expected]
  BY <1>1, <1>2 DEF Fire
<1>4. links.next[c] \in {Event} \cup Conn
  BY <1>3, RingReads DEF EInv
<1>5. /\ g \in Fire /\ g.next = links.next[c]
      /\ g.called = Append(f.called, c) /\ g.expected = f.expected
  <2> DEFINE f1 == [f EXCEPT !.next = links.next[c]]
             f2 == [f1 EXCEPT !.calling = TRUE]
  <2>1. /\ f1 \in Fire /\ f1.next = links.next[c]
        /\ f1.called = f.called /\ f1.expected = f.expected
    <3> HIDE DEF f, c
    <3> QED
      BY <1>2, <1>4 DEF Fire
  <2>2. g = [f2 EXCEPT !.called = Append(f.called, c)]
    BY Zenon
  <2> HIDE DEF f, c, f1, g
  <2>3. /\ f2 \in Fire /\ f2.next = f1.next
        /\ f2.called = f1.called /\ f2.expected = f1.expected
    BY <2>1 DEF Fire
  <2>4. Append(f.called, c) \in Seq(Conn)
    BY <1>3
  <2> HIDE DEF f2
  <2>5. /\ g \in Fire /\ g.next = f2.next
        /\ g.called = Append(f.called, c) /\ g.expected = f2.expected
    BY <2>2, <2>3, <2>4 DEF Fire
  <2> QED
    BY <2>1, <2>3, <2>5
<1>6. fires' = [fires EXCEPT ![1] = g]
  BY <1>1
<1>7. ASSUME ~stranded PROVE CalledSoFar(g, made, handles)
  <2> DEFINE s == Listed
  <2> HIDE DEF f
  <2>1. CalledSoFar(f, made, handles)
    BY <1>2, <1>7 DEF EInv, f
  <2>2. c \in handles /\ c \in f.expected
    BY <1>1, <2>1 DEF CalledSoFar
  <2>3. PICK i \in 1..Len(s) : s[i] = c
    BY <2>2, ListNow DEF NewestFirst
  <2>4. links.next[c] = IF i = Len(s) THEN Event ELSE s[i + 1]
    BY <2>3, ListNow
  <2> DEFINE d == links.next[c]
  <2> HIDE DEF s, c, g
  <2>5. NewestFirst(s, handles)
    BY ListNow DEF s
  <2>6. d \in {Event} \cup handles /\ d < c /\ d \in Int /\ c \in Int
    <3>1. CASE i = Len(s)
      BY <2>2, <2>4, <3>1, Numbered DEF Event
    <3>2. CASE i # Len(s)
      <4>1. i + 1 \in 1..Len(s) /\ i < i + 1 /\ d = s[i + 1]
        BY <2>3, <2>4, <2>5, <3>2 DEF NewestFirst
      <4>2. d \in handles /\ c > d
        BY <2>3, <2>5, <4>1 DEF NewestFirst, Descends
      <4> QED
        BY <2>2, <4>2, Numbered
    <3> QED
      BY <3>1, <3>2
  <2>7. ASSUME NEW y \in handles, y > d PROVE y >= c
    <3>1. PICK j \in 1..Len(s) : s[j] = y
      BY <2>5 DEF NewestFirst
    <3>2. j <= i
      <4>1. SUFFICES ASSUME i < j PROVE FALSE
        OBVIOUS
      <4>2. i # Len(s) /\ i + 1 \in 1..Len(s) /\ d = s[i + 1]
        BY <2>3, <2>4, <2>5, <4>1 DEF NewestFirst
      <4>3. i + 1 = j \/ i + 1 < j
        BY <4>1
      <4>4. i + 1 < j => d > y
        BY <2>5, <3>1, <4>2 DEF NewestFirst, Descends
      <4> QED
        BY <2>6, <2>7, <3>1, <4>2, <4>3, <4>4, Numbered
    <3>3. j = i \/ j < i
      BY <3>2
    <3>4. j < i => y > c
      BY <2>3, <2>5, <3>1 DEF NewestFirst, Descends
    <3> QED
      BY <2>3, <2>6, <3>1, <3>3, <3>4, Numbered
  <2>8. d \in {Event} \cup (handles \cap f.expected)
    BY <2>1, <2>2, <2>6 DEF CalledSoFar
  <2> DEFINE called == Append(f.called, c)
  <2>9. /\ Len(called) = Len(f.called) + 1 /\ Len(f.called) \in Nat
        /\ called[Len(f.called) + 1] = c
        /\ \A k \in 1..Len(f.called) : called[k] = f.called[k]
        /\ DOMAIN called = 1..Len(called) /\ DOMAIN f.called = 1..Len(f.called)
    BY <1>3
  <2> HIDE DEF called
  <2>10. \A k \in 1..Len(f.called) : f.called[k] > c /\ f.called[k] \in Int
    <3>1. \A k \in 1..Len(f.called) : f.called[k] \in Conn
      BY <1>3
    <3> QED
      BY <2>1, <3>1, EventAssumption DEF CalledSoFar, Conn, c
  <2>11. Elems(called) = Elems(f.called) \cup {c}
    BY <2>9 DEF Elems
  <2>12. \A k \in 1..Len(called) : k \in 1..Len(f.called) \/ k = Len(f.called) + 1
    BY <2>9
  <2>13. \A k \in 1..Len(called) : called[k] > d
    <3>1. \A k \in 1..Len(f.called) : called[k] > c /\ called[k] \in Int
      BY <2>9, <2>10
    <3>2. \A v \in Int : v > c => v > d
      BY <2>6
    <3> QED
      BY <2>6, <2>9, <2>12, <3>1, <3>2
  <2>14. Descends(called)
    <3>1. \A j, k \in 1..Len(called) : j < k => j \in 1..Len(f.called)
      BY <2>9
    <3>2. Descends(f.called)
      BY <2>1 DEF CalledSoFar
    <3> QED
      BY <2>9, <2>10, <2>12, <3>1, <3>2 DEF Descends
  <2>15. ASSUME NEW y \in handles \cap f.expected, y > d PROVE y \in Elems(called)
    <3>1. y = c \/ y > c
      BY <2>6, <2>7, <2>15, Numbered
    <3> QED
      BY <2>1, <2>11, <3>1 DEF CalledSoFar, c
  <2>16. g.next = d /\ g.called = called /\ g.expected = f.expected
    BY <1>5 DEF called, c, f
  <2> QED
    BY <2>1, <2>2, <2>8, <2>11, <2>13, <2>14, <2>15, <2>16 DEF CalledSoFar
<1> HIDE DEF g
<1> QED
  BY <1>1, <1>5, <1>6, <1>7, FireSteps

\* A listener that returns changes nothing a fire owes.
LEMMA ListenerReturnsEInv ==
  ASSUME EInv, ListenerReturns PROVE EInv'
<1> DEFINE f == fires[1]
           g == [f EXCEPT !.calling = FALSE]
<1>1. /\ fires # << >> /\ fires' = [fires EXCEPT ![1].calling = FALSE]
      /\ UNCHANGED <<links, made, handles, stranded>>
  BY DEF ListenerReturns
<1>2. fires \in Seq(Fire) /\ 1 \in DOMAIN fires /\ f \in Fire
  BY <1>1 DEF EInv
<1>3. g \in Fire /\ g.next = f.next /\ g.called = f.called /\ g.expected = f.expected
  BY <1>2 DEF Fire
<1>4. fires' = [fires EXCEPT ![1] = g]
  BY <1>1
<1>5. ~stranded => CalledSoFar(g, made, handles)
  BY <1>2, <1>3 DEF EInv, CalledSoFar
<1> HIDE DEF g
<1> QED
  BY <1>1, <1>3, <1>4, <1>5, FireSteps

\* A fire that ends leaves the ones around it as they are.
LEMMA EndFireEInv ==
  ASSUME EInv, EndFire PROVE EInv'
<1>1. /\ fires # << >> /\ fires' = Tail(fires) /\ fires \in Seq(Fire)
      /\ UNCHANGED <<links, made, handles, stranded>>
  BY DEF EndFire, EInv
<1>2. /\ fires' \in Seq(Fire)
      /\ \A k \in DOMAIN fires' : k + 1 \in DOMAIN fires /\ fires'[k] = fires[k + 1]
  BY <1>1
<1>3. ASSUME ~stranded', NEW k \in DOMAIN fires'
      PROVE  CalledSoFar(fires'[k], made', handles')
  BY <1>1, <1>2, <1>3 DEF EInv
<1>4. Listed' = Listed
  BY <1>1 DEF Listed
<1> QED
  BY <1>1, <1>2, <1>3, <1>4 DEF EInv, ListedNewestFirst

\* Every step, also a stuttering one, keeps the invariant.
LEMMA ENextEInv ==
  ASSUME EInv, [ENext]_evars PROVE EInv'
<1>1. ASSUME UNCHANGED evars PROVE EInv'
  BY <1>1 DEF EInv, evars, Listed, ListedNewestFirst
<1> QED
  BY <1>1, AddListenerEInv, DisconnectEInv, BeginFireEInv, CallListenerEInv,
     ListenerReturnsEInv, EndFireEInv DEF ENext, FireStep
-----------------------------------------------------------------------------
(***************************************************************************)
(* The list and every fire that is not stranded are as the invariant says, *)
(* for any number of connections and any depth of fires.                   *)
(***************************************************************************)
THEOREM EventInvariance == ESpec => []EInv
<1>1. EInit => EInv
  BY EInitEInv
<1>2. EInv /\ [ENext]_evars => EInv'
  BY ENextEInv
<1> QED
  BY <1>1, <1>2, PTL DEF ESpec

\* The list holds the connections in use, newest first, and a fire calls no
\* listener twice and none before a newer one.
THEOREM CalledOnceCorrect == ESpec => []CalledOnceInOrder
<1>1. ASSUME EInv PROVE CalledOnceInOrder
  <2>1. ASSUME ~stranded, NEW k \in DOMAIN fires
        PROVE  \A i, j \in DOMAIN fires[k].called : i < j => fires[k].called[i] > fires[k].called[j]
    <3>1. CalledSoFar(fires[k], made, handles) /\ fires[k] \in Fire
      BY <1>1, <2>1 DEF EInv
    <3>2. DOMAIN fires[k].called = 1..Len(fires[k].called)
      BY <3>1 DEF Fire
    <3> QED
      BY <3>1, <3>2 DEF CalledSoFar, Descends
  <2> QED
    BY <1>1, <2>1 DEF EInv, CalledOnceInOrder
<1> QED
  BY <1>1, EventInvariance, PTL

\* A fire that ends has called every listener it found that is still
\* connected, and none it did not find.
THEOREM NobodyMissedCorrect == ESpec => NobodyMissed
<1> DEFINE Called == Len(fires') < Len(fires) /\ ~stranded =>
                       /\ fires[1].expected \cap handles \subseteq Elems(fires[1].called)
                       /\ Elems(fires[1].called) \subseteq fires[1].expected
<1>1. ASSUME EInv, ENext PROVE Called
  <2>1. fires \in Seq(Fire)
    BY <1>1 DEF EInv
  <2>2. CASE EndFire
    <3>1. 1 \in DOMAIN fires /\ fires[1].next = Event
      BY <2>1, <2>2 DEF EndFire, Done
    <3>2. ASSUME ~stranded PROVE CalledSoFar(fires[1], made, handles)
      BY <1>1, <3>1, <3>2 DEF EInv
    <3>3. \A y \in handles : y > Event
      BY <1>1, Numbered DEF Event
    <3> QED
      BY <3>1, <3>2, <3>3 DEF CalledSoFar
  <2>3. CASE ~EndFire
    <3>1. AddListener \/ (\E c \in Conn : Disconnect(c)) => fires' = fires
      BY DEF AddListener, Disconnect
    <3>2. BeginFire => Len(fires') = Len(fires) + 1
      <4> SUFFICES ASSUME BeginFire PROVE Len(fires') = Len(fires) + 1
        OBVIOUS
      <4>1. PICK f : fires' = <<f>> \o fires
        BY DEF BeginFire
      <4> QED
        BY <2>1, <4>1
    <3>3. CallListener \/ ListenerReturns => Len(fires') = Len(fires)
      BY <2>1 DEF CallListener, ListenerReturns
    <3> QED
      BY <1>1, <2>1, <2>3, <3>1, <3>2, <3>3 DEF ENext, FireStep
  <2> QED
    BY <2>2, <2>3
<1>2. ASSUME EInv, [ENext]_evars PROVE [Called]_evars
  BY <1>1, <1>2
<1> QED
  BY <1>2, EventInvariance, PTL DEF ESpec, NobodyMissed
-----------------------------------------------------------------------------
\* A set of numbers that is not empty has a least one.
LEMMA Least ==
  ASSUME NEW S \in SUBSET Nat, S # {}
  PROVE  Min(S) \in S /\ \A i \in S : Min(S) <= i
<1>1. \E x \in S : \A y \in S : ~(<<y, x>> \in OpToRel(<, Nat))
  BY NatLessThanWellFounded, WFMin
<1>2. \A x, y \in Nat : y < x => <<y, x>> \in OpToRel(<, Nat)
  BY DEF OpToRel
<1>3. PICK x \in S : \A y \in S : ~(y < x)
  <2>1. \E x \in S : \A y \in S : ~(y < x)
    BY <1>1, <1>2, Zenon
  <2> QED
    BY ONLY <2>1
<1>4. \A y \in S : x <= y
  BY <1>3
<1> QED
  BY <1>3, <1>4 DEF Min

\* A set that holds 0 and the successor of each of its numbers holds them all.
LEMMA FromZero ==
  ASSUME NEW S, 0 \in S, \A n \in Nat : n \in S => n + 1 \in S
  PROVE  Nat \subseteq S
<1> SUFFICES ASSUME Nat \ S # {} PROVE FALSE
  OBVIOUS
<1>1. PICK x \in Nat \ S : \A y \in Nat \ S : x <= y
  BY Least
<1>2. x # 0 /\ x - 1 \in Nat
  BY <1>1
<1>3. x - 1 \in S
  BY <1>1, <1>2
<1> QED
  BY <1>1, <1>2, <1>3

\* f begins with a and goes on by the functions of G.
Follows(f, A, a, n, G) ==
  /\ f \in [0..n -> A] /\ f[0] = a
  /\ \A i \in 1..n : f[i] = G[i][f[i - 1]]

\* What is determined step by step from a beginning exists.
LEMMA StepsExist ==
  ASSUME NEW A, NEW a \in A, NEW n \in Nat, NEW G,
         \A i \in 1..n : \A x \in A : G[i][x] \in A
  PROVE  \E f : Follows(f, A, a, n, G)
<1> DEFINE Good(f, m) == f[0] = a /\ \A i \in 1..n : i <= m => f[i] = G[i][f[i - 1]]
           S == {m \in Nat : \E f \in [0..n -> A] : Good(f, m)}
<1>1. 0 \in S
  <2>1. [i \in 0..n |-> a] \in [0..n -> A] /\ Good([i \in 0..n |-> a], 0)
    OBVIOUS
  <2> QED
    BY <2>1
<1>2. ASSUME NEW m \in Nat, m \in S PROVE m + 1 \in S
  <2>1. PICK f \in [0..n -> A] : Good(f, m)
    BY <1>2
  <2>2. CASE m + 1 > n
    <3>1. Good(f, m + 1)
      BY <2>1, <2>2
    <3> QED
      BY <3>1
  <2>3. CASE m + 1 <= n
    <3> DEFINE g == [f EXCEPT ![m + 1] = G[m + 1][f[m]]]
    <3>1. m \in 0..n /\ m + 1 \in 1..n /\ f[m] \in A
      BY <2>3
    <3>2. g \in [0..n -> A] /\ g[m + 1] = G[m + 1][f[m]]
      BY <3>1
    <3>3. \A i \in 0..n : i # m + 1 => g[i] = f[i]
      BY <3>1
    <3> HIDE DEF g
    <3>4. Good(g, m + 1)
      <4>1. g[0] = a
        BY <2>1, <3>3
      <4>2. ASSUME NEW i \in 1..n, i <= m + 1 PROVE g[i] = G[i][g[i - 1]]
        <5>1. i - 1 \in 0..n /\ i - 1 # m + 1 /\ g[i - 1] = f[i - 1]
          BY <3>3, <4>2
        <5>2. CASE i = m + 1
          BY <3>2, <5>1, <5>2
        <5>3. CASE i # m + 1
          BY <2>1, <3>3, <4>2, <5>1, <5>3
        <5> QED
          BY <5>2, <5>3
      <4> QED
        BY <4>1, <4>2
    <3> QED
      BY <3>2, <3>4
  <2> QED
    BY <2>2, <2>3
<1> HIDE DEF S
<1>3. n \in S
  BY <1>1, <1>2, FromZero
<1>4. PICK f \in [0..n -> A] : Good(f, n)
  BY <1>3 DEF S
<1>5. Follows(f, A, a, n, G)
  BY <1>4 DEF Follows
<1> QED
  BY <1>5
-----------------------------------------------------------------------------
\* The concatenation of chains grows by one chain at a time.
Growing(f, bs) == f[0] = << >> /\ \A b \in 1..Len(bs) : f[b] = f[b - 1] \o bs[b]

\* Appending the chains one by one gives what their concatenation does.
LEMMA FlatGrows ==
  ASSUME NEW S, NEW bs \in Seq(Seq(S))
  PROVE  \E f \in [0..Len(bs) -> Seq(S)] : Growing(f, bs) /\ FlattenSeq(bs) = f[Len(bs)]
<1> DEFINE L == Len(bs)
           G == [b \in 1..L |-> [s \in Seq(S) |-> s \o bs[b]]]
<1>1. L \in Nat /\ \A b \in 1..L : bs[b] \in Seq(S)
  OBVIOUS
<1>2. \A b \in 1..L : \A s \in Seq(S) : G[b][s] \in Seq(S)
  <2>1. ASSUME NEW b \in 1..L, NEW s \in Seq(S) PROVE s \o bs[b] \in Seq(S)
    BY <1>1, ConcatProperties
  <2> QED
    BY <2>1
<1>s. PICK f : Follows(f, Seq(S), << >>, L, G)
  <2>1. << >> \in Seq(S)
    OBVIOUS
  <2> HIDE DEF G, L
  <2> QED
    BY <1>1, <1>2, <2>1, StepsExist
<1>3. /\ f \in [0..L -> Seq(S)] /\ f[0] = << >>
      /\ \A b \in 1..L : f[b] = G[b][f[b - 1]]
  BY <1>s DEF Follows
<1>4. Growing(f, bs)
  <2>1. ASSUME NEW b \in 1..L PROVE f[b] = f[b - 1] \o bs[b]
    <3>1. b - 1 \in 0..L
      BY <1>1
    <3> QED
      BY <1>3, <3>1
  <2> QED
    BY <1>3, <2>1 DEF Growing
<1>g. f[0] = << >> /\ \A b \in 1..L : f[b] = f[b - 1] \o bs[b]
  BY <1>4 DEF Growing
<1> HIDE DEF G
<1>5. FlattenSeq(bs) = f[L]
  <2>1. CASE L = 0
    BY <1>3, <2>1 DEF FlattenSeq
  <2>2. CASE L # 0
    <3> DEFINE F(g) == [i \in 1..L |-> IF i = 1 THEN bs[i] ELSE g[i - 1] \o bs[i]]
               h == [i \in 1..L |-> f[i]]
               flatten == CHOOSE g : g = F(g)
    <3>1. ASSUME NEW i \in 1..L PROVE h[i] = IF i = 1 THEN bs[i] ELSE h[i - 1] \o bs[i]
      <4>1. CASE i = 1
        <5>1. f[i] = << >> \o bs[i] /\ bs[i] \in Seq(S)
          <6>1. f[i] = f[i - 1] \o bs[i]
            BY <1>g, Zenon
          <6>2. i - 1 = 0 /\ bs[i] \in Seq(S)
            BY <1>1, <4>1
          <6> QED
            BY <1>g, <6>1, <6>2
        <5>2. h[i] = bs[i]
          BY <5>1, ConcatEmptySeq
        <5> HIDE DEF h
        <5> QED
          BY <4>1, <5>2
      <4>2. CASE i # 1
        <5>1. i - 1 \in 1..L /\ f[i] = f[i - 1] \o bs[i]
          <6>1. f[i] = f[i - 1] \o bs[i]
            BY <1>g, Zenon
          <6>2. i - 1 \in 1..L
            <7> HIDE DEF L
            <7> QED
              BY <1>1, <4>2
          <6> QED
            BY <6>1, <6>2
        <5> QED
          BY <4>2, <5>1
      <4> QED
        BY <4>1, <4>2
    <3>2. h = F(h)
      BY <3>1
    <3>3. flatten = F(flatten)
      <4> HIDE DEF F, h
      <4> QED
        BY <3>2
    <3>4. FlattenSeq(bs) = flatten[L]
      BY <2>2 DEF FlattenSeq
    <3> HIDE DEF flatten
    <3>5. \A i \in 1..L : flatten[i] = IF i = 1 THEN bs[i] ELSE flatten[i - 1] \o bs[i]
      BY <3>3
    <3> DEFINE T == {n \in Nat : n + 1 <= L => flatten[n + 1] = f[n + 1]}
    <3>6. 0 \in T
      <4>1. 1 \in 1..L /\ 0 + 1 = 1
        BY <1>1, <2>2
      <4>2. flatten[1] = bs[1] /\ h[1] = bs[1] /\ h[1] = f[1]
        <5> HIDE DEF L
        <5> QED
          BY <3>5, <3>1, <4>1
      <4> QED
        BY <4>1, <4>2
    <3>7. ASSUME NEW n \in Nat, n \in T PROVE n + 1 \in T
      <4> SUFFICES ASSUME (n + 1) + 1 <= L PROVE flatten[(n + 1) + 1] = f[(n + 1) + 1]
        OBVIOUS
      <4>1. (n + 1) + 1 \in 1..L /\ (n + 1) + 1 # 1 /\ ((n + 1) + 1) - 1 = n + 1 /\ flatten[n + 1] = f[n + 1]
        BY <1>1, <3>7
      <4>2. flatten[(n + 1) + 1] = flatten[n + 1] \o bs[(n + 1) + 1]
        BY <4>1, <3>5
      <4>3. f[(n + 1) + 1] = f[n + 1] \o bs[(n + 1) + 1]
        BY <4>1, <1>g
      <4> QED
        BY <4>1, <4>2, <4>3
    <3> HIDE DEF T
    <3>8. L - 1 \in T
      <4>1. L - 1 \in Nat
        BY <1>1, <2>2
      <4>2. Nat \subseteq T
        BY <3>6, <3>7, FromZero
      <4> QED
        BY <4>1, <4>2
    <3> QED
      BY <1>1, <2>2, <3>4, <3>8 DEF T
  <2> QED
    BY <2>1, <2>2
<1> QED
  BY <1>3, <1>4, <1>5

\* Whatever grows so is the concatenation.
LEMMA FlatIs ==
  ASSUME NEW S, NEW bs \in Seq(Seq(S)), NEW f, Growing(f, bs)
  PROVE  FlattenSeq(bs) = f[Len(bs)]
<1>1. PICK g \in [0..Len(bs) -> Seq(S)] : Growing(g, bs) /\ FlattenSeq(bs) = g[Len(bs)]
  BY FlatGrows
<1> DEFINE L == Len(bs)
           T == {n \in Nat : n <= L => g[n] = f[n]}
<1>2. L \in Nat
  OBVIOUS
<1>3. 0 \in T
  BY <1>1 DEF Growing
<1>4. ASSUME NEW n \in Nat, n \in T PROVE n + 1 \in T
  <2>1. ASSUME n + 1 <= L PROVE g[n + 1] = f[n + 1]
    <3>1. n + 1 \in 1..L /\ (n + 1) - 1 = n /\ g[n] = f[n]
      BY <1>2, <1>4, <2>1
    <3> QED
      BY <1>1, <3>1 DEF Growing
  <2> QED
    BY <2>1
<1> HIDE DEF T
<1>5. L \in T
  BY <1>2, <1>3, <1>4, FromZero
<1> QED
  BY <1>1, <1>2, <1>5 DEF T

\* The elements of the first b chains.
Upto(bs, b) == FlattenSeq(SubSeq(bs, 1, b))

\* They grow by one chain at a time.
LEMMA UptoGrows ==
  ASSUME NEW S, NEW bs \in Seq(Seq(S))
  PROVE  /\ Upto(bs, 0) = << >>
         /\ \A b \in 0..Len(bs) : Upto(bs, b) \in Seq(S)
         /\ \A b \in 1..Len(bs) : Upto(bs, b) = Upto(bs, b - 1) \o bs[b]
         /\ Upto(bs, Len(bs)) = FlattenSeq(bs)
<1> DEFINE L == Len(bs)
<1>1. L \in Nat /\ \A b \in 1..L : bs[b] \in Seq(S)
  OBVIOUS
<1>2. PICK f \in [0..L -> Seq(S)] : Growing(f, bs) /\ FlattenSeq(bs) = f[L]
  BY FlatGrows
<1>3. f[0] = << >> /\ \A b \in 1..L : f[b] = f[b - 1] \o bs[b]
  BY <1>2 DEF Growing
<1> HIDE DEF L
<1>4. ASSUME NEW b \in 0..L PROVE Upto(bs, b) = f[b]
  <2> DEFINE c == SubSeq(bs, 1, b)
  <2>1. c \in Seq(Seq(S)) /\ Len(c) = b /\ \A i \in 1..b : c[i] = bs[i]
    <3> DEFINE A == Seq(S)
    <3>1. b \in Nat /\ 1 \in Int /\ b \in Int /\ \A i \in 1..b : bs[i] \in A
      BY <1>1
    <3> HIDE DEF A
    <3>2. /\ c \in Seq(A) /\ Len(c) = IF 1 <= b THEN b - 1 + 1 ELSE 0
          /\ \A i \in 1..(b - 1 + 1) : c[i] = bs[1 + i - 1]
      BY <3>1, SubSeqProperties
    <3> HIDE DEF c
    <3>3. Len(c) = b
      BY <3>1, <3>2
    <3>4. \A i \in 1..b : i \in 1..(b - 1 + 1) /\ 1 + i - 1 = i
      BY <3>1
    <3>5. \A i \in 1..b : c[i] = bs[i]
      BY <3>2, <3>4
    <3> QED
      BY <3>2, <3>3, <3>5 DEF A
  <2> HIDE DEF c
  <2>2. Growing(f, c)
    <3>1. \A i \in 1..b : i \in 1..L
      BY <1>1
    <3>2. \A i \in 1..b : f[i] = f[i - 1] \o c[i]
      BY <1>3, <2>1, <3>1
    <3> QED
      BY <1>3, <2>1, <3>2, Zenon DEF Growing
  <2>3. FlattenSeq(c) = f[b]
    BY <2>1, <2>2, FlatIs
  <2> QED
    BY <2>3 DEF Upto, c
<1>5. 0 \in 0..L /\ L \in 0..L /\ \A b \in 1..L : b \in 0..L /\ b - 1 \in 0..L
  BY <1>1
<1>6. ASSUME NEW b \in 1..L PROVE Upto(bs, b) = Upto(bs, b - 1) \o bs[b]
  BY <1>3, <1>4, <1>5
<1> QED
  BY <1>2, <1>3, <1>4, <1>5, <1>6 DEF L
-----------------------------------------------------------------------------
(***************************************************************************)
(* A place of the chains has a position in their concatenation: behind     *)
(* all that the chains before its own hold.                                *)
(***************************************************************************)
Before(bs, b) == Len(Upto(bs, b - 1))

\* Chains lie one behind the other.
LEMMA ChainsFollow ==
  ASSUME NEW S, NEW bs \in Seq(Seq(S))
  PROVE  /\ Before(bs, 1) = 0 /\ Before(bs, Len(bs) + 1) = Len(FlattenSeq(bs))
         /\ FlattenSeq(bs) \in Seq(S)
         /\ \A b \in 1..(Len(bs) + 1) : Before(bs, b) \in Nat
         /\ \A b \in 1..Len(bs) : Before(bs, b + 1) = Before(bs, b) + Len(bs[b])
         /\ \A b, c \in 1..(Len(bs) + 1) : b <= c => Before(bs, b) <= Before(bs, c)
<1> DEFINE L == Len(bs)
<1>1. L \in Nat /\ \A b \in 1..L : bs[b] \in Seq(S) /\ Len(bs[b]) \in Nat
  OBVIOUS
<1>2. /\ Upto(bs, 0) = << >> /\ \A b \in 0..L : Upto(bs, b) \in Seq(S)
      /\ \A b \in 1..L : Upto(bs, b) = Upto(bs, b - 1) \o bs[b]
      /\ Upto(bs, L) = FlattenSeq(bs)
  BY UptoGrows
<1> HIDE DEF L
<1>3. \A b \in 0..L : Len(Upto(bs, b)) \in Nat
  BY <1>2
<1>4. \A b \in 1..(L + 1) : b - 1 \in 0..L /\ Before(bs, b) \in Nat
  BY <1>1, <1>3 DEF Before
<1>5. ASSUME NEW b \in 1..L PROVE Before(bs, b + 1) = Before(bs, b) + Len(bs[b])
  <2>1. (b + 1) - 1 = b /\ b - 1 \in 0..L /\ b \in 0..L
    BY <1>1
  <2>2. Len(Upto(bs, b - 1) \o bs[b]) = Len(Upto(bs, b - 1)) + Len(bs[b])
    BY <1>1, <1>2, <2>1, ConcatProperties
  <2> QED
    BY <1>2, <2>1, <2>2 DEF Before
<1>6. Before(bs, 1) = 0 /\ Before(bs, L + 1) = Len(FlattenSeq(bs))
  <2>1. 1 - 1 = 0 /\ (L + 1) - 1 = L /\ Len(<< >>) = 0
    BY <1>1
  <2> QED
    BY <1>2, <2>1 DEF Before
<1> DEFINE T == {n \in Nat : \A b \in 1..(L + 1) : b + n <= L + 1 => Before(bs, b) <= Before(bs, b + n)}
<1>7. 0 \in T
  BY <1>4
<1>8. ASSUME NEW n \in Nat, n \in T PROVE n + 1 \in T
  <2> SUFFICES ASSUME NEW b \in 1..(L + 1), b + (n + 1) <= L + 1
               PROVE  Before(bs, b) <= Before(bs, b + (n + 1))
    OBVIOUS
  <2>1. b + n \in 1..L /\ b + n \in 1..(L + 1) /\ (b + n) + 1 = b + (n + 1) /\ b + n <= L + 1
    BY <1>1
  <2>2. Before(bs, b) <= Before(bs, b + n)
    BY <1>8, <2>1
  <2>3. Before(bs, b + (n + 1)) = Before(bs, b + n) + Len(bs[b + n])
    BY <1>5, <2>1
  <2> HIDE DEF T
  <2> QED
    BY <1>1, <1>4, <2>1, <2>2, <2>3
<1> HIDE DEF T
<1>9. Nat \subseteq T
  BY <1>7, <1>8, FromZero
<1>10. ASSUME NEW b \in 1..(L + 1), NEW c \in 1..(L + 1), b <= c PROVE Before(bs, b) <= Before(bs, c)
  <2>1. c - b \in Nat /\ b + (c - b) = c /\ c <= L + 1
    BY <1>1, <1>10
  <2>2. c - b \in T
    BY <1>9, <2>1
  <2> QED
    BY <2>1, <2>2 DEF T
<1>11. FlattenSeq(bs) \in Seq(S)
  BY <1>1, <1>2
<1> QED
  BY <1>4, <1>5, <1>6, <1>10, <1>11 DEF L

\* Every place is found at its position, and every position has a place.
LEMMA PlacesLie ==
  ASSUME NEW S, NEW bs \in Seq(Seq(S))
  PROVE  /\ \A b \in 1..Len(bs) : \A i \in 1..Len(bs[b]) :
              /\ Before(bs, b) + i \in 1..Len(FlattenSeq(bs))
              /\ FlattenSeq(bs)[Before(bs, b) + i] = bs[b][i]
         /\ \A p \in 1..Len(FlattenSeq(bs)) :
              \E b \in 1..Len(bs) : \E i \in 1..Len(bs[b]) : p = Before(bs, b) + i
<1> DEFINE L == Len(bs)
           U(b) == Upto(bs, b)
<1>1. L \in Nat /\ \A b \in 1..L : bs[b] \in Seq(S) /\ Len(bs[b]) \in Nat
  OBVIOUS
<1>u. /\ U(0) = << >> /\ \A b \in 0..L : U(b) \in Seq(S)
      /\ \A b \in 1..L : U(b) = U(b - 1) \o bs[b]
      /\ U(L) = FlattenSeq(bs)
  BY UptoGrows
<1>3. /\ \A b \in 1..(L + 1) : Before(bs, b) \in Nat
      /\ \A b \in 1..L : Before(bs, b + 1) = Before(bs, b) + Len(bs[b])
  BY ChainsFollow
<1> HIDE DEF L
<1>4. \A b \in 1..(L + 1) : Before(bs, b) = Len(U(b - 1))
  BY DEF Before
<1> HIDE DEF U
<1>2. /\ U(0) = << >> /\ \A b \in 0..L : U(b) \in Seq(S) /\ Len(U(b)) \in Nat
      /\ \A b \in 1..L : U(b) = U(b - 1) \o bs[b]
      /\ U(L) = FlattenSeq(bs)
  <2>1. ASSUME NEW b \in 0..L PROVE Len(U(b)) \in Nat
    <3>1. U(b) \in Seq(S)
      BY <1>u
    <3> QED
      BY <3>1
  <2> QED
    BY <1>u, <2>1
<1> DEFINE Lies(n) == /\ \A b \in 1..n : \A i \in 1..Len(bs[b]) :
                           /\ Before(bs, b) + i \in 1..Len(U(n))
                           /\ U(n)[Before(bs, b) + i] = bs[b][i]
                      /\ \A p \in 1..Len(U(n)) :
                           \E b \in 1..n : \E i \in 1..Len(bs[b]) : p = Before(bs, b) + i
           T == {n \in Nat : n <= L => Lies(n)}
<1>5. 0 \in T
  <2>1. Len(U(0)) = 0
    BY <1>2
  <2> QED
    BY <2>1
<1>6. ASSUME NEW n \in Nat, n \in T PROVE n + 1 \in T
  <2> SUFFICES ASSUME n + 1 <= L PROVE Lies(n + 1)
    OBVIOUS
  <2> DEFINE c == bs[n + 1]
  <2>1. /\ n + 1 \in 1..L /\ n \in 0..L /\ n + 1 \in 0..L /\ (n + 1) - 1 = n
        /\ n + 1 \in 1..(L + 1) /\ n <= L
    BY <1>1
  <2>2. c \in Seq(S) /\ Len(c) \in Nat /\ U(n) \in Seq(S) /\ Len(U(n)) \in Nat
    BY <1>1, <1>2, <2>1
  <2>3. U(n + 1) = U(n) \o c /\ Before(bs, n + 1) = Len(U(n))
    BY <1>2, <1>4, <2>1
  <2>l. Lies(n)
    BY <1>6, <2>1
  <2> HIDE DEF c
  <2>4. /\ Len(U(n + 1)) = Len(U(n)) + Len(c)
        /\ \A i \in 1..(Len(U(n)) + Len(c)) :
             U(n + 1)[i] = IF i <= Len(U(n)) THEN U(n)[i] ELSE c[i - Len(U(n))]
    BY <2>2, <2>3, ConcatProperties
  <2>5. ASSUME NEW b \in 1..(n + 1), NEW i \in 1..Len(bs[b])
        PROVE  /\ Before(bs, b) + i \in 1..Len(U(n + 1))
               /\ U(n + 1)[Before(bs, b) + i] = bs[b][i]
    <3>1. CASE b = n + 1
      <4>1. bs[b] = c /\ i \in 1..Len(c)
        BY <3>1 DEF c
      <4>2. Before(bs, b) + i = Len(U(n)) + i
        BY <2>3, <3>1
      <4>3. /\ Len(U(n)) + i \in 1..(Len(U(n)) + Len(c)) /\ ~(Len(U(n)) + i <= Len(U(n)))
            /\ (Len(U(n)) + i) - Len(U(n)) = i
        BY <2>2, <4>1
      <4> QED
        BY <2>4, <4>1, <4>2, <4>3
    <3>2. CASE b # n + 1
      <4>1. b \in 1..n
        BY <3>2
      <4> DEFINE p == Before(bs, b) + i
      <4>2. p \in 1..Len(U(n)) /\ U(n)[p] = bs[b][i]
        BY <2>l, <4>1
      <4> HIDE DEF p
      <4>3. p \in 1..(Len(U(n)) + Len(c)) /\ p <= Len(U(n))
        BY <2>2, <4>2
      <4>4. U(n + 1)[p] = bs[b][i] /\ p \in 1..Len(U(n + 1))
        BY <2>4, <4>2, <4>3
      <4> QED
        BY <4>4 DEF p
    <3> QED
      BY <3>1, <3>2
  <2>6. ASSUME NEW p \in 1..Len(U(n + 1))
        PROVE  \E b \in 1..(n + 1) : \E i \in 1..Len(bs[b]) : p = Before(bs, b) + i
    <3>1. CASE p <= Len(U(n))
      <4>1. p \in 1..Len(U(n))
        BY <2>2, <2>4, <3>1
      <4>2. PICK b \in 1..n : \E i \in 1..Len(bs[b]) : p = Before(bs, b) + i
        BY <2>l, <4>1
      <4>3. b \in 1..(n + 1)
        BY <2>1
      <4> QED
        BY <4>2, <4>3
    <3>2. CASE ~(p <= Len(U(n)))
      <4> DEFINE i == p - Len(U(n))
      <4>1. i \in 1..Len(c) /\ p = Len(U(n)) + i
        BY <2>2, <2>4, <3>2
      <4> HIDE DEF i
      <4>2. i \in 1..Len(bs[n + 1])
        BY <4>1 DEF c
      <4>3. p = Before(bs, n + 1) + i
        BY <2>3, <4>1
      <4>4. n + 1 \in 1..(n + 1)
        OBVIOUS
      <4> QED
        BY <4>2, <4>3, <4>4
    <3> QED
      BY <3>1, <3>2
  <2> QED
    BY <2>5, <2>6
<1> HIDE DEF T, Lies
<1>7. L \in T
  BY <1>1, <1>5, <1>6, FromZero
<1>8. Lies(L)
  BY <1>1, <1>7 DEF T
<1> QED
  BY <1>2, <1>8 DEF Lies, L
-----------------------------------------------------------------------------
(***************************************************************************)
(* Iterators: the position of one is that of the element it points at, or  *)
(* one behind the last.                                                    *)
(***************************************************************************)
Chains == Seq(Seq(Elem))

Pos(bs, it) ==
  IF it = End THEN Len(FlattenSeq(bs)) + 1 ELSE Before(bs, it[1]) + it[2]

Iterators(bs) == Places(bs) \cup {End}

\* Every element lies in the bucket its key hashes to.
Housed(bs) ==
  \A b \in 1..Len(bs) : \A i \in 1..Len(bs[b]) : BktNum(bs[b][i].key, Len(bs)) = b

\* The places of an iteration are those of the chains, and no place is End.
LEMMA PlacesAre ==
  ASSUME NEW bs \in Chains
  PROVE  /\ \A b \in 1..Len(bs) : \A i \in 1..Len(bs[b]) : <<b, i>> \in Places(bs)
         /\ \A it \in Places(bs) :
              it[1] \in 1..Len(bs) /\ it[2] \in 1..Len(bs[it[1]]) /\ it = <<it[1], it[2]>> /\ it # End
<1>1. DOMAIN bs = 1..Len(bs) /\ \A b \in 1..Len(bs) : DOMAIN bs[b] = 1..Len(bs[b])
  <2>1. bs \in Seq(Seq(Elem))
    BY DEF Chains
  <2>2. \A b \in 1..Len(bs) : bs[b] \in Seq(Elem)
    BY <2>1
  <2> QED
    BY <2>1, <2>2
<1>2. ASSUME NEW b \in 1..Len(bs), NEW i \in 1..Len(bs[b]) PROVE <<b, i>> \in Places(bs)
  BY <1>1 DEF Places
<1>3. ASSUME NEW it \in Places(bs)
      PROVE  it[1] \in 1..Len(bs) /\ it[2] \in 1..Len(bs[it[1]]) /\ it = <<it[1], it[2]>> /\ it # End
  <2>1. PICK b \in DOMAIN bs : it \in {<<b, i>> : i \in DOMAIN bs[b]}
    BY DEF Places
  <2>2. PICK i \in DOMAIN bs[b] : it = <<b, i>>
    BY <2>1
  <2>3. it[1] = b /\ it[2] = i /\ b \in 1..Len(bs) /\ i \in 1..Len(bs[b])
    BY <1>1, <2>2
  <2>4. it # End
    BY <2>2, <2>3 DEF End
  <2> QED
    BY <2>2, <2>3, <2>4
<1> QED
  BY <1>2, <1>3

\* Positions are those of the concatenation, in its order, and no two
\* iterators have the same.
LEMMA PositionsLie ==
  ASSUME NEW bs \in Chains
  PROVE  /\ FlattenSeq(bs) \in Seq(Elem)
         /\ \A it \in Places(bs) : /\ Pos(bs, it) \in 1..Len(FlattenSeq(bs))
                                   /\ Pos(bs, it) = Before(bs, it[1]) + it[2]
                                   /\ FlattenSeq(bs)[Pos(bs, it)] = NodeAt(bs, it)
         /\ Pos(bs, End) = Len(FlattenSeq(bs)) + 1
         /\ \A it, jt \in Places(bs) : it[1] < jt[1] => Pos(bs, it) < Pos(bs, jt)
         /\ \A it, jt \in Iterators(bs) : Pos(bs, it) = Pos(bs, jt) => it = jt
<1> DEFINE L == Len(bs)
           flat == FlattenSeq(bs)
<1>0. bs \in Seq(Seq(Elem))
  BY DEF Chains
<1>1. L \in Nat /\ \A b \in 1..L : Len(bs[b]) \in Nat
  <2>1. \A b \in 1..L : bs[b] \in Seq(Elem)
    BY <1>0
  <2> QED
    BY <1>0, <2>1
<1>2. /\ flat \in Seq(Elem)
      /\ \A b \in 1..(L + 1) : Before(bs, b) \in Nat
      /\ \A b \in 1..L : Before(bs, b + 1) = Before(bs, b) + Len(bs[b])
      /\ \A b, c \in 1..(L + 1) : b <= c => Before(bs, b) <= Before(bs, c)
  BY <1>0, ChainsFollow
<1>3. \A b \in 1..L : \A i \in 1..Len(bs[b]) :
        Before(bs, b) + i \in 1..Len(flat) /\ flat[Before(bs, b) + i] = bs[b][i]
  BY <1>0, PlacesLie
<1>4. Len(flat) \in Nat
  BY <1>2
<1>5. \A it \in Places(bs) :
        it[1] \in 1..L /\ it[2] \in 1..Len(bs[it[1]]) /\ it = <<it[1], it[2]>> /\ it # End
  BY PlacesAre
<1> HIDE DEF L, flat
<1>6. \A it \in Places(bs) : /\ Pos(bs, it) \in 1..Len(flat)
                             /\ Pos(bs, it) = Before(bs, it[1]) + it[2]
                             /\ flat[Pos(bs, it)] = NodeAt(bs, it)
  BY <1>3, <1>5 DEF Pos, NodeAt
<1>7. Pos(bs, End) = Len(flat) + 1
  BY DEF Pos, flat
<1>8. ASSUME NEW it \in Places(bs), NEW jt \in Places(bs), it[1] < jt[1]
      PROVE  Pos(bs, it) < Pos(bs, jt)
  <2> DEFINE b == it[1]
             c == jt[1]
  <2>1. b \in 1..L /\ c \in 1..L /\ it[2] \in 1..Len(bs[b]) /\ jt[2] \in 1..Len(bs[c]) /\ b < c
    BY <1>5, <1>8
  <2>2. Pos(bs, it) = Before(bs, b) + it[2] /\ Pos(bs, jt) = Before(bs, c) + jt[2]
    BY <1>6
  <2> HIDE DEF b, c
  <2>3. b + 1 \in 1..(L + 1) /\ c \in 1..(L + 1) /\ b \in 1..(L + 1) /\ b + 1 <= c
    BY <1>1, <2>1
  <2>4. Before(bs, b + 1) = Before(bs, b) + Len(bs[b]) /\ Before(bs, b + 1) <= Before(bs, c)
    BY <1>2, <2>1, <2>3
  <2>5. Before(bs, b) \in Nat /\ Before(bs, c) \in Nat /\ Len(bs[b]) \in Nat
    BY <1>1, <1>2, <2>1, <2>3
  <2>6. it[2] \in Nat /\ it[2] <= Len(bs[b]) /\ jt[2] \in Nat /\ jt[2] >= 1
    BY <2>1, <2>5
  <2> QED
    BY <2>2, <2>4, <2>5, <2>6
<1>9. ASSUME NEW it \in Places(bs), NEW jt \in Places(bs), Pos(bs, it) = Pos(bs, jt)
      PROVE  it = jt
  <2>1. it[1] \in Nat /\ jt[1] \in Nat /\ it[2] \in Nat /\ jt[2] \in Nat
    <3>1. it[1] \in 1..L /\ jt[1] \in 1..L
      BY <1>5
    <3>2. it[2] \in 1..Len(bs[it[1]]) /\ jt[2] \in 1..Len(bs[jt[1]])
      BY <1>5
    <3> QED
      BY <3>1, <3>2
  <2>2. ~(it[1] < jt[1]) /\ ~(jt[1] < it[1])
    <3>1. Pos(bs, it) \in Nat /\ Pos(bs, jt) \in Nat
      BY <1>6
    <3> QED
      BY <1>8, <1>9, <3>1
  <2>3. it[1] = jt[1]
    BY <2>1, <2>2
  <2>4. Before(bs, it[1]) \in Nat
    BY <1>1, <1>2, <1>5
  <2>5. it[2] = jt[2]
    BY <1>6, <1>9, <2>1, <2>3, <2>4
  <2> QED
    BY <1>5, <2>3, <2>5
<1>10. ASSUME NEW it \in Iterators(bs), NEW jt \in Iterators(bs), Pos(bs, it) = Pos(bs, jt)
       PROVE  it = jt
  <2>1. \A kt \in Places(bs) : Pos(bs, kt) # Len(flat) + 1
    BY <1>4, <1>6
  <2> QED
    BY <1>7, <1>9, <1>10, <2>1 DEF Iterators
<1> QED
  BY <1>2, <1>6, <1>7, <1>8, <1>10 DEF flat

\* Empty chains hold no position.
LEMMA HollowChains ==
  ASSUME NEW bs \in Chains, NEW b \in 1..(Len(bs) + 1), NEW c \in 1..(Len(bs) + 1), b <= c,
         \A n \in 1..Len(bs) : b <= n /\ n < c => bs[n] = << >>
  PROVE  Before(bs, c) = Before(bs, b)
<1> DEFINE L == Len(bs)
           T == {n \in Nat : b + n <= c => Before(bs, b + n) = Before(bs, b)}
<1>1. L \in Nat /\ \A n \in 1..L : Before(bs, n + 1) = Before(bs, n) + Len(bs[n])
  <2>1. bs \in Seq(Seq(Elem))
    BY DEF Chains
  <2> QED
    BY <2>1, ChainsFollow
<1>2. \A n \in 1..(L + 1) : Before(bs, n) \in Nat
  <2>1. bs \in Seq(Seq(Elem))
    BY DEF Chains
  <2> QED
    BY <2>1, ChainsFollow
<1> HIDE DEF L
<1>3. b \in 1..(L + 1) /\ c \in 1..(L + 1)
  BY DEF L
<1>4. \A n \in 1..L : b <= n /\ n < c => bs[n] = << >>
  BY DEF L
<1>5. 0 \in T
  BY <1>1, <1>3
<1>6. ASSUME NEW n \in Nat, n \in T PROVE n + 1 \in T
  <2> SUFFICES ASSUME b + (n + 1) <= c PROVE Before(bs, b + (n + 1)) = Before(bs, b)
    OBVIOUS
  <2>1. /\ b + n \in 1..L /\ b + n \in 1..(L + 1) /\ (b + n) + 1 = b + (n + 1)
        /\ b <= b + n /\ b + n < c /\ b + n <= c
    BY <1>1, <1>3
  <2>2. Before(bs, b + n) = Before(bs, b) /\ bs[b + n] = << >>
    BY <1>4, <1>6, <2>1
  <2>3. Before(bs, b + (n + 1)) = Before(bs, b + n) + Len(bs[b + n]) /\ Before(bs, b) \in Nat
    BY <1>1, <1>2, <1>3, <2>1
  <2> QED
    BY <2>2, <2>3
<1> HIDE DEF T
<1>7. c - b \in T /\ b + (c - b) = c
  <2>1. c - b \in Nat /\ b + (c - b) = c
    BY <1>1, <1>3
  <2>2. Nat \subseteq T
    BY <1>5, <1>6, FromZero
  <2> QED
    BY <2>1, <2>2
<1> QED
  BY <1>7, <1>1, <1>3 DEF T

\* The first place from a bucket on is behind all before the bucket.
LEMMA FirstFromLies ==
  ASSUME NEW bs \in Chains, NEW b \in 1..(Len(bs) + 1)
  PROVE  FirstFrom(bs, b) \in Iterators(bs) /\ Pos(bs, FirstFrom(bs, b)) = Before(bs, b) + 1
<1> DEFINE L == Len(bs)
           full == {n \in b..L : bs[n] # << >>}
<1>1. L \in Nat /\ b \in 1..(L + 1) /\ \A n \in 1..L : bs[n] \in Seq(Elem)
  BY DEF Chains
<1>2. Before(bs, L + 1) = Len(FlattenSeq(bs))
  <2>1. bs \in Seq(Seq(Elem))
    BY DEF Chains
  <2> QED
    BY <2>1, ChainsFollow
<1>3. FirstFrom(bs, b) = IF full = {} THEN End ELSE <<Min(full), 1>>
  BY DEF FirstFrom
<1>4. CASE full = {}
  <2>1. \A n \in 1..L : b <= n /\ n < L + 1 => bs[n] = << >>
    BY <1>1, <1>4
  <2>2. Before(bs, L + 1) = Before(bs, b)
    <3>1. L + 1 \in 1..(Len(bs) + 1) /\ b <= L + 1
      BY <1>1
    <3> QED
      BY <2>1, <3>1, HollowChains
  <2> QED
    BY <1>2, <1>3, <1>4, <2>2, PositionsLie DEF Iterators
<1>5. CASE full # {}
  <2> DEFINE n == Min(full)
  <2>1. n \in full /\ \A m \in full : n <= m
    <3>1. full \in SUBSET Nat
      BY <1>1
    <3> HIDE DEF full
    <3> QED
      BY <1>5, <3>1, Least
  <2> HIDE DEF n
  <2>2. n \in 1..L /\ b <= n /\ bs[n] # << >>
    BY <1>1, <2>1
  <2>3. \A m \in 1..L : b <= m /\ m < n => bs[m] = << >>
    BY <1>1, <2>1, <2>2
  <2>4. Before(bs, n) = Before(bs, b)
    <3>1. n \in 1..(Len(bs) + 1)
      BY <1>1, <2>2
    <3> QED
      BY <2>2, <2>3, <3>1, HollowChains
  <2>5. 1 \in 1..Len(bs[n])
    BY <1>1, <2>2
  <2>6. <<n, 1>> \in Places(bs)
    BY <2>2, <2>5, PlacesAre
  <2>7. Pos(bs, <<n, 1>>) = Before(bs, n) + 1
    BY <2>6, PositionsLie
  <2>8. FirstFrom(bs, b) = <<n, 1>>
    BY <1>3, <1>5 DEF n
  <2> QED
    BY <2>4, <2>6, <2>7, <2>8 DEF Iterators
<1> QED
  BY <1>4, <1>5

\* ++ goes on to the next position: the bucket that is computed from the
\* element is its own.
LEMMA SuccLies ==
  ASSUME NEW bs \in Chains, Housed(bs), NEW it \in Places(bs)
  PROVE  Succ(bs, it) \in Iterators(bs) /\ Pos(bs, Succ(bs, it)) = Pos(bs, it) + 1
<1> DEFINE b == it[1]
           i == it[2]
<1>1. b \in 1..Len(bs) /\ i \in 1..Len(bs[b]) /\ it = <<b, i>>
  BY PlacesAre
<1>2. Pos(bs, it) = Before(bs, b) + i
  BY PositionsLie
<1>3. Len(bs) \in Nat /\ Len(bs[b]) \in Nat
  <2>1. bs[b] \in Seq(Elem)
    BY <1>1 DEF Chains
  <2> QED
    BY <2>1 DEF Chains
<1>4. BktNum(NodeAt(bs, it).key, Len(bs)) = b
  BY <1>1 DEF Housed, NodeAt
<1>5. Before(bs, b) \in Nat /\ Before(bs, b + 1) = Before(bs, b) + Len(bs[b])
  <2>1. bs \in Seq(Seq(Elem)) /\ b \in 1..(Len(bs) + 1)
    BY <1>1, <1>3 DEF Chains
  <2> QED
    BY <1>1, <2>1, ChainsFollow
<1>6. Succ(bs, it) = IF i < Len(bs[b]) THEN <<b, i + 1>> ELSE FirstFrom(bs, b + 1)
  BY <1>4 DEF Succ
<1> HIDE DEF b, i
<1>7. CASE i < Len(bs[b])
  <2>1. i + 1 \in 1..Len(bs[b])
    BY <1>1, <1>3, <1>7
  <2>2. <<b, i + 1>> \in Places(bs)
    BY <1>1, <2>1, PlacesAre
  <2>3. Pos(bs, <<b, i + 1>>) = Before(bs, b) + (i + 1)
    BY <2>2, PositionsLie
  <2> QED
    BY <1>1, <1>2, <1>3, <1>5, <1>6, <1>7, <2>2, <2>3 DEF Iterators
<1>8. CASE ~(i < Len(bs[b]))
  <2>1. i = Len(bs[b])
    BY <1>1, <1>3, <1>8
  <2>2. b + 1 \in 1..(Len(bs) + 1)
    BY <1>1, <1>3
  <2>3. FirstFrom(bs, b + 1) \in Iterators(bs) /\ Pos(bs, FirstFrom(bs, b + 1)) = Before(bs, b + 1) + 1
    BY <2>2, FirstFromLies
  <2> QED
    BY <1>2, <1>3, <1>5, <1>6, <1>8, <2>1, <2>3
<1> QED
  BY <1>7, <1>8
\* What an iteration up to last meets from a place on, if f is what it meets
\* from the next.
Met(bs, last, f, it) ==
  IF it = last \/ it = End THEN << >> ELSE <<NodeAt(bs, it)>> \o f[Succ(bs, it)]

\* An iteration meets what lies between the positions.
LEMMA BetweenReads ==
  ASSUME NEW bs \in Chains, Housed(bs), NEW first \in Iterators(bs), NEW last \in Iterators(bs),
         Pos(bs, first) <= Pos(bs, last)
  PROVE  Between(bs, first, last) = SubSeq(FlattenSeq(bs), Pos(bs, first), Pos(bs, last) - 1)
<1> DEFINE flat == FlattenSeq(bs)
           L == Len(flat)
           I == Iterators(bs)
           pos(it) == Pos(bs, it)
           stop(it) == IF pos(it) <= pos(last) THEN pos(last) - 1 ELSE L
           g == [it \in I |-> SubSeq(flat, pos(it), stop(it))]
           from == CHOOSE f : f = [it \in I |-> Met(bs, last, f, it)]
<1>1. flat \in Seq(Elem) /\ L \in Nat
  <2>1. flat \in Seq(Elem)
    BY PositionsLie
  <2> QED
    BY <2>1
<1>2. /\ \A it \in Places(bs) : pos(it) \in 1..L /\ flat[pos(it)] = NodeAt(bs, it)
      /\ pos(End) = L + 1
      /\ \A it, jt \in I : pos(it) = pos(jt) => it = jt
  BY PositionsLie
<1>3. \A it \in Places(bs) : Succ(bs, it) \in I /\ pos(Succ(bs, it)) = pos(it) + 1
  BY SuccLies
<1>4. I = Places(bs) \cup {End} /\ last \in I /\ first \in I /\ pos(first) <= pos(last)
  BY DEF Iterators
<1>5. Between(bs, first, last) = from[first]
  BY DEF Between, Met, Iterators
<1> HIDE DEF flat, L, I, pos, from
<1>6. \A it \in I : pos(it) \in 1..(L + 1) /\ (pos(it) = L + 1 => it = End)
  BY <1>1, <1>2, <1>4
<1>7. ASSUME NEW it \in I PROVE g[it] = Met(bs, last, g, it)
  <2>1. g[it] = SubSeq(flat, pos(it), stop(it))
    OBVIOUS
  <2>2. CASE it = last \/ it = End
    <3>1. stop(it) < pos(it) /\ stop(it) \in Int /\ pos(it) \in Int
      BY <1>1, <1>2, <1>4, <1>6, <2>2
    <3>2. SubSeq(flat, pos(it), stop(it)) = << >>
      <4> HIDE DEF stop
      <4> QED
        BY <3>1, SubSeqEmpty
    <3> HIDE DEF g
    <3> QED
      BY <2>1, <2>2, <3>2 DEF Met
  <2>3. CASE it # last /\ it # End
    <3>1. it \in Places(bs)
      BY <1>4, <2>3
    <3> DEFINE jt == Succ(bs, it)
    <3>2. jt \in I /\ pos(jt) = pos(it) + 1 /\ pos(it) \in 1..L /\ flat[pos(it)] = NodeAt(bs, it)
      BY <1>2, <1>3, <3>1
    <3> HIDE DEF jt
    <3>3. pos(it) # pos(last) /\ pos(last) \in 1..(L + 1)
      BY <1>2, <1>4, <1>6, <2>3
    <3>4. stop(jt) = stop(it) /\ stop(it) \in pos(it)..L
      BY <1>1, <3>2, <3>3
    <3>5. g[jt] = SubSeq(flat, pos(jt), stop(jt))
      BY <3>2
    <3> HIDE DEF stop, g
    <3>6. SubSeq(flat, pos(it), stop(it)) = <<flat[pos(it)]>> \o SubSeq(flat, pos(it) + 1, stop(it))
      <4> DEFINE m == pos(it)
                 n == stop(it)
      <4>1. m \in 1..Len(flat) /\ n \in m..Len(flat)
        BY <3>2, <3>4 DEF L
      <4> HIDE DEF m, n
      <4>2. SubSeq(flat, m, n) = <<flat[m]>> \o SubSeq(flat, m + 1, n)
        BY <1>1, <4>1, SubSeqRecursiveFirst
      <4> QED
        BY <4>2 DEF m, n
    <3>7. g[it] = <<NodeAt(bs, it)>> \o g[jt]
      BY <2>1, <3>2, <3>4, <3>5, <3>6
    <3> QED
      BY <2>3, <3>7 DEF Met, jt
  <2> QED
    BY <2>2, <2>3
<1>8. g = [it \in I |-> Met(bs, last, g, it)]
  <2>1. g = [it \in I |-> g[it]]
    OBVIOUS
  <2> HIDE DEF g
  <2> QED
    BY <1>7, <2>1
<1>9. \A it \in I : from[it] = Met(bs, last, from, it)
  <2>1. from = [it \in I |-> Met(bs, last, from, it)]
    <3> HIDE DEF g
    <3> QED
      BY <1>8 DEF from
  <2> QED
    BY <2>1
<1> DEFINE T == {n \in Nat : \A it \in I : pos(it) + n = L + 1 => from[it] = g[it]}
<1>g. g[first] = SubSeq(flat, pos(first), pos(last) - 1)
  BY <1>4
<1> HIDE DEF g
<1>10. 0 \in T
  <2> SUFFICES ASSUME NEW it \in I, pos(it) + 0 = L + 1 PROVE from[it] = g[it]
    OBVIOUS
  <2>1. it = End
    BY <1>1, <1>6
  <2> QED
    BY <1>7, <1>9, <2>1 DEF Met
<1>11. ASSUME NEW n \in Nat, n \in T PROVE n + 1 \in T
  <2> SUFFICES ASSUME NEW it \in I, pos(it) + (n + 1) = L + 1 PROVE from[it] = g[it]
    OBVIOUS
  <2>1. CASE it = End
    BY <1>7, <1>9, <2>1 DEF Met
  <2>2. CASE it # End
    <3>1. it \in Places(bs)
      BY <1>4, <2>2
    <3>2. Succ(bs, it) \in I /\ pos(Succ(bs, it)) + n = L + 1
      <4>1. Succ(bs, it) \in I /\ pos(Succ(bs, it)) = pos(it) + 1 /\ pos(it) \in 1..L
        BY <1>2, <1>3, <3>1
      <4> QED
        BY <1>1, <4>1
    <3>3. from[Succ(bs, it)] = g[Succ(bs, it)]
      BY <1>11, <3>2
    <3> HIDE DEF T
    <3>4. Met(bs, last, from, it) = Met(bs, last, g, it)
      BY <3>3 DEF Met
    <3> QED
      BY <1>7, <1>9, <3>4
  <2> QED
    BY <2>1, <2>2
<1> HIDE DEF T
<1>12. from[first] = g[first]
  <2>1. L + 1 - pos(first) \in Nat /\ pos(first) + (L + 1 - pos(first)) = L + 1
    BY <1>1, <1>4, <1>6
  <2>2. L + 1 - pos(first) \in T
    <3>1. Nat \subseteq T
      BY <1>10, <1>11, FromZero
    <3> QED
      BY <2>1, <3>1
  <2> QED
    BY <1>4, <2>1, <2>2 DEF T
<1> QED
  BY <1>5, <1>12, <1>g DEF flat, pos
-----------------------------------------------------------------------------
(***************************************************************************)
(* Elements by their keys.                                                 *)
(***************************************************************************)
\* What is kept of the first i elements, if f is what is kept of fewer.
Kept(s, K, f, i) ==
  IF i = 0 THEN << >> ELSE IF s[i].key \in K THEN Append(f[i - 1], s[i]) ELSE f[i - 1]

\* A function that keeps as Keeping does is what Keeping keeps.
LEMMA KeepingIs ==
  ASSUME NEW s \in Seq(Elem), NEW K, NEW g, g = [i \in 0..Len(s) |-> Kept(s, K, g, i)]
  PROVE  Keeping(s, K) = g[Len(s)]
<1> DEFINE n == Len(s)
           kept == CHOOSE f : f = [i \in 0..n |-> Kept(s, K, f, i)]
<1>1. n \in Nat
  OBVIOUS
<1>2. Keeping(s, K) = kept[n]
  BY DEF Keeping, Kept
<1>3. kept = [i \in 0..n |-> Kept(s, K, kept, i)]
  OBVIOUS
<1> HIDE DEF kept, n
<1>4. /\ \A i \in 0..n : kept[i] = Kept(s, K, kept, i)
      /\ \A i \in 0..n : g[i] = Kept(s, K, g, i)
  BY <1>3 DEF n
<1> DEFINE T == {i \in Nat : i <= n => kept[i] = g[i]}
<1>5. 0 \in T
  BY <1>1, <1>4 DEF Kept
<1>6. ASSUME NEW i \in Nat, i \in T PROVE i + 1 \in T
  <2> SUFFICES ASSUME i + 1 <= n PROVE kept[i + 1] = g[i + 1]
    OBVIOUS
  <2>1. i + 1 \in 0..n /\ i + 1 # 0 /\ (i + 1) - 1 = i /\ kept[i] = g[i]
    BY <1>1, <1>6
  <2> HIDE DEF T
  <2>2. kept[(i + 1) - 1] = g[(i + 1) - 1]
    BY <2>1
  <2>3. Kept(s, K, kept, i + 1) = Kept(s, K, g, i + 1)
    BY <2>2 DEF Kept
  <2> QED
    BY <1>4, <2>1, <2>3
<1> HIDE DEF T
<1>7. n \in T
  BY <1>1, <1>5, <1>6, FromZero
<1> QED
  BY <1>1, <1>2, <1>7 DEF T, n

\* If those with the keys stand side by side, they are what is kept.
LEMMA KeepingRange ==
  ASSUME NEW s \in Seq(Elem), NEW K, NEW p \in 1..(Len(s) + 1), NEW q \in 1..(Len(s) + 1), p <= q,
         \A i \in 1..Len(s) : s[i].key \in K <=> p <= i /\ i < q
  PROVE  Keeping(s, K) = SubSeq(s, p, q - 1)
<1> DEFINE n == Len(s)
           stop(i) == IF i < q THEN i ELSE q - 1
           g == [i \in 0..n |-> SubSeq(s, p, stop(i))]
<1>1. n \in Nat /\ p \in 1..(n + 1) /\ q \in 1..(n + 1)
  OBVIOUS
<1>2. ASSUME NEW i \in 0..n PROVE g[i] = Kept(s, K, g, i)
  <2>1. g[i] = SubSeq(s, p, stop(i))
    OBVIOUS
  <2>2. CASE i = 0
    <3>1. stop(i) < p /\ stop(i) \in Int /\ p \in Int
      BY <1>1, <2>2
    <3>2. SubSeq(s, p, stop(i)) = << >>
      <4> HIDE DEF stop
      <4> QED
        BY <3>1, SubSeqEmpty
    <3> HIDE DEF g
    <3> QED
      BY <2>1, <2>2, <3>2 DEF Kept
  <2>3. CASE i # 0 /\ p <= i /\ i < q
    <3>1. i \in 1..n /\ i - 1 \in 0..n /\ stop(i) = i /\ stop(i - 1) = i - 1
      BY <1>1, <2>3
    <3>2. s[i].key \in K
      BY <2>3, <3>1
    <3>3. g[i - 1] = SubSeq(s, p, i - 1)
      BY <3>1
    <3> HIDE DEF g, stop
    <3>4. SubSeq(s, p, i) = SubSeq(s, p, i - 1) \o <<s[i]>>
      <4>1. p \in 1..Len(s) /\ i \in p..Len(s)
        BY <1>1, <2>3, <3>1
      <4> HIDE DEF n
      <4> QED
        BY <4>1, SubSeqRecursiveSecond
    <3>5. SubSeq(s, p, i - 1) \in Seq(Elem) /\ s[i] \in Elem
      <4>1. p \in Int /\ i - 1 \in Int /\ \A j \in p..(i - 1) : s[j] \in Elem
        BY <1>1, <3>1
      <4> QED
        BY <4>1, <3>1, SubSeqProperties
    <3>6. Append(SubSeq(s, p, i - 1), s[i]) = SubSeq(s, p, i - 1) \o <<s[i]>>
      BY <3>5, AppendIsConcat
    <3> QED
      BY <2>1, <2>3, <3>1, <3>2, <3>3, <3>4, <3>6 DEF Kept
  <2>4. CASE i # 0 /\ ~(p <= i /\ i < q)
    <3>1. i \in 1..n /\ i - 1 \in 0..n
      BY <1>1, <2>4
    <3>2. s[i].key \notin K
      BY <2>4, <3>1
    <3>3. g[i - 1] = SubSeq(s, p, stop(i - 1))
      BY <3>1
    <3>4. SubSeq(s, p, stop(i)) = SubSeq(s, p, stop(i - 1))
      <4>1. CASE p <= i
        <5>1. stop(i) = stop(i - 1)
          BY <1>1, <2>4, <3>1, <4>1
        <5> QED
          BY <5>1
      <4>2. CASE ~(p <= i)
        <5>1. stop(i) < p /\ stop(i - 1) < p /\ stop(i) \in Int /\ stop(i - 1) \in Int /\ p \in Int
          BY <1>1, <2>4, <3>1, <4>2
        <5> HIDE DEF stop
        <5>2. SubSeq(s, p, stop(i)) = << >> /\ SubSeq(s, p, stop(i - 1)) = << >>
          BY <5>1, SubSeqEmpty
        <5> QED
          BY <5>2
      <4> QED
        BY <4>1, <4>2
    <3> HIDE DEF g, stop
    <3> QED
      BY <2>1, <2>4, <3>2, <3>3, <3>4 DEF Kept
  <2> QED
    BY <2>2, <2>3, <2>4
<1>3. g = [i \in 0..n |-> Kept(s, K, g, i)]
  <2>1. g = [i \in 0..n |-> g[i]]
    OBVIOUS
  <2> HIDE DEF g
  <2> QED
    BY <1>2, <2>1
<1>4. g[n] = SubSeq(s, p, q - 1)
  <2>1. n \in 0..n
    BY <1>1
  <2>2. stop(n) = q - 1
    BY <1>1
  <2> HIDE DEF stop
  <2> QED
    BY <2>1, <2>2
<1> HIDE DEF g
<1> QED
  BY <1>3, <1>4, KeepingIs

(***************************************************************************)
(* What is left of a sequence without the elements from the i-th up to,    *)
(* and without, the j-th, wherever these lie.                              *)
(***************************************************************************)
Within(x, n) == IF x < 1 THEN 1 ELSE IF x > n + 1 THEN n + 1 ELSE x
Cutout(s, i, j) ==
  SubSeq(s, 1, Within(i, Len(s)) - 1) \o SubSeq(s, Within(j, Len(s)), Len(s))

\* What SubSeq returns between bounds that lie in the sequence.
LEMMA Slices ==
  ASSUME NEW S, NEW s \in Seq(S), NEW m \in 1..(Len(s) + 1), NEW n \in 0..Len(s), m <= n + 1
  PROVE  /\ SubSeq(s, m, n) \in Seq(S)
         /\ Len(SubSeq(s, m, n)) = n - m + 1
         /\ \A i \in 1..(n - m + 1) : SubSeq(s, m, n)[i] = s[m + i - 1]
<1>1. m \in Int /\ n \in Int
  OBVIOUS
<1>2. \A i \in m..n : s[i] \in S
  OBVIOUS
<1> DEFINE A == Seq(S)
           r == SubSeq(s, m, n)
<1>3. /\ r \in A /\ Len(r) = (IF m <= n THEN n - m + 1 ELSE 0)
      /\ \A i \in 1..(n - m + 1) : r[i] = s[m + i - 1]
  BY <1>1, <1>2, SubSeqProperties
<1> HIDE DEF r, A
<1>4. Len(r) = n - m + 1
  BY <1>3
<1> QED
  BY <1>3, <1>4 DEF r, A

\* r is s without its elements from the a-th up to, and without, the b-th.
CutAt(S, r, s, a, b) ==
  /\ a \in 1..(Len(s) + 1) /\ b \in 1..(Len(s) + 1) /\ a <= b
  /\ r \in Seq(S)
  /\ Len(r) = Len(s) - (b - a)
  /\ \A n \in 1..(Len(s) - (b - a)) : r[n] = IF n < a THEN s[n] ELSE s[n + (b - a)]

\* What is left keeps its order, and what lay behind moves up.
LEMMA CutoutIs ==
  ASSUME NEW S, NEW s \in Seq(S), NEW i \in Int, NEW j \in Int, i <= j,
         NEW a, NEW b, a = Within(i, Len(s)), b = Within(j, Len(s))
  PROVE  CutAt(S, Cutout(s, i, j), s, a, b)
<1> DEFINE L == Len(s)
<1>1. L \in Nat
  OBVIOUS
<1> HIDE DEF L
<1>2. a \in 1..(L + 1) /\ b \in 1..(L + 1) /\ a <= b
  BY <1>1 DEF Within, L
<1> DEFINE x == SubSeq(s, 1, a - 1)
           y == SubSeq(s, b, L)
<1>3. /\ x \in Seq(S) /\ Len(x) = (a - 1) - 1 + 1
      /\ \A n \in 1..((a - 1) - 1 + 1) : x[n] = s[1 + n - 1]
  <2>1. 1 \in 1..(L + 1) /\ a - 1 \in 0..L /\ 1 <= (a - 1) + 1
    BY <1>1, <1>2
  <2> QED
    BY <2>1, Slices DEF L
<1>4. /\ y \in Seq(S) /\ Len(y) = L - b + 1
      /\ \A n \in 1..(L - b + 1) : y[n] = s[b + n - 1]
  <2>1. b \in 1..(L + 1) /\ L \in 0..L /\ b <= L + 1
    BY <1>1, <1>2
  <2> QED
    BY <2>1, Slices DEF L
<1>5. Cutout(s, i, j) = x \o y
  BY DEF Cutout, L
<1> HIDE DEF x, y
<1> DEFINE c == x \o y
<1>6. /\ c \in Seq(S) /\ Len(c) = Len(x) + Len(y)
      /\ \A n \in 1..(Len(x) + Len(y)) : c[n] = IF n <= Len(x) THEN x[n] ELSE y[n - Len(x)]
  BY <1>3, <1>4, ConcatProperties
<1> HIDE DEF c
<1>7. Len(x) = a - 1 /\ Len(y) = L - b + 1 /\ Len(c) = L - (b - a)
  <2>1. Len(x) = (a - 1) - 1 + 1 /\ Len(y) = L - b + 1 /\ Len(c) = Len(x) + Len(y)
    BY <1>3, <1>4, <1>6
  <2>2. a \in Int /\ b \in Int /\ L \in Int
    BY <1>1, <1>2
  <2> QED
    BY ONLY <2>1, <2>2
<1>8. ASSUME NEW n \in 1..(L - (b - a)) PROVE c[n] = IF n < a THEN s[n] ELSE s[n + (b - a)]
  <2>1. c[n] = IF n <= a - 1 THEN x[n] ELSE y[n - (a - 1)]
    <3>1. n \in 1..(Len(x) + Len(y))
      <4>1. n \in Int /\ n >= 1 /\ n <= L - (b - a) /\ a \in Int /\ b \in Int /\ L \in Int
        BY <1>1, <1>2
      <4> QED
        BY ONLY <1>7, <4>1
    <3> QED
      BY <1>6, <1>7, <3>1
  <2>2. CASE n < a
    <3>1. n \in 1..((a - 1) - 1 + 1) /\ 1 + n - 1 = n /\ n <= a - 1
      BY <1>2, <2>2
    <3> QED
      BY <1>3, <2>1, <2>2, <3>1
  <2>3. CASE ~(n < a)
    <3>1. n - (a - 1) \in 1..(L - b + 1) /\ b + (n - (a - 1)) - 1 = n + (b - a) /\ ~(n <= a - 1)
      <4>1. a \in Int /\ b \in Int /\ L \in Int
        BY <1>1, <1>2
      <4>2. n \in 1..(L - (b - a)) /\ ~(n < a)
        BY <2>3
      <4> QED
        BY ONLY <4>1, <4>2
    <3> QED
      BY <1>4, <2>1, <2>3, <3>1
  <2> QED
    BY <2>2, <2>3
<1> QED
  BY <1>2, <1>5, <1>6, <1>7, <1>8 DEF c, L, CutAt

\* What is cut out of a concatenation is cut out of its parts.
LEMMA CutoutConcat ==
  ASSUME NEW S, NEW s \in Seq(S), NEW t \in Seq(S), NEW i \in Int, NEW j \in Int, i <= j
  PROVE  Cutout(s \o t, i, j) = Cutout(s, i, j) \o Cutout(t, i - Len(s), j - Len(s))
<1> DEFINE L == Len(s)
           M == Len(t)
           u == s \o t
           a == Within(i, L)
           b == Within(j, L)
           c == Within(i - L, M)
           d == Within(j - L, M)
           e == Within(i, L + M)
           f == Within(j, L + M)
<1>1. L \in Nat /\ M \in Nat
  OBVIOUS
<1>2. /\ u \in Seq(S) /\ Len(u) = L + M
      /\ \A n \in 1..(L + M) : u[n] = IF n <= L THEN s[n] ELSE t[n - L]
  BY ConcatProperties
<1> DEFINE x == Cutout(s, i, j)
           y == Cutout(t, i - L, j - L)
           z == Cutout(u, i, j)
<1>3. /\ a \in 1..(L + 1) /\ b \in 1..(L + 1) /\ a <= b
      /\ x \in Seq(S) /\ Len(x) = L - (b - a)
      /\ \A n \in 1..(L - (b - a)) : x[n] = IF n < a THEN s[n] ELSE s[n + (b - a)]
  <2>1. CutAt(S, x, s, a, b)
    BY CutoutIs
  <2> QED
    BY <2>1 DEF CutAt
<1>4. /\ c \in 1..(M + 1) /\ d \in 1..(M + 1) /\ c <= d
      /\ y \in Seq(S) /\ Len(y) = M - (d - c)
      /\ \A n \in 1..(M - (d - c)) : y[n] = IF n < c THEN t[n] ELSE t[n + (d - c)]
  <2> DEFINE i2 == i - L
             j2 == j - L
  <2>1. i2 \in Int /\ j2 \in Int /\ i2 <= j2
    <3> HIDE DEF L
    <3> QED
      BY <1>1
  <2>2. c = Within(i2, Len(t)) /\ d = Within(j2, Len(t)) /\ y = Cutout(t, i2, j2)
    OBVIOUS
  <2> HIDE DEF i2, j2, c, d, y
  <2>3. CutAt(S, y, t, c, d)
    BY <2>1, <2>2, CutoutIs
  <2> QED
    BY <2>3 DEF CutAt
<1> HIDE DEF u
<1>5. /\ e \in 1..(L + M + 1) /\ f \in 1..(L + M + 1) /\ e <= f
      /\ z \in Seq(S) /\ Len(z) = (L + M) - (f - e)
      /\ \A n \in 1..((L + M) - (f - e)) : z[n] = IF n < e THEN u[n] ELSE u[n + (f - e)]
  <2> HIDE DEF L, M
  <2>1. e = Within(i, Len(u)) /\ f = Within(j, Len(u)) /\ u \in Seq(S)
    BY <1>2
  <2> HIDE DEF e, f, z
  <2>2. CutAt(S, Cutout(u, i, j), u, e, f)
    BY <2>1, CutoutIs
  <2> QED
    BY <1>2, <2>2 DEF CutAt, z
<1>6. /\ e = a + c - 1 /\ f = b + d - 1
      /\ (a <= L => c = 1) /\ (b <= L => d = 1)
  <2> HIDE DEF L, M
  <2> QED
    BY <1>1 DEF Within
<1> HIDE DEF L, M, a, b, c, d, e, f, x, y, z
<1> DEFINE w == x \o y
<1>7. /\ w \in Seq(S) /\ Len(w) = Len(x) + Len(y)
      /\ \A n \in 1..(Len(x) + Len(y)) : w[n] = IF n <= Len(x) THEN x[n] ELSE y[n - Len(x)]
  BY <1>3, <1>4, ConcatProperties
<1> HIDE DEF w
<1>8. Len(w) = Len(z) /\ Len(z) \in Nat
  BY <1>1, <1>3, <1>4, <1>5, <1>6, <1>7
<1>9. ASSUME NEW n \in 1..Len(z) PROVE z[n] = w[n]
  <2>1. /\ z[n] = (IF n < e THEN u[n] ELSE u[n + (f - e)])
        /\ w[n] = (IF n <= Len(x) THEN x[n] ELSE y[n - Len(x)])
    BY <1>5, <1>7, <1>8
  <2>2. CASE n <= Len(x) /\ n < a
    <3>1. n \in 1..(L - (b - a)) /\ n \in 1..(L + M) /\ n <= L /\ n < e
      BY <1>1, <1>3, <1>4, <1>6, <2>2
    <3>2. z[n] = s[n] /\ w[n] = s[n]
      BY <1>2, <1>3, <2>1, <2>2, <3>1
    <3> QED
      BY <3>2
  <2>3. CASE n <= Len(x) /\ ~(n < a)
    <3>1. /\ n \in 1..(L - (b - a)) /\ a <= L /\ b <= L
      BY <1>1, <1>3, <2>3
    <3>2. n + (b - a) \in 1..(L + M) /\ n + (b - a) <= L /\ ~(n < e) /\ f - e = b - a
      BY <1>1, <1>3, <1>6, <2>3, <3>1
    <3>3. z[n] = u[n + (b - a)] /\ u[n + (b - a)] = s[n + (b - a)]
      BY <1>2, <2>1, <3>2
    <3>4. w[n] = s[n + (b - a)]
      BY <1>3, <2>1, <2>3, <3>1
    <3> QED
      BY <3>3, <3>4
  <2>4. CASE ~(n <= Len(x))
    <3> DEFINE m == n - Len(x)
    <3>1. m \in 1..(M - (d - c)) /\ w[n] = y[m]
      <4>1. Len(x) \in Nat /\ Len(y) = M - (d - c) /\ Len(y) \in Int /\ n \in Int /\ n <= Len(x) + Len(y)
        <5>1. Len(x) \in Nat /\ Len(y) \in Nat /\ Len(y) = M - (d - c)
          BY <1>3, <1>4
        <5>2. n \in 1..(Len(x) + Len(y))
          BY <1>7, <1>8
        <5> QED
          BY <5>1, <5>2
      <4>2. m \in 1..Len(y)
        BY ONLY <2>4, <4>1 DEF m
      <4> QED
        BY <2>1, <2>4, <4>1, <4>2
    <3>2. CASE m < c
      <4>1. n < e /\ n = L + m /\ n \in 1..(L + M) /\ ~(n <= L) /\ n - L = m
        <5>1. a = b
          <6>1. a \in Int /\ b \in Int /\ L \in Int /\ a <= b /\ b <= L + 1 /\ (a <= L => c = 1) /\ c \in Int
            BY <1>1, <1>3, <1>4, <1>6
          <6>2. m \in Int /\ m >= 1
            BY <1>1, <1>3, <1>4, <3>1
          <6> QED
            BY <3>2, <6>1, <6>2
        <5>2. n \in Int /\ m \in Int /\ Len(x) = L
          BY <1>1, <1>3, <1>8, <5>1
        <5>3. n = L + m
          BY <1>1, <5>2
        <5>4. m <= M - (d - c) /\ c <= d /\ m >= 1
          BY <1>1, <1>4, <3>1
        <5>5. M \in Int /\ L \in Int /\ a = L + 1 /\ c \in Int /\ d \in Int
          <6>1. a = L + 1
            BY <1>1, <1>3, <1>4, <1>6, <3>2, <5>4, <5>2
          <6> QED
            BY <1>1, <1>4, <6>1
        <5> HIDE DEF m
        <5> QED
          BY <1>1, <1>6, <3>2, <5>2, <5>3, <5>4, <5>5
      <4>2. z[n] = t[m]
        BY <1>2, <2>1, <4>1
      <4> QED
        BY <1>4, <3>1, <3>2, <4>2
    <3>3. CASE ~(m < c)
      <4>1. ~(n < e)
        BY <1>1, <1>3, <1>4, <1>6, <2>4, <3>1, <3>3
      <4> DEFINE k == n + (f - e)
      <4>2. k \in 1..(L + M) /\ ~(k <= L) /\ k - L = m + (d - c)
        BY <1>1, <1>3, <1>4, <1>6, <2>4, <3>1, <3>3
      <4>3. z[n] = t[m + (d - c)]
        BY <1>2, <2>1, <4>1, <4>2
      <4> QED
        BY <1>4, <3>1, <3>3, <4>3
    <3> QED
      BY <3>2, <3>3
  <2> QED
    BY <2>2, <2>3, <2>4
<1>10. z = w
  BY <1>5, <1>7, <1>8, <1>9, SeqEqual
<1> QED
  BY <1>10 DEF z, w, x, y, u, L

\* Cut at no place, a sequence stays as it is.
LEMMA CutoutNothing ==
  ASSUME NEW S, NEW s \in Seq(S), NEW i \in Int, NEW j \in Int, i <= j,
         Within(i, Len(s)) = Within(j, Len(s))
  PROVE  Cutout(s, i, j) = s
<1> DEFINE a == Within(i, Len(s))
           c == Cutout(s, i, j)
<1>1. CutAt(S, c, s, a, a)
  BY CutoutIs
<1> HIDE DEF a, c
<1>2. a \in Int /\ Len(s) \in Nat
  BY <1>1 DEF CutAt
<1>3. a - a = 0 /\ Len(s) - 0 = Len(s)
  BY <1>2
<1>4. /\ c \in Seq(S) /\ Len(c) = Len(s)
      /\ \A n \in 1..Len(s) : c[n] = IF n < a THEN s[n] ELSE s[n + 0]
  BY <1>1, <1>3 DEF CutAt
<1>5. \A n \in 1..Len(s) : c[n] = s[n]
  <2>1. \A n \in 1..Len(s) : n + 0 = n
    BY <1>2
  <2> QED
    BY <1>4, <2>1
<1>6. c = s
  BY <1>4, <1>5, SeqEqual
<1> QED
  BY <1>6 DEF c

\* Every chain loses what lies between the positions p and q of them all.
CutsEvery(cs, bs, p, q) ==
  \A b \in 1..Len(bs) : cs[b] = Cutout(bs[b], p - Before(bs, b), q - Before(bs, b))

\* What is cut out of every chain is cut out of their concatenation.
LEMMA FlatCutout ==
  ASSUME NEW S, NEW bs \in Seq(Seq(S)), NEW cs \in Seq(Seq(S)), Len(cs) = Len(bs),
         NEW p \in Int, NEW q \in Int, p <= q, CutsEvery(cs, bs, p, q)
  PROVE  FlattenSeq(cs) = Cutout(FlattenSeq(bs), p, q)
<1> DEFINE L == Len(bs)
           f == [b \in 0..L |-> Cutout(Upto(bs, b), p, q)]
<1>1. L \in Nat /\ \A b \in 1..L : bs[b] \in Seq(S)
  OBVIOUS
<1>2. /\ Upto(bs, 0) = << >> /\ \A b \in 0..L : Upto(bs, b) \in Seq(S)
      /\ \A b \in 1..L : Upto(bs, b) = Upto(bs, b - 1) \o bs[b]
      /\ Upto(bs, L) = FlattenSeq(bs)
  BY UptoGrows
<1> HIDE DEF L
<1>3. f[0] = << >>
  <2>1. << >> \in Seq(S) /\ Len(<< >>) = 0
    OBVIOUS
  <2>2. Within(p, 0) = 1 /\ Within(q, 0) = 1
    BY DEF Within
  <2>3. Cutout(<< >>, p, q) = << >>
    <3> DEFINE e == << >>
    <3>1. e \in Seq(S) /\ Within(p, Len(e)) = Within(q, Len(e))
      BY <2>1, <2>2
    <3> HIDE DEF e, f
    <3>2. Cutout(e, p, q) = e
      BY <3>1, CutoutNothing
    <3> QED
      BY <3>2 DEF e
  <2>4. 0 \in 0..L
    BY <1>1
  <2> QED
    BY <1>2, <2>3, <2>4
<1>4. ASSUME NEW b \in 1..L PROVE f[b] = f[b - 1] \o cs[b]
  <2>1. b \in 0..L /\ b - 1 \in 0..L
    BY <1>1
  <2>2. f[b] = Cutout(Upto(bs, b), p, q) /\ f[b - 1] = Cutout(Upto(bs, b - 1), p, q)
    BY <2>1
  <2>3. Cutout(Upto(bs, b - 1) \o bs[b], p, q)
          = Cutout(Upto(bs, b - 1), p, q)
              \o Cutout(bs[b], p - Len(Upto(bs, b - 1)), q - Len(Upto(bs, b - 1)))
    <3> DEFINE u == Upto(bs, b - 1)
               c == bs[b]
    <3>1. u \in Seq(S) /\ c \in Seq(S)
      BY <1>1, <1>2, <2>1
    <3> HIDE DEF u, c, f
    <3>2. p \in Int /\ q \in Int /\ p <= q
      OBVIOUS
    <3>3. Cutout(u \o c, p, q) = Cutout(u, p, q) \o Cutout(c, p - Len(u), q - Len(u))
      BY ONLY <3>1, <3>2, CutoutConcat
    <3> QED
      BY <3>3 DEF u, c
  <2>4. cs[b] = Cutout(bs[b], p - Len(Upto(bs, b - 1)), q - Len(Upto(bs, b - 1)))
    BY DEF Before, L, CutsEvery
  <2> HIDE DEF f
  <2> QED
    BY <1>2, <2>2, <2>3, <2>4
<1>l. L \in 0..L /\ f[L] = Cutout(FlattenSeq(bs), p, q)
  <2>1. L \in 0..L
    BY <1>1
  <2> QED
    BY <1>2, <2>1
<1> HIDE DEF f
<1>5. Growing(f, cs)
  BY <1>3, <1>4 DEF Growing, L
<1>6. FlattenSeq(cs) = f[Len(cs)]
  BY <1>5, FlatIs
<1> QED
  BY <1>6, <1>l DEF L

\* Where a position cuts the chains: the f-th at k, those before it behind
\* their ends, those behind it at their beginnings.
CutPlace(bs, f, k) ==
  /\ f \in 1..(Len(bs) + 1)
  /\ k \in 1..(IF f <= Len(bs) THEN Len(bs[f]) + 1 ELSE 1)

\* Seen from any chain, that position lies where the cut goes through it.
LEMMA WithinChains ==
  ASSUME NEW S, NEW bs \in Seq(Seq(S)), NEW f, NEW k, CutPlace(bs, f, k), NEW b \in 1..Len(bs)
  PROVE  /\ (Before(bs, f) + k) - Before(bs, b) \in Int
         /\ Within((Before(bs, f) + k) - Before(bs, b), Len(bs[b]))
              = IF b < f THEN Len(bs[b]) + 1 ELSE IF b = f THEN k ELSE 1
<1> DEFINE L == Len(bs)
           B(c) == Before(bs, c)
<1>1. L \in Nat /\ \A c \in 1..L : Len(bs[c]) \in Nat
  <2>1. \A c \in 1..L : bs[c] \in Seq(S)
    OBVIOUS
  <2> QED
    BY <2>1
<1>2. /\ \A c \in 1..(L + 1) : B(c) \in Nat
      /\ \A c \in 1..L : B(c + 1) = B(c) + Len(bs[c])
      /\ \A c, d \in 1..(L + 1) : c <= d => B(c) <= B(d)
  BY ChainsFollow
<1>3. /\ f \in 1..(L + 1) /\ k \in Nat /\ k >= 1
      /\ (f <= L => k <= Len(bs[f]) + 1) /\ (f = L + 1 => k = 1)
  <2>1. f \in 1..(L + 1) /\ k \in 1..(IF f <= L THEN Len(bs[f]) + 1 ELSE 1)
    BY DEF CutPlace
  <2> HIDE DEF L
  <2> QED
    BY <1>1, <2>1
<1>b. b \in 1..L
  OBVIOUS
<1> HIDE DEF L, B
<1>4. B(f) \in Nat /\ B(b) \in Nat /\ Len(bs[b]) \in Nat /\ b \in Nat /\ f \in Nat /\ B(b + 1) = B(b) + Len(bs[b])
  BY <1>1, <1>2, <1>3, <1>b
<1>5. CASE b < f
  <2>1. b + 1 \in 1..(L + 1) /\ b + 1 <= f
    BY <1>1, <1>3, <1>b, <1>5
  <2>2. B(b + 1) <= B(f)
    BY <1>2, <1>3, <2>1
  <2>3. (B(f) + k) - B(b) >= Len(bs[b]) + 1
    BY <1>3, <1>4, <2>2, SMTT(30)
  <2> QED
    <3> DEFINE z == (B(f) + k) - B(b)
    <3>1. z \in Int /\ z >= Len(bs[b]) + 1
      BY <1>3, <1>4, <2>3
    <3> HIDE DEF z
    <3>2. Within(z, Len(bs[b])) = Len(bs[b]) + 1
      BY <1>4, <3>1 DEF Within
    <3> QED
      BY <1>5, <3>1, <3>2 DEF z, B
<1>6. CASE b = f
  <2>1. (B(f) + k) - B(b) = k
    BY <1>3, <1>4, <1>6
  <2>2. k <= Len(bs[b]) + 1
    BY <1>1, <1>3, <1>6, <1>b
  <2> QED
    BY <1>3, <1>4, <1>6, <2>1, <2>2 DEF Within, B
<1>7. CASE b > f
  <2>1. f \in 1..L /\ f + 1 \in 1..(L + 1) /\ f + 1 <= b
    BY <1>1, <1>3, <1>b, <1>7
  <2>2. B(f + 1) = B(f) + Len(bs[f]) /\ B(f + 1) <= B(b) /\ Len(bs[f]) \in Nat
    BY <1>1, <1>2, <1>b, <2>1
  <2>3. k <= Len(bs[f]) + 1
    BY <1>1, <1>3, <2>1
  <2>4. (B(f) + k) - B(b) <= 1 /\ (B(f) + k) - B(b) \in Int
    <3>1. B(f) \in Nat /\ B(b) \in Nat /\ k \in Nat
      BY <1>3, <1>4
    <3>2. B(f) + Len(bs[f]) <= B(b)
      BY <2>2
    <3> QED
      BY ONLY <2>2, <2>3, <3>1, <3>2, SMTT(30)
  <2>5. ~(b < f) /\ b # f
    BY <1>4, <1>7
  <2> QED
    <3> DEFINE z == (B(f) + k) - B(b)
    <3>1. z \in Int /\ z <= 1
      BY <2>4
    <3> HIDE DEF z
    <3>2. Within(z, Len(bs[b])) = 1
      BY <1>4, <3>1 DEF Within
    <3> QED
      BY <2>5, <3>1, <3>2 DEF z, B
<1> QED
  BY <1>4, <1>5, <1>6, <1>7

\* If those without the keys stand side by side, what is kept is the rest.
LEMMA KeepingRest ==
  ASSUME NEW s \in Seq(Elem), NEW K, NEW p \in 1..(Len(s) + 1), NEW q \in 1..(Len(s) + 1), p <= q,
         \A i \in 1..Len(s) : s[i].key \in K <=> ~(p <= i /\ i < q)
  PROVE  Keeping(s, K) = Cutout(s, p, q)
<1> DEFINE n == Len(s)
           r(i) == SubSeq(s, 1, i)
           g == [i \in 0..n |-> Cutout(r(i), p, q)]
<1>1. n \in Nat /\ p \in Int /\ q \in Int /\ p \in 1..(n + 1) /\ q \in 1..(n + 1)
  OBVIOUS
<1>e. \A i \in 1..n : s[i] \in Elem
  OBVIOUS
<1> HIDE DEF n
<1>2. ASSUME NEW i \in 0..n PROVE r(i) \in Seq(Elem) /\ Len(r(i)) = i
  <2>1. 1 \in 1..(Len(s) + 1) /\ i \in 0..Len(s) /\ 1 <= i + 1
    BY <1>1 DEF n
  <2>2. r(i) \in Seq(Elem) /\ Len(r(i)) = i - 1 + 1
    BY <2>1, Slices
  <2>3. i - 1 + 1 = i
    OBVIOUS
  <2> QED
    BY <2>2, <2>3
<1>3. ASSUME NEW i \in 1..n PROVE r(i) = r(i - 1) \o <<s[i]>>
  <2>1. 1 \in 1..Len(s) /\ i \in 1..Len(s)
    BY <1>1 DEF n
  <2> QED
    BY <2>1, SubSeqRecursiveSecond
<1>k. \A i \in 1..n : s[i].key \in K <=> ~(p <= i /\ i < q)
  BY DEF n
<1> HIDE DEF r
<1>4. ASSUME NEW i \in 0..n PROVE g[i] = Kept(s, K, g, i)
  <2>1. g[i] = Cutout(r(i), p, q)
    OBVIOUS
  <2>2. CASE i = 0
    <3>1. r(0) = << >> /\ Len(r(0)) = 0 /\ r(0) \in Seq(Elem)
      BY <1>2, <2>2, EmptySeq
    <3>2. Within(p, 0) = 1 /\ Within(q, 0) = 1
      BY <1>1 DEF Within
    <3>3. Cutout(r(0), p, q) = r(0)
      BY <1>1, <3>1, <3>2, CutoutNothing
    <3> HIDE DEF g
    <3> QED
      BY <2>1, <2>2, <3>1, <3>3 DEF Kept
  <2>3. CASE i # 0
    <3> DEFINE t == <<s[i]>>
               x == p - (i - 1)
               y == q - (i - 1)
    <3>1. i \in 1..n /\ i - 1 \in 0..n
      BY <1>1, <2>3
    <3>2. g[i - 1] = Cutout(r(i - 1), p, q)
      BY <3>1
    <3>3. t \in Seq(Elem) /\ Len(t) = 1 /\ s[i] \in Elem
      BY <1>e, <3>1
    <3>4. x \in Int /\ y \in Int /\ x <= y
      BY <1>1, <3>1
    <3> HIDE DEF t, g
    <3>5. g[i] = g[i - 1] \o Cutout(t, x, y)
      <4>1. Cutout(r(i - 1) \o t, p, q)
              = Cutout(r(i - 1), p, q) \o Cutout(t, p - Len(r(i - 1)), q - Len(r(i - 1)))
        <5> DEFINE u == r(i - 1)
        <5>1. u \in Seq(Elem) /\ p \in Int /\ q \in Int
          BY <1>1, <1>2, <3>1
        <5> HIDE DEF u
        <5>2. Cutout(u \o t, p, q) = Cutout(u, p, q) \o Cutout(t, p - Len(u), q - Len(u))
          BY <3>3, <5>1, CutoutConcat
        <5> QED
          BY <5>2 DEF u
      <4>2. r(i) = r(i - 1) \o t /\ Len(r(i - 1)) = i - 1
        BY <1>2, <1>3, <3>1 DEF t
      <4> QED
        BY <2>1, <3>2, <4>1, <4>2
    <3>6. g[i - 1] \in Seq(Elem)
      <4>1. CutAt(Elem, Cutout(r(i - 1), p, q), r(i - 1),
                  Within(p, Len(r(i - 1))), Within(q, Len(r(i - 1))))
        BY <1>1, <1>2, <3>1, CutoutIs
      <4> QED
        BY <3>2, <4>1 DEF CutAt
    <3>7. CASE p <= i /\ i < q
      <4>1. Within(x, 1) = 1 /\ Within(y, 1) = 2
        BY <1>1, <3>1, <3>7 DEF Within
      <4>2. CutAt(Elem, Cutout(t, x, y), t, 1, 2)
        BY <3>3, <3>4, <4>1, CutoutIs
      <4>3. Cutout(t, x, y) \in Seq(Elem) /\ Len(Cutout(t, x, y)) = 0
        BY <3>3, <4>2 DEF CutAt
      <4>4. Cutout(t, x, y) = << >>
        BY <4>3, EmptySeq
      <4>5. g[i] = g[i - 1]
        BY <3>5, <3>6, <4>4, ConcatEmptySeq
      <4>6. s[i].key \notin K
        BY <1>k, <3>1, <3>7
      <4> QED
        BY <2>3, <4>5, <4>6 DEF Kept
    <3>8. CASE ~(p <= i /\ i < q)
      <4>1. Within(x, 1) = Within(y, 1)
        BY <1>1, <3>1, <3>8 DEF Within
      <4>2. Cutout(t, x, y) = t
        BY <3>3, <3>4, <4>1, CutoutNothing
      <4>3. g[i] = Append(g[i - 1], s[i])
        <5>1. Append(g[i - 1], s[i]) = g[i - 1] \o <<s[i]>>
          BY <3>3, <3>6, AppendIsConcat
        <5> QED
          BY <3>5, <4>2, <5>1 DEF t
      <4>4. s[i].key \in K
        BY <1>k, <3>1, <3>8
      <4> QED
        BY <2>3, <4>3, <4>4 DEF Kept
    <3> QED
      BY <3>7, <3>8
  <2> QED
    BY <2>2, <2>3
<1>5. g = [i \in 0..n |-> Kept(s, K, g, i)]
  <2>1. g = [i \in 0..n |-> g[i]]
    OBVIOUS
  <2> HIDE DEF g
  <2> QED
    BY <1>4, <2>1
<1>6. g[n] = Cutout(s, p, q)
  <2>1. n \in 0..n
    BY <1>1
  <2>2. r(n) = s
    BY SubSeqFull DEF r, n
  <2> QED
    BY <2>1, <2>2
<1> HIDE DEF g
<1>7. Keeping(s, K) = g[Len(s)]
  BY <1>5, KeepingIs DEF n
<1> QED
  BY <1>6, <1>7 DEF n

\* Equal keys stand side by side.
Grouped(s) == Abstract!Grouped(s)

\* Where the elements with a key begin and end in a chain.
KeyFrom(s, k) == FirstWith(s, k)
KeyTo(s, k) ==
  LET other == {i \in DOMAIN s : i > FirstWith(s, k) /\ s[i].key # k}
  IN  IF other = {} THEN Len(s) + 1 ELSE Min(other)

\* The same, by position.
LEMMA GroupedMeans ==
  ASSUME NEW s \in Seq(Elem)
  PROVE  Grouped(s) <=> \A i, j, k \in 1..Len(s) :
                          i < j /\ j < k /\ s[i].key = s[k].key => s[j].key = s[i].key
<1>1. DOMAIN s = 1..Len(s)
  OBVIOUS
<1> QED
  BY <1>1 DEF Grouped, Abstract!Grouped

\* In a grouped chain, the elements with a key are those between.
LEMMA KeyRange ==
  ASSUME NEW s \in Seq(Elem), Grouped(s), NEW k, \E i \in 1..Len(s) : s[i].key = k,
         NEW p, NEW q, p = KeyFrom(s, k), q = KeyTo(s, k)
  PROVE  /\ p \in 1..Len(s) /\ q \in 1..(Len(s) + 1) /\ p < q
         /\ \A i \in 1..Len(s) : s[i].key = k <=> p <= i /\ i < q
<1> DEFINE L == Len(s)
           with == {i \in DOMAIN s : s[i].key = k}
           other == {i \in DOMAIN s : i > p /\ s[i].key # k}
<1>1. L \in Nat /\ DOMAIN s = 1..L
  OBVIOUS
<1>2. p \in with /\ \A i \in with : p <= i
  <2>1. with \in SUBSET Nat /\ with # {}
    BY <1>1
  <2>2. p = Min(with)
    BY DEF KeyFrom, FirstWith
  <2> HIDE DEF with
  <2> QED
    BY <2>1, <2>2, Least
<1>3. q = IF other = {} THEN L + 1 ELSE Min(other)
  BY DEF KeyTo, KeyFrom
<1>4. other # {} => q \in other /\ \A i \in other : q <= i
  <2>1. other \in SUBSET Nat
    BY <1>1
  <2> HIDE DEF other
  <2>2. other # {} => Min(other) \in other /\ \A i \in other : Min(other) <= i
    BY <2>1, Least
  <2> QED
    BY <1>3, <2>2
<1>5. \A i, j, m \in 1..L : i < j /\ j < m /\ s[i].key = s[m].key => s[j].key = s[i].key
  BY GroupedMeans
<1> HIDE DEF L
<1>6. p \in 1..L /\ s[p].key = k
  BY <1>1, <1>2
<1>7. q \in 1..(L + 1) /\ p < q
  BY <1>1, <1>3, <1>4, <1>6
<1>8. ASSUME NEW i \in 1..L, s[i].key = k PROVE p <= i /\ i < q
  <2>1. p <= i
    BY <1>1, <1>2, <1>8
  <2>2. CASE other = {}
    BY <1>1, <1>3, <2>1, <2>2
  <2>3. CASE other # {}
    <3>1. q \in 1..L /\ q > p /\ s[q].key # k
      BY <1>1, <1>4, <2>3
    <3>2. ~(q < i)
      BY <1>5, <1>6, <1>8, <3>1
    <3>3. q # i
      BY <1>8, <3>1
    <3> QED
      BY <1>1, <2>1, <3>1, <3>2, <3>3
  <2> QED
    BY <2>2, <2>3
<1>9. ASSUME NEW i \in 1..L, p <= i, i < q PROVE s[i].key = k
  <2>1. CASE i = p
    BY <1>6, <2>1
  <2>2. CASE i # p
    <3>1. i \notin other
      <4>1. ASSUME i \in other PROVE FALSE
        <5>1. q <= i
          BY <1>4, <4>1
        <5>2. q \in Int /\ i \in Int
          BY <1>1, <1>7
        <5> QED
          BY ONLY <5>1, <5>2, <1>9
      <4> QED
        BY <4>1
    <3>2. i > p
      BY <1>6, <1>9, <2>2
    <3> QED
      BY <1>1, <3>1, <3>2
  <2> QED
    BY <2>1, <2>2
<1> QED
  BY <1>6, <1>7, <1>8, <1>9 DEF L

\* The table as the proofs need it: elements in the buckets of their keys,
\* those with equal keys side by side.
Shaped(bs) ==
  /\ bs \in Chains /\ Len(bs) >= 1 /\ Housed(bs)
  /\ \A b \in 1..Len(bs) : Grouped(bs[b])

\* The bucket of a key is one of the table.
LEMMA BucketOf ==
  ASSUME NEW k \in Key, NEW n \in Nat, n >= 1
  PROVE  BktNum(k, n) \in 1..n
<1>1. Hash[k] \in Nat
  BY HashTableAssumption
<1>2. Hash[k] % n \in 0..(n - 1)
  BY <1>1
<1> QED
  BY <1>2 DEF BktNum

\* Then they are side by side in an iteration, too.
LEMMA FlatGrouped ==
  ASSUME NEW bs, Shaped(bs)
  PROVE  Grouped(FlattenSeq(bs))
<1> DEFINE L == Len(bs)
           flat == FlattenSeq(bs)
           P(b, i) == Before(bs, b) + i
<1>1. bs \in Seq(Seq(Elem)) /\ bs \in Chains /\ Housed(bs)
  BY DEF Shaped, Chains
<1>2. flat \in Seq(Elem)
  BY <1>1, ChainsFollow
<1>3. /\ \A b \in 1..L : \A i \in 1..Len(bs[b]) : flat[P(b, i)] = bs[b][i]
      /\ \A p \in 1..Len(flat) : \E b \in 1..L : \E i \in 1..Len(bs[b]) : p = P(b, i)
  BY <1>1, PlacesLie
<1>4. /\ L \in Nat /\ Len(flat) \in Nat
      /\ \A b \in 1..L : bs[b] \in Seq(Elem) /\ Len(bs[b]) \in Nat
  <2>1. L \in Nat /\ \A b \in 1..L : bs[b] \in Seq(Elem)
    BY <1>1
  <2> QED
    BY <1>2, <2>1
<1>5. ASSUME NEW b \in 1..L, NEW c \in 1..L, NEW i \in 1..Len(bs[b]), NEW j \in 1..Len(bs[c]), P(b, i) < P(c, j)
      PROVE  b < c \/ (b = c /\ i < j)
  <2>1. <<b, i>> \in Places(bs) /\ <<c, j>> \in Places(bs)
    BY <1>1, PlacesAre
  <2>2. Pos(bs, <<b, i>>) = P(b, i) /\ Pos(bs, <<c, j>>) = P(c, j)
    BY <1>1, <2>1, PositionsLie
  <2>3. c < b => P(c, j) < P(b, i)
    BY <1>1, <2>1, <2>2, PositionsLie
  <2>4. Before(bs, b) \in Nat /\ P(b, i) \in Nat /\ P(c, j) \in Nat
    <3>1. \A d \in 1..(L + 1) : Before(bs, d) \in Nat
      BY <1>1, ChainsFollow
    <3>2. b \in 1..(L + 1) /\ c \in 1..(L + 1)
      BY <1>4
    <3>3. Before(bs, b) \in Nat /\ Before(bs, c) \in Nat /\ i \in Nat /\ j \in Nat
      BY <1>4, <3>1, <3>2
    <3> QED
      BY <3>3
  <2>5. ~(c < b)
    BY <1>5, <2>3, <2>4
  <2>6. b = c => i < j
    BY <1>4, <1>5, <2>4
  <2> HIDE DEF P
  <2> QED
    BY <1>4, <2>5, <2>6
<1>h. \A b \in 1..L : \A i \in 1..Len(bs[b]) : BktNum(bs[b][i].key, L) = b
  BY <1>1 DEF Housed
<1> HIDE DEF L, P, flat
<1>6. ASSUME NEW x \in 1..Len(flat), NEW y \in 1..Len(flat), NEW z \in 1..Len(flat),
             x < y, y < z, flat[x].key = flat[z].key
      PROVE  flat[y].key = flat[x].key
  <2>1. PICK b \in 1..L : \E i \in 1..Len(bs[b]) : x = P(b, i)
    BY <1>3
  <2>2. PICK i \in 1..Len(bs[b]) : x = P(b, i)
    BY <2>1
  <2>3. PICK c \in 1..L : \E j \in 1..Len(bs[c]) : y = P(c, j)
    BY <1>3
  <2>4. PICK j \in 1..Len(bs[c]) : y = P(c, j)
    BY <2>3
  <2>5. PICK d \in 1..L : \E k \in 1..Len(bs[d]) : z = P(d, k)
    BY <1>3
  <2>6. PICK k \in 1..Len(bs[d]) : z = P(d, k)
    BY <2>5
  <2>7. flat[x] = bs[b][i] /\ flat[y] = bs[c][j] /\ flat[z] = bs[d][k]
    BY <1>3, <2>2, <2>4, <2>6
  <2>8. b = d
    <3>1. bs[b][i].key = bs[d][k].key
      BY <1>6, <2>7
    <3>2. BktNum(bs[b][i].key, L) = b /\ BktNum(bs[d][k].key, L) = d
      BY <1>h, <2>2, <2>6
    <3> QED
      BY <3>1, <3>2
  <2>9. (b < c \/ (b = c /\ i < j)) /\ (c < d \/ (c = d /\ j < k))
    BY <1>5, <1>6, <2>2, <2>4, <2>6
  <2>10. b = c /\ i < j /\ j < k
    BY <1>4, <2>8, <2>9
  <2>11. Grouped(bs[b]) /\ bs[b] \in Seq(Elem)
    BY <1>4 DEF Shaped, L
  <2> QED
    <3> DEFINE s == bs[b]
    <3>1. /\ s \in Seq(Elem) /\ Grouped(s) /\ i \in 1..Len(s) /\ j \in 1..Len(s) /\ k \in 1..Len(s)
          /\ flat[x] = s[i] /\ flat[y] = s[j] /\ flat[z] = s[k]
      BY <2>7, <2>8, <2>10, <2>11
    <3> HIDE DEF s
    <3>2. s[i].key = s[k].key => s[j].key = s[i].key
      BY <2>10, <3>1, GroupedMeans
    <3> QED
      BY <1>6, <3>1, <3>2
<1> QED
  BY <1>2, <1>6, GroupedMeans DEF flat

\* Cutting adds no element, and keeps together what was together.
LEMMA CutoutKeeps ==
  ASSUME NEW s \in Seq(Elem), NEW i \in Int, NEW j \in Int, i <= j
  PROVE  /\ Cutout(s, i, j) \in Seq(Elem)
         /\ \A n \in 1..Len(Cutout(s, i, j)) : \E m \in 1..Len(s) : Cutout(s, i, j)[n] = s[m]
         /\ Grouped(s) => Grouped(Cutout(s, i, j))
<1> DEFINE a == Within(i, Len(s))
           b == Within(j, Len(s))
           c == Cutout(s, i, j)
           at(n) == IF n < a THEN n ELSE n + (b - a)
<1>1. CutAt(Elem, c, s, a, b)
  BY CutoutIs
<1> HIDE DEF a, b, c
<1>2. /\ a \in 1..(Len(s) + 1) /\ b \in 1..(Len(s) + 1) /\ a <= b
      /\ c \in Seq(Elem) /\ Len(c) = Len(s) - (b - a)
      /\ \A n \in 1..(Len(s) - (b - a)) : c[n] = IF n < a THEN s[n] ELSE s[n + (b - a)]
  BY <1>1 DEF CutAt
<1>3. Len(s) \in Nat
  OBVIOUS
<1>4. ASSUME NEW n \in 1..Len(c) PROVE at(n) \in 1..Len(s) /\ c[n] = s[at(n)]
  <2>1. at(n) \in 1..Len(s)
    BY <1>2, <1>3
  <2> QED
    BY <1>2, <2>1
<1>5. ASSUME NEW n \in 1..Len(c), NEW m \in 1..Len(c), n < m PROVE at(n) < at(m)
  BY <1>2, <1>3, <1>5
<1> HIDE DEF at
<1>6. ASSUME Grouped(s) PROVE Grouped(c)
  <2>1. \A x, y, z \in 1..Len(s) : x < y /\ y < z /\ s[x].key = s[z].key => s[y].key = s[x].key
    BY <1>6, GroupedMeans
  <2>2. ASSUME NEW x \in 1..Len(c), NEW y \in 1..Len(c), NEW z \in 1..Len(c),
               x < y, y < z, c[x].key = c[z].key
        PROVE  c[y].key = c[x].key
    <3>1. at(x) < at(y) /\ at(y) < at(z)
      BY <1>5, <2>2
    <3>2. /\ at(x) \in 1..Len(s) /\ at(y) \in 1..Len(s) /\ at(z) \in 1..Len(s)
          /\ c[x] = s[at(x)] /\ c[y] = s[at(y)] /\ c[z] = s[at(z)]
      BY <1>4
    <3> QED
      BY <2>1, <2>2, <3>1, <3>2
  <2> QED
    BY <1>2, <2>2, GroupedMeans
<1> QED
  BY <1>2, <1>4, <1>6 DEF c

\* The chains without what lies from one cut up to another.
CutChains(bs, f, k, g, m) ==
  [b \in 1..Len(bs) |->
     SubSeq(bs[b], 1, (IF b < f THEN Len(bs[b]) + 1 ELSE IF b = f THEN k ELSE 1) - 1)
       \o SubSeq(bs[b], IF b < g THEN Len(bs[b]) + 1 ELSE IF b = g THEN m ELSE 1, Len(bs[b]))]

\* To cut every chain so is to cut their concatenation.
LEMMA CutChainsFlat ==
  ASSUME NEW bs, Shaped(bs), NEW f, NEW k, NEW g, NEW m, CutPlace(bs, f, k), CutPlace(bs, g, m),
         Before(bs, f) + k <= Before(bs, g) + m
  PROVE  /\ Shaped(CutChains(bs, f, k, g, m))
         /\ Len(CutChains(bs, f, k, g, m)) = Len(bs)
         /\ FlattenSeq(CutChains(bs, f, k, g, m))
              = Cutout(FlattenSeq(bs), Before(bs, f) + k, Before(bs, g) + m)
<1> DEFINE p == Before(bs, f) + k
           q == Before(bs, g) + m
           L == Len(bs)
           cs == CutChains(bs, f, k, g, m)
           x(b) == p - Before(bs, b)
           y(b) == q - Before(bs, b)
<1>1. bs \in Seq(Seq(Elem)) /\ Housed(bs) /\ \A b \in 1..L : Grouped(bs[b])
  BY DEF Shaped, Chains
<1>2. L \in Nat /\ L >= 1 /\ \A b \in 1..L : bs[b] \in Seq(Elem)
  BY <1>1 DEF Shaped
<1>3. p \in Int /\ q \in Int /\ p <= q /\ \A b \in 1..L : Before(bs, b) \in Int
  <2>1. \A b \in 1..(L + 1) : Before(bs, b) \in Nat
    BY <1>1, ChainsFollow
  <2>2. f \in 1..(L + 1) /\ k \in Int /\ g \in 1..(L + 1) /\ m \in Int
    BY DEF CutPlace
  <2> HIDE DEF L
  <2> QED
    BY <1>2, <2>1, <2>2
<1>4. ASSUME NEW b \in 1..L
      PROVE  x(b) \in Int /\ y(b) \in Int /\ x(b) <= y(b) /\ cs[b] = Cutout(bs[b], x(b), y(b))
  <2>1. x(b) \in Int /\ y(b) \in Int /\ x(b) <= y(b)
    <3> HIDE DEF p, q
    <3>1. Before(bs, b) \in Int
      BY <1>3
    <3> QED
      BY <1>3, <3>1
  <2>2. Within(x(b), Len(bs[b])) = IF b < f THEN Len(bs[b]) + 1 ELSE IF b = f THEN k ELSE 1
    BY <1>1, WithinChains
  <2>3. Within(y(b), Len(bs[b])) = IF b < g THEN Len(bs[b]) + 1 ELSE IF b = g THEN m ELSE 1
    BY <1>1, WithinChains
  <2>4. cs[b] = SubSeq(bs[b], 1, Within(x(b), Len(bs[b])) - 1)
                  \o SubSeq(bs[b], Within(y(b), Len(bs[b])), Len(bs[b]))
    <3>1. cs[b] = SubSeq(bs[b], 1, (IF b < f THEN Len(bs[b]) + 1 ELSE IF b = f THEN k ELSE 1) - 1)
                    \o SubSeq(bs[b], IF b < g THEN Len(bs[b]) + 1 ELSE IF b = g THEN m ELSE 1, Len(bs[b]))
      BY DEF CutChains
    <3> HIDE DEF cs, x, y
    <3> QED
      BY <2>2, <2>3, <3>1, Zenon
  <2> HIDE DEF cs, x, y
  <2> QED
    BY <2>1, <2>4 DEF Cutout
<1> HIDE DEF p, q, x, y
<1>5. cs = [b \in 1..L |-> cs[b]]
  BY DEF CutChains
<1> HIDE DEF cs, L
<1>6. ASSUME NEW b \in 1..L
      PROVE  /\ cs[b] \in Seq(Elem) /\ Grouped(cs[b])
             /\ \A i \in 1..Len(cs[b]) : \E n \in 1..Len(bs[b]) : cs[b][i] = bs[b][n]
  <2> DEFINE s == bs[b]
             u == x(b)
             v == y(b)
  <2>1. u \in Int /\ v \in Int /\ u <= v /\ cs[b] = Cutout(s, u, v) /\ s \in Seq(Elem) /\ Grouped(s)
    BY <1>1, <1>2, <1>4
  <2> HIDE DEF s, u, v
  <2>2. /\ Cutout(s, u, v) \in Seq(Elem) /\ Grouped(Cutout(s, u, v))
        /\ \A i \in 1..Len(Cutout(s, u, v)) : \E n \in 1..Len(s) : Cutout(s, u, v)[i] = s[n]
    BY <2>1, CutoutKeeps
  <2> QED
    BY <2>1, <2>2 DEF s
<1>7. cs \in Seq(Seq(Elem)) /\ Len(cs) = L
  <2> DEFINE A == Seq(Elem)
  <2>1. \A b \in 1..L : cs[b] \in A
    BY <1>6
  <2> HIDE DEF A
  <2>2. cs \in [1..L -> A]
    BY <1>5, <2>1
  <2>3. cs \in Seq(A) /\ Len(cs) = L
    BY <1>2, <2>2, IsASeq
  <2> QED
    BY <2>3 DEF A
<1>8. Housed(cs)
  <2> SUFFICES ASSUME NEW b \in 1..L, NEW i \in 1..Len(cs[b])
               PROVE  BktNum(cs[b][i].key, L) = b
    BY <1>7 DEF Housed
  <2>1. PICK n \in 1..Len(bs[b]) : cs[b][i] = bs[b][n]
    BY <1>6
  <2>2. BktNum(bs[b][n].key, L) = b
    BY <1>1 DEF Housed, L
  <2> QED
    BY <2>1, <2>2
<1>9. FlattenSeq(cs) = Cutout(FlattenSeq(bs), p, q)
  <2>1. CutsEvery(cs, bs, p, q)
    BY <1>4 DEF x, y, L, CutsEvery
  <2>2. Len(cs) = Len(bs)
    BY <1>7 DEF L
  <2> QED
    BY <1>1, <1>3, <1>7, <2>1, <2>2, FlatCutout
<1>10. Shaped(cs)
  BY <1>2, <1>6, <1>7, <1>8 DEF Shaped, Chains
<1> QED
  BY <1>7, <1>9, <1>10 DEF cs, p, q, L

-----------------------------------------------------------------------------
(***************************************************************************)
(* What iterations find.                                                   *)
(***************************************************************************)
\* The places of iterators, as cuts.
LEMMA IteratorsCut ==
  ASSUME NEW bs \in Chains, NEW it \in Places(bs)
  PROVE  /\ CutPlace(bs, it[1], it[2]) /\ Pos(bs, it) = Before(bs, it[1]) + it[2]
         /\ CutPlace(bs, Len(bs) + 1, 1) /\ Pos(bs, End) = Before(bs, Len(bs) + 1) + 1
<1>1. bs \in Seq(Seq(Elem)) /\ Len(bs) \in Nat
  BY DEF Chains
<1>2. it[1] \in 1..Len(bs) /\ it[2] \in 1..Len(bs[it[1]])
  BY PlacesAre
<1>3. Len(bs[it[1]]) \in Nat
  <2>1. bs[it[1]] \in Seq(Elem)
    BY <1>1, <1>2
  <2> QED
    BY <2>1
<1>4. CutPlace(bs, it[1], it[2])
  <2> DEFINE b == it[1]
             i == it[2]
             n == Len(bs[b])
  <2>1. b \in 1..Len(bs) /\ i \in 1..n /\ n \in Nat
    BY <1>2, <1>3
  <2> HIDE DEF b, i, n
  <2>2. b \in 1..(Len(bs) + 1) /\ b <= Len(bs) /\ i \in 1..(n + 1)
    BY <1>1, <2>1
  <2>3. CutPlace(bs, b, i)
    BY <2>2 DEF CutPlace, n
  <2> QED
    BY <2>3 DEF b, i
<1>5. CutPlace(bs, Len(bs) + 1, 1)
  <2>1. Len(bs) + 1 \in 1..(Len(bs) + 1) /\ ~(Len(bs) + 1 <= Len(bs))
    BY <1>1
  <2> QED
    BY <2>1 DEF CutPlace
<1>6. Before(bs, Len(bs) + 1) = Len(FlattenSeq(bs))
  BY <1>1, ChainsFollow
<1> QED
  BY <1>4, <1>5, <1>6, PositionsLie

\* An iteration begins at the first element, or at once at End.
LEMMA BeginLies ==
  ASSUME NEW bs, Shaped(bs)
  PROVE  Begin(bs) \in Iterators(bs) /\ Pos(bs, Begin(bs)) = 1
<1>1. bs \in Chains /\ bs \in Seq(Seq(Elem)) /\ Len(bs) \in Nat
  BY DEF Shaped, Chains
<1>2. 1 \in 1..(Len(bs) + 1)
  BY <1>1
<1>3. Before(bs, 1) = 0
  BY <1>1, ChainsFollow
<1> QED
  BY <1>1, <1>2, <1>3, FirstFromLies DEF Begin

\* An iteration finds every element once.
LEMMA FindsAllHolds ==
  ASSUME NEW bs, Shaped(bs)
  PROVE  FindsAll(bs)
<1> DEFINE flat == FlattenSeq(bs)
<1>1. bs \in Chains /\ Housed(bs)
  BY DEF Shaped
<1>2. flat \in Seq(Elem) /\ Pos(bs, End) = Len(flat) + 1
  BY <1>1, PositionsLie
<1>3. Begin(bs) \in Iterators(bs) /\ Pos(bs, Begin(bs)) = 1 /\ End \in Iterators(bs)
  BY BeginLies DEF Iterators
<1>4. Len(flat) \in Nat
  BY <1>2
<1> HIDE DEF flat
<1>5. Pos(bs, Begin(bs)) <= Pos(bs, End) /\ Pos(bs, End) - 1 = Len(flat)
  BY <1>2, <1>3, <1>4
<1>6. Between(bs, Begin(bs), End) = SubSeq(flat, Pos(bs, Begin(bs)), Pos(bs, End) - 1)
  BY <1>1, <1>3, <1>5, BetweenReads DEF flat
<1>7. SubSeq(flat, 1, Len(flat)) = flat
  BY <1>2, SubSeqFull
<1> QED
  BY <1>3, <1>5, <1>6, <1>7 DEF FindsAll, flat

\* The cuts that erase(first, last) makes.
LEMMA ErasedCuts ==
  ASSUME NEW bs \in Chains, NEW first \in Places(bs), NEW last \in Places(bs) \cup {End},
         last = End \/ Ahead(first, last)
  PROVE  /\ Pos(bs, first) < Pos(bs, last)
         /\ last # End => Erased(bs, first, last) = CutChains(bs, first[1], first[2], last[1], last[2])
         /\ last = End => Erased(bs, first, last) = CutChains(bs, first[1], first[2], Len(bs) + 1, 1)
<1> DEFINE L == Len(bs)
           f == first[1]
           k == first[2]
           g == IF last = End THEN L + 1 ELSE last[1]
           m == IF last = End THEN 1 ELSE last[2]
<1>1. L \in Nat /\ DOMAIN bs = 1..L /\ \A b \in 1..L : bs[b] \in Seq(Elem)
  BY DEF Chains
<1>2. /\ f \in 1..L /\ k \in 1..Len(bs[f])
      /\ last # End => last[1] \in 1..L /\ last[2] \in 1..Len(bs[last[1]])
  BY PlacesAre
<1>3. ~(End[1] > f) /\ f <= g /\ (f = g => k < m)
  <2>1. End[1] = 0
    BY DEF End
  <2>2. CASE last = End
    BY <1>1, <1>2, <2>1, <2>2
  <2>3. CASE last # End
    <3>1. g = last[1] /\ m = last[2]
      BY <2>3
    <3>2. Ahead(first, last)
      BY <2>3
    <3>3. last[1] \in Int /\ f \in Int
      BY <1>1, <1>2, <2>3
    <3> QED
      BY <1>1, <1>2, <2>1, <3>1, <3>2, <3>3 DEF Ahead
  <2> QED
    BY <2>2, <2>3
<1>4. Pos(bs, first) < Pos(bs, last)
  <2>1. CASE last = End
    <3>1. Pos(bs, first) \in 1..Len(FlattenSeq(bs)) /\ Pos(bs, last) = Len(FlattenSeq(bs)) + 1
      BY <2>1, PositionsLie
    <3>2. Len(FlattenSeq(bs)) \in Nat
      <4>1. FlattenSeq(bs) \in Seq(Elem)
        BY PositionsLie
      <4> QED
        BY <4>1
    <3> QED
      BY <3>1, <3>2
  <2>2. CASE last # End /\ f < last[1]
    BY <2>2, PositionsLie
  <2>3. CASE last # End /\ f = last[1] /\ k < last[2]
    <3>1. Pos(bs, first) = Before(bs, f) + k /\ Pos(bs, last) = Before(bs, f) + last[2]
      BY <2>3, PositionsLie
    <3>2. Before(bs, f) \in Nat
      <4>1. bs \in Seq(Seq(Elem)) /\ f \in 1..(L + 1)
        BY <1>1, <1>2 DEF Chains
      <4> QED
        BY <4>1, ChainsFollow
    <3>3. k \in Int /\ last[2] \in Int
      BY <1>2, <2>3
    <3> QED
      BY <2>3, <3>1, <3>2, <3>3
  <2> QED
    BY <2>1, <2>2, <2>3 DEF Ahead
<1>5. \A b \in 1..L : Len(bs[b]) \in Nat
  BY <1>1
<1>6. Erased(bs, first, last) = CutChains(bs, f, k, g, m)
  <2> DEFINE e == Erased(bs, first, last)
             c == CutChains(bs, f, k, g, m)
             w(b) == IF b < f THEN Len(bs[b]) + 1 ELSE IF b = f THEN k ELSE 1
             z(b) == IF b < g THEN Len(bs[b]) + 1 ELSE IF b = g THEN m ELSE 1
             y(b) == IF b = g THEN last[2] ELSE Len(bs[b]) + 1
             x(b) == IF b = f THEN k - 1 ELSE 0
  <2>1. e = [b \in 1..L |-> IF b < f \/ b > g THEN bs[b]
                            ELSE SubSeq(bs[b], 1, x(b)) \o SubSeq(bs[b], y(b), Len(bs[b]))]
    BY <1>1 DEF Erased
  <2>2. c = [b \in 1..L |-> SubSeq(bs[b], 1, w(b) - 1) \o SubSeq(bs[b], z(b), Len(bs[b]))]
    BY DEF CutChains
  <2>3. ASSUME NEW b \in 1..L PROVE e[b] = c[b]
    <3> DEFINE s == bs[b]
    <3>1. s \in Seq(Elem) /\ Len(s) \in Nat /\ b \in Nat /\ f \in Nat /\ k \in Nat /\ g \in Nat /\ m \in Nat
      <4>1. k \in Nat
        BY <1>2
      <4>2. m \in Nat
        BY <1>2
      <4> QED
        BY <1>1, <1>2, <1>5, <4>1, <4>2
    <3>2. c[b] = SubSeq(s, 1, w(b) - 1) \o SubSeq(s, z(b), Len(s))
      BY <2>2
    <3>3. e[b] = IF b < f \/ b > g THEN s ELSE SubSeq(s, 1, x(b)) \o SubSeq(s, y(b), Len(s))
      BY <2>1
    <3>p. b = g => y(b) = z(b)
      BY <1>1
    <3> HIDE DEF e, c, s
    <3>4. CASE b < f
      <4>1. w(b) - 1 = Len(s) /\ z(b) = Len(s) + 1
        <5> HIDE DEF g, m, f, k
        <5> QED
          BY <1>3, <3>1, <3>4 DEF s
      <4> HIDE DEF w, z
      <4>2. SubSeq(s, 1, w(b) - 1) = s /\ SubSeq(s, z(b), Len(s)) = << >>
        <5>1. Len(s) + 1 \in Int /\ Len(s) \in Int /\ Len(s) < Len(s) + 1
          BY <3>1
        <5>2. SubSeq(s, Len(s) + 1, Len(s)) = << >>
          BY <5>1, SubSeqEmpty
        <5> QED
          BY <3>1, <4>1, <5>2, SubSeqFull
      <4>3. c[b] = s
        BY <3>1, <3>2, <4>2, ConcatEmptySeq
      <4> QED
        BY <3>3, <3>4, <4>3
    <3>5. CASE b > g
      <4>1. w(b) - 1 = 0 /\ z(b) = 1
        <5> HIDE DEF g, m, f, k
        <5> QED
          BY <1>3, <3>1, <3>5 DEF s
      <4> HIDE DEF w, z
      <4>2. SubSeq(s, 1, w(b) - 1) = << >> /\ SubSeq(s, z(b), Len(s)) = s
        <5>1. SubSeq(s, 1, 0) = << >>
          BY SubSeqEmpty
        <5> QED
          BY <3>1, <4>1, <5>1, SubSeqFull
      <4>3. c[b] = s
        BY <3>1, <3>2, <4>2, ConcatEmptySeq
      <4> QED
        BY <3>3, <3>5, <4>3
    <3>6. CASE ~(b < f) /\ ~(b > g)
      <4>1. w(b) - 1 = x(b) /\ (b # g => z(b) = y(b))
        <5> HIDE DEF g, m, f, k
        <5> QED
          BY <3>1, <3>6 DEF s
      <4>2. z(b) = y(b)
        BY <3>p, <4>1
      <4> HIDE DEF w, x, y, z
      <4> QED
        BY <3>2, <3>3, <3>6, <4>1, <4>2
    <3> QED
      BY <3>4, <3>5, <3>6
  <2> HIDE DEF w, x, y, z
  <2>4. e = [b \in 1..L |-> e[b]] /\ c = [b \in 1..L |-> c[b]]
    <3> HIDE DEF e, c
    <3> QED
      BY <2>1, <2>2
  <2> HIDE DEF e, c
  <2>5. e = c
    BY <2>3, <2>4
  <2> QED
    BY <2>5 DEF e, c
<1> QED
  BY <1>4, <1>6

\* An erase by buckets takes out what lies between two positions.
LEMMA ErasedFlat ==
  ASSUME NEW bs, Shaped(bs), NEW first \in Places(bs), NEW last \in Places(bs) \cup {End},
         last = End \/ Ahead(first, last)
  PROVE  /\ Shaped(Erased(bs, first, last))
         /\ FlattenSeq(Erased(bs, first, last))
              = SubSeq(FlattenSeq(bs), 1, Pos(bs, first) - 1)
                  \o SubSeq(FlattenSeq(bs), Pos(bs, last), Len(FlattenSeq(bs)))
<1> DEFINE flat == FlattenSeq(bs)
           p == Pos(bs, first)
           q == Pos(bs, last)
           cs == Erased(bs, first, last)
<1>1. bs \in Chains
  BY DEF Shaped
<1>2. flat \in Seq(Elem) /\ Len(flat) \in Nat
  <2>1. flat \in Seq(Elem)
    BY <1>1, PositionsLie
  <2> QED
    BY <2>1
<1>3. p \in 1..Len(flat) /\ q \in 1..(Len(flat) + 1) /\ p < q
  <2>1. p < q
    BY <1>1, ErasedCuts
  <2>2. p \in 1..Len(flat)
    BY <1>1, PositionsLie
  <2>3. last = End => q = Len(flat) + 1
    BY <1>1, PositionsLie
  <2>4. last # End => q \in 1..Len(flat)
    BY <1>1, PositionsLie
  <2> HIDE DEF p, q, flat
  <2> QED
    BY <1>2, <2>1, <2>2, <2>3, <2>4
<1>4. Shaped(cs) /\ FlattenSeq(cs) = Cutout(flat, p, q)
  <2>1. CutPlace(bs, first[1], first[2]) /\ p = Before(bs, first[1]) + first[2]
    BY <1>1, IteratorsCut
  <2>2. CASE last = End
    <3>1. CutPlace(bs, Len(bs) + 1, 1) /\ q = Before(bs, Len(bs) + 1) + 1
      BY <1>1, <2>2, IteratorsCut
    <3>2. cs = CutChains(bs, first[1], first[2], Len(bs) + 1, 1)
      BY <1>1, <2>2, ErasedCuts
    <3>3. Before(bs, first[1]) + first[2] <= Before(bs, Len(bs) + 1) + 1
      <4> HIDE DEF p, q, flat
      <4> QED
        BY <1>2, <1>3, <2>1, <3>1
    <3> HIDE DEF p, q, flat, cs
    <3> QED
      BY <2>1, <3>1, <3>2, <3>3, CutChainsFlat DEF flat
  <2>3. CASE last # End
    <3>1. CutPlace(bs, last[1], last[2]) /\ q = Before(bs, last[1]) + last[2]
      BY <1>1, <2>3, IteratorsCut
    <3>2. cs = CutChains(bs, first[1], first[2], last[1], last[2])
      BY <1>1, <2>3, ErasedCuts
    <3>3. Before(bs, first[1]) + first[2] <= Before(bs, last[1]) + last[2]
      <4> HIDE DEF p, q, flat
      <4> QED
        BY <1>2, <1>3, <2>1, <3>1
    <3> HIDE DEF p, q, flat, cs
    <3> QED
      BY <2>1, <3>1, <3>2, <3>3, CutChainsFlat DEF flat
  <2> QED
    BY <2>2, <2>3
<1> HIDE DEF p, q, flat, cs
<1>5. Within(p, Len(flat)) = p /\ Within(q, Len(flat)) = q
  BY <1>2, <1>3 DEF Within
<1>6. Cutout(flat, p, q) = SubSeq(flat, 1, p - 1) \o SubSeq(flat, q, Len(flat))
  BY <1>5 DEF Cutout
<1> QED
  BY <1>4, <1>6 DEF p, q, flat, cs

\* erase(first, last) erases what an iteration from first to last meets.
LEMMA ErasesBetweenHolds ==
  ASSUME NEW bs, Shaped(bs)
  PROVE  ErasesBetween(bs)
<1> DEFINE flat == FlattenSeq(bs)
<1>1. bs \in Chains /\ Housed(bs)
  BY DEF Shaped
<1>2. flat \in Seq(Elem) /\ Len(flat) \in Nat
  <2>1. flat \in Seq(Elem)
    BY <1>1, PositionsLie
  <2> QED
    BY <2>1
<1>3. Begin(bs) \in Iterators(bs) /\ Pos(bs, Begin(bs)) = 1 /\ End \in Iterators(bs)
  BY BeginLies DEF Iterators
<1>4. Pos(bs, End) = Len(flat) + 1
  BY <1>1, PositionsLie
<1> SUFFICES ASSUME NEW first \in Places(bs), NEW last \in Places(bs) \cup {End},
                    last = End \/ Ahead(first, last)
             PROVE  FlattenSeq(Erased(bs, first, last)) =
                      Between(bs, Begin(bs), first) \o (IF last = End THEN << >> ELSE Between(bs, last, End))
  BY DEF ErasesBetween
<1>5. FlattenSeq(Erased(bs, first, last))
        = SubSeq(flat, 1, Pos(bs, first) - 1) \o SubSeq(flat, Pos(bs, last), Len(flat))
  BY ErasedFlat
<1>6. first \in Iterators(bs) /\ last \in Iterators(bs)
  BY DEF Iterators
<1>7. Pos(bs, first) \in 1..Len(flat)
  BY <1>1, PositionsLie
<1> HIDE DEF flat
<1>8. Between(bs, Begin(bs), first) = SubSeq(flat, 1, Pos(bs, first) - 1)
  <2>1. Pos(bs, Begin(bs)) <= Pos(bs, first)
    BY <1>3, <1>7
  <2>2. Between(bs, Begin(bs), first) = SubSeq(flat, Pos(bs, Begin(bs)), Pos(bs, first) - 1)
    BY <1>1, <1>3, <1>6, <2>1, BetweenReads DEF flat
  <2> QED
    BY <1>3, <2>2
<1>9. SubSeq(flat, Pos(bs, last), Len(flat)) = IF last = End THEN << >> ELSE Between(bs, last, End)
  <2>1. CASE last = End
    <3>1. Len(flat) + 1 \in Int /\ Len(flat) \in Int /\ Len(flat) < Len(flat) + 1
      BY <1>2
    <3>2. SubSeq(flat, Len(flat) + 1, Len(flat)) = << >>
      BY <3>1, SubSeqEmpty
    <3> QED
      BY <1>4, <2>1, <3>2
  <2>2. CASE last # End
    <3>1. Pos(bs, last) \in 1..Len(flat)
      BY <1>1, <2>2, PositionsLie DEF flat
    <3>2. Pos(bs, last) <= Pos(bs, End) /\ Pos(bs, End) - 1 = Len(flat)
      BY <1>2, <1>4, <3>1
    <3>3. Between(bs, last, End) = SubSeq(flat, Pos(bs, last), Pos(bs, End) - 1)
      BY <1>1, <1>3, <1>6, <3>2, BetweenReads DEF flat
    <3> QED
      BY <2>2, <3>2, <3>3
  <2> QED
    BY <2>1, <2>2
<1> QED
  BY <1>5, <1>8, <1>9

\* The elements with a key are those from the p-th up to the q-th.
KeyBetween(s, k, p, q) ==
  /\ p \in 1..(Len(s) + 1) /\ q \in 1..(Len(s) + 1) /\ p <= q
  /\ \A i \in 1..Len(s) : s[i].key = k <=> p <= i /\ i < q

\* The elements with a key in the concatenation: those of its bucket.
LEMMA KeyPositions ==
  ASSUME NEW bs, Shaped(bs), NEW k \in Key, NEW n, n = BktNum(k, Len(bs)),
         NEW p, NEW q, KeyBetween(bs[n], k, p, q)
  PROVE  KeyBetween(FlattenSeq(bs), k, Before(bs, n) + p, Before(bs, n) + q)
<1> DEFINE flat == FlattenSeq(bs)
           L == Len(bs)
           B(b) == Before(bs, b)
<1>1. bs \in Chains /\ bs \in Seq(Seq(Elem)) /\ Housed(bs) /\ L \in Nat /\ L >= 1
  BY DEF Shaped, Chains
<1>2. n \in 1..L
  BY <1>1, BucketOf
<1>3. /\ \A b \in 1..L : \A i \in 1..Len(bs[b]) : B(b) + i \in 1..Len(flat) /\ flat[B(b) + i] = bs[b][i]
      /\ \A r \in 1..Len(flat) : \E b \in 1..L : \E i \in 1..Len(bs[b]) : r = B(b) + i
  BY <1>1, PlacesLie
<1>4. /\ flat \in Seq(Elem) /\ B(L + 1) = Len(flat)
      /\ \A b \in 1..(L + 1) : B(b) \in Nat
      /\ \A b \in 1..L : B(b + 1) = B(b) + Len(bs[b])
      /\ \A b, c \in 1..(L + 1) : b <= c => B(b) <= B(c)
  BY <1>1, ChainsFollow
<1>5. Len(flat) \in Nat /\ \A b \in 1..L : Len(bs[b]) \in Nat
  <2>1. \A b \in 1..L : bs[b] \in Seq(Elem)
    BY <1>1
  <2> QED
    BY <1>4, <2>1
<1>6. \A b \in 1..L : \A i \in 1..Len(bs[b]) : BktNum(bs[b][i].key, L) = b
  BY <1>1 DEF Housed
<1>7. p \in 1..(Len(bs[n]) + 1) /\ q \in 1..(Len(bs[n]) + 1) /\ p <= q
  BY DEF KeyBetween
<1>n. n = BktNum(k, L)
  OBVIOUS
<1>k. \A i \in 1..Len(bs[n]) : bs[n][i].key = k <=> p <= i /\ i < q
  BY DEF KeyBetween
<1> HIDE DEF flat, L, B
<1>8. /\ B(n) \in Nat /\ B(n) + Len(bs[n]) <= Len(flat) /\ p \in Nat /\ q \in Nat
  <2>1. n \in 1..(L + 1) /\ n + 1 \in 1..(L + 1) /\ L + 1 \in 1..(L + 1) /\ n + 1 <= L + 1
    BY <1>1, <1>2
  <2>2. B(n + 1) <= B(L + 1) /\ B(n + 1) = B(n) + Len(bs[n])
    BY <1>2, <1>4, <2>1
  <2> QED
    BY <1>4, <1>7, <2>1, <2>2
<1>9. B(n) + p \in 1..(Len(flat) + 1) /\ B(n) + q \in 1..(Len(flat) + 1) /\ B(n) + p <= B(n) + q
  <2>1. Len(bs[n]) \in Nat /\ p >= 1 /\ q >= 1 /\ p <= Len(bs[n]) + 1 /\ q <= Len(bs[n]) + 1
    BY <1>2, <1>5, <1>7
  <2>2. B(n) \in Nat /\ p \in Nat /\ q \in Nat /\ p <= q /\ Len(flat) \in Nat /\ B(n) + Len(bs[n]) <= Len(flat)
    BY <1>5, <1>7, <1>8
  <2> QED
    BY ONLY <2>1, <2>2
<1>10. ASSUME NEW r \in 1..Len(flat), flat[r].key = k PROVE B(n) + p <= r /\ r < B(n) + q
  <2>1. PICK b \in 1..L : \E i \in 1..Len(bs[b]) : r = B(b) + i
    BY <1>3
  <2>2. PICK i \in 1..Len(bs[b]) : r = B(b) + i
    BY <2>1
  <2>3. flat[r] = bs[b][i]
    BY <1>3, <2>2
  <2>4. b = n
    BY <1>6, <1>10, <1>n, <2>3
  <2>5. i \in 1..Len(bs[n]) /\ bs[n][i].key = k
    BY <1>10, <2>3, <2>4
  <2>6. p <= i /\ i < q /\ i \in Nat
    BY <1>2, <1>5, <1>k, <2>5
  <2> QED
    BY <1>8, <2>2, <2>4, <2>6
<1>11. ASSUME NEW r \in 1..Len(flat), B(n) + p <= r, r < B(n) + q PROVE flat[r].key = k
  <2> DEFINE i == r - B(n)
  <2>1. i \in 1..Len(bs[n]) /\ r = B(n) + i /\ p <= i /\ i < q
    <3>1. Len(bs[n]) \in Nat /\ p >= 1 /\ q <= Len(bs[n]) + 1
      BY <1>2, <1>5, <1>7
    <3>2. r \in Nat /\ B(n) \in Nat /\ Len(flat) \in Nat
      BY <1>5, <1>8
    <3>3. B(n) + p <= r /\ r < B(n) + q /\ p \in Nat /\ q \in Nat
      BY <1>8, <1>11
    <3> QED
      BY ONLY <3>1, <3>2, <3>3 DEF i
  <2> HIDE DEF i
  <2> QED
    BY <1>2, <1>3, <1>k, <2>1
<1> QED
  BY <1>9, <1>10, <1>11 DEF KeyBetween, flat, B

\* Has the chain an element with the key, and where they are if it has.
LEMMA KeyInBucket ==
  ASSUME NEW bs, Shaped(bs), NEW k \in Key, NEW n, n = BktNum(k, Len(bs))
  PROVE  /\ n \in 1..Len(bs) /\ bs[n] \in Seq(Elem) /\ Grouped(bs[n])
         /\ HasKey(bs, k) <=> \E i \in 1..Len(bs[n]) : bs[n][i].key = k
<1>1. bs \in Chains /\ Len(bs) \in Nat /\ Len(bs) >= 1
  BY DEF Shaped, Chains
<1>2. n \in 1..Len(bs)
  BY <1>1, BucketOf
<1>3. bs[n] \in Seq(Elem) /\ Grouped(bs[n])
  BY <1>1, <1>2 DEF Shaped, Chains
<1>4. DOMAIN bs[n] = 1..Len(bs[n])
  BY <1>3
<1> QED
  BY <1>2, <1>3, <1>4 DEF HasKey

\* An iteration over equal_range finds all with the key and no other.
LEMMA FindsEqualHolds ==
  ASSUME NEW bs, Shaped(bs)
  PROVE  FindsEqual(bs)
<1> DEFINE flat == FlattenSeq(bs)
<1>1. bs \in Chains /\ bs \in Seq(Seq(Elem)) /\ Housed(bs)
  BY DEF Shaped, Chains
<1>2. flat \in Seq(Elem) /\ Len(flat) \in Nat
  <2>1. flat \in Seq(Elem)
    BY <1>1, PositionsLie
  <2> QED
    BY <2>1
<1> HIDE DEF flat
<1> SUFFICES ASSUME NEW k \in Key
             PROVE  Between(bs, EqualRange(bs, k)[1], EqualRange(bs, k)[2]) = Keeping(flat, {k})
  BY DEF FindsEqual, flat
<1> DEFINE n == BktNum(k, Len(bs))
           s == bs[n]
           p == KeyFrom(s, k)
           q == KeyTo(s, k)
<1>3. /\ n \in 1..Len(bs) /\ s \in Seq(Elem) /\ Grouped(s)
      /\ HasKey(bs, k) <=> \E i \in 1..Len(s) : s[i].key = k
  BY KeyInBucket
<1>4. CASE ~HasKey(bs, k)
  <2> DEFINE e == Len(flat) + 1
  <2>1. EqualRange(bs, k)[1] = End /\ EqualRange(bs, k)[2] = End
    BY <1>4 DEF EqualRange
  <2>2. End \in Iterators(bs) /\ Pos(bs, End) = e /\ e \in Int
    BY <1>1, <1>2, PositionsLie DEF Iterators, flat
  <2>3. Pos(bs, End) <= Pos(bs, End)
    BY <2>2
  <2> HIDE DEF e
  <2>4. Between(bs, End, End) = SubSeq(flat, e, e - 1)
    BY <1>1, <2>2, <2>3, BetweenReads DEF flat
  <2>5. e \in 1..(Len(flat) + 1) /\ e <= e
    BY <1>2 DEF e
  <2>6. \A i \in 1..Len(flat) : flat[i].key \in {k} <=> e <= i /\ i < e
    <3> SUFFICES ASSUME NEW i \in 1..Len(flat), flat[i].key = k PROVE FALSE
      BY <2>2, <1>2
    <3>1. PICK b \in 1..Len(bs) : \E j \in 1..Len(bs[b]) : i = Before(bs, b) + j
      BY <1>1, PlacesLie DEF flat
    <3>2. PICK j \in 1..Len(bs[b]) : i = Before(bs, b) + j
      BY <3>1
    <3>3. flat[i] = bs[b][j]
      BY <1>1, <3>2, PlacesLie DEF flat
    <3>4. b = n
      BY <1>1, <3>3 DEF Housed
    <3> HIDE DEF n
    <3> QED
      BY <1>3, <1>4, <3>3, <3>4
  <2>7. Keeping(flat, {k}) = SubSeq(flat, e, e - 1)
    BY <1>2, <2>5, <2>6, KeepingRange
  <2> QED
    BY <2>1, <2>4, <2>7
<1>5. CASE HasKey(bs, k)
  <2>1. \E i \in 1..Len(s) : s[i].key = k
    BY <1>3, <1>5
  <2> DEFINE other == {i \in DOMAIN s : i > p /\ s[i].key # k}
             first == <<n, p>>
             last == IF other = {} THEN FirstFrom(bs, n + 1) ELSE <<n, Min(other)>>
  <2>2. EqualRange(bs, k)[1] = first /\ EqualRange(bs, k)[2] = last
    BY <1>5 DEF EqualRange, KeyFrom
  <2>3. q = IF other = {} THEN Len(s) + 1 ELSE Min(other)
    BY DEF KeyTo, KeyFrom
  <2>o. other # {} => Min(other) \in 1..Len(s)
    <3>1. other \in SUBSET Nat /\ other \subseteq 1..Len(s)
      BY <1>3
    <3> HIDE DEF other
    <3> QED
      BY <3>1, Least
  <2> HIDE DEF other, n
  <2>4. /\ p \in 1..Len(s) /\ q \in 1..(Len(s) + 1) /\ p < q
        /\ \A i \in 1..Len(s) : s[i].key = k <=> p <= i /\ i < q
    <3> DEFINE x == p
               y == q
    <3>1. x = KeyFrom(s, k) /\ y = KeyTo(s, k)
      OBVIOUS
    <3> HIDE DEF x, y, s
    <3>2. /\ x \in 1..Len(s) /\ y \in 1..(Len(s) + 1) /\ x < y
          /\ \A i \in 1..Len(s) : s[i].key = k <=> x <= i /\ i < y
      BY <1>3, <2>1, <3>1, KeyRange
    <3> QED
      BY <3>2 DEF x, y
  <2>l. Len(s) \in Nat /\ Len(bs) \in Nat
    BY <1>1, <1>3
  <2>5. first \in Iterators(bs) /\ Pos(bs, first) = Before(bs, n) + p
    <3>1. first \in Places(bs)
      BY <1>1, <1>3, <2>4, PlacesAre
    <3> HIDE DEF p
    <3> QED
      BY <1>1, <3>1, PositionsLie DEF Iterators
  <2>6. last \in Iterators(bs) /\ Pos(bs, last) = Before(bs, n) + q
    <3>1. CASE other = {}
      <4>1. last = FirstFrom(bs, n + 1) /\ q = Len(s) + 1
        BY <2>3, <3>1
      <4>2. n + 1 \in 1..(Len(bs) + 1)
        BY <1>3, <2>l
      <4>3. last \in Iterators(bs) /\ Pos(bs, last) = Before(bs, n + 1) + 1
        <5> HIDE DEF last
        <5> QED
          BY <1>1, <4>1, <4>2, FirstFromLies
      <4>4. Before(bs, n + 1) = Before(bs, n) + Len(s) /\ Before(bs, n) \in Nat
        <5>1. n \in 1..(Len(bs) + 1)
          BY <1>3, <2>l
        <5> QED
          BY <1>1, <1>3, <5>1, ChainsFollow
      <4>5. (Before(bs, n) + Len(s)) + 1 = Before(bs, n) + (Len(s) + 1)
        BY <2>l, <4>4
      <4> HIDE DEF last, q, s
      <4> QED
        BY <4>1, <4>3, <4>4, <4>5
    <3>2. CASE other # {}
      <4>1. last = <<n, q>>
        BY <2>3, <3>2
      <4>2. q \in 1..Len(s)
        BY <2>3, <2>o, <3>2
      <4>3. <<n, q>> \in Places(bs)
        <5> HIDE DEF q, last
        <5> QED
          BY <1>1, <1>3, <4>2, PlacesAre
      <4>4. Pos(bs, <<n, q>>) = Before(bs, n) + q
        <5> HIDE DEF q, last
        <5> QED
          BY <1>1, <4>3, PositionsLie
      <4> HIDE DEF last, q
      <4> QED
        BY <4>1, <4>3, <4>4 DEF Iterators
    <3> QED
      BY <3>1, <3>2
  <2> DEFINE u == Before(bs, n) + p
             v == Before(bs, n) + q
  <2>7. /\ u \in 1..(Len(flat) + 1) /\ v \in 1..(Len(flat) + 1) /\ u <= v
        /\ \A i \in 1..Len(flat) : flat[i].key = k <=> u <= i /\ i < v
    <3> DEFINE x == p
               y == q
    <3>1. KeyBetween(bs[n], k, x, y)
      BY <2>4, <2>l DEF KeyBetween
    <3>2. n = BktNum(k, Len(bs))
      BY DEF n
    <3>3. u = Before(bs, n) + x /\ v = Before(bs, n) + y
      OBVIOUS
    <3> HIDE DEF x, y, u, v
    <3>4. KeyBetween(flat, k, u, v)
      BY <3>1, <3>2, <3>3, KeyPositions DEF flat
    <3> QED
      BY <3>4 DEF KeyBetween
  <2> HIDE DEF u, v, first, last
  <2>8. Keeping(flat, {k}) = SubSeq(flat, u, v - 1)
    <3>1. \A i \in 1..Len(flat) : flat[i].key \in {k} <=> u <= i /\ i < v
      BY <2>7
    <3> QED
      BY <1>2, <2>7, <3>1, KeepingRange
  <2>9. Between(bs, first, last) = SubSeq(flat, u, v - 1)
    <3>1. Pos(bs, first) = u /\ Pos(bs, last) = v
      BY <2>5, <2>6 DEF u, v
    <3>2. Pos(bs, first) <= Pos(bs, last)
      BY <2>7, <3>1
    <3>3. Between(bs, first, last) = SubSeq(FlattenSeq(bs), Pos(bs, first), Pos(bs, last) - 1)
      BY <1>1, <2>5, <2>6, <3>2, BetweenReads
    <3> QED
      BY <3>1, <3>3 DEF flat
  <2> QED
    BY <2>2, <2>8, <2>9
<1> QED
  BY <1>4, <1>5

(***************************************************************************)
(* How often an element occurs.                                            *)
(***************************************************************************)
Count(s, e) == Abstract!Count(s, e)
\* Where it does.
Spots(s, e) == {i \in 1..Len(s) : s[i] = e}

\* It occurs as often as there are such places, which are finitely many.
LEMMA CountIs ==
  ASSUME NEW s \in Seq(Elem), NEW e
  PROVE  /\ IsFiniteSet(Spots(s, e)) /\ Count(s, e) = Cardinality(Spots(s, e)) /\ Count(s, e) \in Nat
         /\ Count(s, e) = 0 <=> Spots(s, e) = {}
<1>1. Abstract!Cardinality(Spots(s, e)) = Cardinality(Spots(s, e))
  BY DEF Abstract!Cardinality, Cardinality, Abstract!IsFiniteSet, IsFiniteSet
<1>2. DOMAIN s = 1..Len(s) /\ Len(s) \in Int
  OBVIOUS
<1>3. Spots(s, e) \in SUBSET (1..Len(s))
  BY DEF Spots
<1>4. IsFiniteSet(1..Len(s))
  BY <1>2, FS_Interval
<1>5. IsFiniteSet(Spots(s, e))
  BY <1>3, <1>4, FS_Subset
<1>6. Count(s, e) = Cardinality(Spots(s, e))
  BY <1>1, <1>2 DEF Count, Abstract!Count, Spots
<1> QED
  BY <1>5, <1>6, FS_CardinalityType, FS_EmptySet

\* In two sequences together it occurs as often as in both.
LEMMA CountConcat ==
  ASSUME NEW s \in Seq(Elem), NEW t \in Seq(Elem), NEW e
  PROVE  Count(s \o t, e) = Count(s, e) + Count(t, e)
<1> DEFINE L == Len(s)
           M == Len(t)
           A == Spots(s, e)
           B == Spots(t, e)
           C == Spots(s \o t, e)
           D == {i \in C : i > L}
           f == [i \in B |-> i + L]
<1>1. L \in Nat /\ M \in Nat
  OBVIOUS
<1>2. /\ s \o t \in Seq(Elem) /\ Len(s \o t) = L + M
      /\ \A i \in 1..(L + M) : (s \o t)[i] = IF i <= L THEN s[i] ELSE t[i - L]
  BY ConcatProperties
<1>3. /\ IsFiniteSet(A) /\ Count(s, e) = Cardinality(A)
      /\ IsFiniteSet(B) /\ Count(t, e) = Cardinality(B) /\ Count(t, e) \in Nat
      /\ IsFiniteSet(C) /\ Count(s \o t, e) = Cardinality(C) /\ Count(s, e) \in Nat
  BY <1>2, CountIs
<1> DEFINE u == s \o t
<1>4. /\ A = {i \in 1..L : s[i] = e} /\ B = {i \in 1..M : t[i] = e} /\ C = {i \in 1..(L + M) : u[i] = e}
  BY <1>2 DEF Spots
<1>5. \A i \in 1..(L + M) : u[i] = IF i <= L THEN s[i] ELSE t[i - L]
  BY <1>2
<1> HIDE DEF L, M, u, A, B, C
<1>6. A = {i \in C : i <= L}
  BY <1>1, <1>4, <1>5
<1>7. A \cup D = C /\ A \cap D = {} /\ IsFiniteSet(D)
  <2>1. A \cup D = C /\ A \cap D = {}
    BY <1>1, <1>4, <1>6
  <2>2. D \in SUBSET C
    OBVIOUS
  <2> QED
    BY <1>3, <2>1, <2>2, FS_Subset
<1>8. D = {i + L : i \in B}
  <2>1. ASSUME NEW i \in D PROVE i - L \in B /\ i = (i - L) + L
    BY <1>1, <1>4, <1>5
  <2>2. ASSUME NEW i \in B PROVE i + L \in D
    <3>1. i + L \in 1..(L + M) /\ ~(i + L <= L) /\ (i + L) - L = i /\ i + L > L
      BY <1>1, <1>4
    <3>2. u[i + L] = e
      BY <1>4, <1>5, <3>1
    <3> QED
      BY <1>4, <3>1, <3>2
  <2> QED
    BY <2>1, <2>2
<1>9. f \in Bijection(B, D)
  <2>1. f \in [B -> D] /\ \A d \in D : \E i \in B : f[i] = d
    BY <1>8
  <2>2. \A i, j \in B : f[i] = f[j] => i = j
    BY <1>1, <1>4
  <2> HIDE DEF f, D
  <2>3. f \in Injection(B, D)
    BY <2>1, <2>2 DEF Injection, IsInjective
  <2>4. f \in Surjection(B, D)
    BY <2>1 DEF Surjection
  <2> QED
    BY <2>3, <2>4 DEF Bijection
<1>10. Cardinality(D) = Cardinality(B)
  <2>1. ExistsBijection(B, D)
    BY <1>9 DEF ExistsBijection
  <2> QED
    BY <1>3, <2>1, FS_Bijection
<1>11. Cardinality(A \cup D) = Cardinality(A) + Cardinality(D) - Cardinality(A \cap D)
  BY <1>3, <1>7, FS_Union
<1>12. Cardinality(A \cap D) = 0
  BY <1>7, FS_EmptySet
<1>13. Cardinality(C) = Cardinality(A) + Cardinality(B)
  <2>1. Cardinality(C) = Cardinality(A) + Cardinality(B) - 0
    BY <1>7, <1>10, <1>11, <1>12
  <2>2. Cardinality(A) \in Nat /\ Cardinality(B) \in Nat
    BY <1>3
  <2> QED
    BY <2>1, <2>2
<1> QED
  BY <1>3, <1>13 DEF u

\* It occurs in none, or once, in the sequences of none or one.
LEMMA CountFew ==
  ASSUME NEW x \in Elem, NEW e
  PROVE  Count(<< >>, e) = 0 /\ Count(<<x>>, e) = IF x = e THEN 1 ELSE 0
<1>1. << >> \in Seq(Elem) /\ Spots(<< >>, e) = {}
  BY DEF Spots
<1>2. <<x>> \in Seq(Elem) /\ Spots(<<x>>, e) = IF x = e THEN {1} ELSE {}
  <2>1. Len(<<x>>) = 1 /\ <<x>>[1] = x /\ <<x>> \in Seq(Elem)
    OBVIOUS
  <2>2. Spots(<<x>>, e) = {i \in {1} : <<x>>[i] = e}
    BY <2>1 DEF Spots
  <2> QED
    BY <2>1, <2>2
<1>3. Count(<< >>, e) = 0
  BY <1>1, CountIs
<1>4. Count(<<x>>, e) = Cardinality(Spots(<<x>>, e))
  BY <1>2, CountIs
<1> QED
  BY <1>2, <1>3, <1>4, FS_Singleton, FS_EmptySet

\* What is in a sequence occurs in it.
LEMMA CountHas ==
  ASSUME NEW s \in Seq(Elem), NEW e
  PROVE  Count(s, e) >= 1 <=> \E i \in 1..Len(s) : s[i] = e
<1>1. Count(s, e) \in Nat /\ (Count(s, e) = 0 <=> Spots(s, e) = {})
  BY CountIs
<1>2. Spots(s, e) # {} <=> \E i \in 1..Len(s) : s[i] = e
  BY DEF Spots
<1> QED
  BY <1>1, <1>2

\* A concatenation holds as many more as one of its chains holds.
LEMMA FlatCount ==
  ASSUME NEW bs \in Chains, NEW cs \in Chains, Len(cs) = Len(bs), NEW n \in 1..Len(bs),
         \A b \in 1..Len(bs) : b # n => cs[b] = bs[b],
         NEW e, NEW d \in Nat, Count(cs[n], e) = Count(bs[n], e) + d
  PROVE  Count(FlattenSeq(cs), e) = Count(FlattenSeq(bs), e) + d
<1> DEFINE L == Len(bs)
           C(b) == Count(Upto(bs, b), e)
           D(b) == Count(Upto(cs, b), e)
           T == {b \in Nat : b <= L => D(b) = C(b) + (IF b >= n THEN d ELSE 0)}
<1>1. L \in Nat /\ bs \in Seq(Seq(Elem)) /\ cs \in Seq(Seq(Elem)) /\ Len(cs) = L
  BY DEF Chains
<1>2. /\ Upto(bs, 0) = << >> /\ \A b \in 0..L : Upto(bs, b) \in Seq(Elem)
      /\ \A b \in 1..L : Upto(bs, b) = Upto(bs, b - 1) \o bs[b]
      /\ Upto(bs, L) = FlattenSeq(bs)
  BY <1>1, UptoGrows
<1>3. /\ Upto(cs, 0) = << >> /\ \A b \in 0..L : Upto(cs, b) \in Seq(Elem)
      /\ \A b \in 1..L : Upto(cs, b) = Upto(cs, b - 1) \o cs[b]
      /\ Upto(cs, L) = FlattenSeq(cs)
  BY <1>1, UptoGrows
<1>4. \A b \in 1..L : bs[b] \in Seq(Elem) /\ cs[b] \in Seq(Elem)
  BY <1>1
<1>n. n \in 1..L /\ \A b \in 1..L : b # n => cs[b] = bs[b]
  OBVIOUS
<1> HIDE DEF L
<1>5. ASSUME NEW b \in 1..L
      PROVE  C(b) = C(b - 1) + Count(bs[b], e) /\ D(b) = D(b - 1) + Count(cs[b], e)
  <2>1. b - 1 \in 0..L
    BY <1>1
  <2>2. Upto(bs, b - 1) \in Seq(Elem) /\ Upto(cs, b - 1) \in Seq(Elem)
    BY <1>2, <1>3, <2>1
  <2>3. Count(Upto(bs, b - 1) \o bs[b], e) = C(b - 1) + Count(bs[b], e)
    BY <1>4, <2>2, CountConcat
  <2>4. Count(Upto(cs, b - 1) \o cs[b], e) = D(b - 1) + Count(cs[b], e)
    BY <1>4, <2>2, CountConcat
  <2> QED
    BY <1>2, <1>3, <2>3, <2>4
<1>6. /\ \A b \in 0..L : C(b) \in Nat
      /\ \A b \in 1..L : Count(bs[b], e) \in Nat
  BY <1>2, <1>4, CountIs
<1>7. 0 \in T
  <2>1. D(0) = C(0) /\ C(0) \in Nat
    <3>1. 0 \in 0..L
      BY <1>1
    <3> QED
      BY <1>2, <1>3, <1>6, <3>1
  <2> HIDE DEF C, D
  <2> QED
    BY <1>n, <1>1, <2>1
<1>8. ASSUME NEW m \in Nat, m \in T PROVE m + 1 \in T
  <2> SUFFICES ASSUME m + 1 <= L PROVE D(m + 1) = C(m + 1) + (IF m + 1 >= n THEN d ELSE 0)
    OBVIOUS
  <2> DEFINE b == m + 1
             x == Count(bs[b], e)
             y == Count(cs[b], e)
  <2>1. b \in 1..L /\ b - 1 = m /\ m \in 0..L
    BY <1>1
  <2>2. C(b) = C(m) + x /\ D(b) = D(m) + y
    BY <1>5, <2>1
  <2>3. D(m) = C(m) + (IF m >= n THEN d ELSE 0) /\ C(m) \in Nat /\ x \in Nat
    BY <1>6, <1>8, <2>1
  <2>4. y = x + (IF b = n THEN d ELSE 0)
    <3>1. CASE b = n
      BY <3>1
    <3>2. CASE b # n
      <4>1. y = x
        BY <1>n, <2>1, <3>2
      <4> HIDE DEF x, y, b
      <4> QED
        BY <2>3, <3>2, <4>1
    <3> QED
      BY <3>1, <3>2
  <2>5. b = m + 1 /\ n \in Int
    BY <1>n
  <2> HIDE DEF C, D, x, y, b, T
  <2>6. D(b) = C(b) + (IF b >= n THEN d ELSE 0)
    BY <2>2, <2>3, <2>4, <2>5
  <2> QED
    BY <2>6 DEF b
<1> HIDE DEF T, C, D
<1>9. L \in T
  BY <1>1, <1>7, <1>8, FromZero
<1>10. D(L) = C(L) + d
  BY <1>1, <1>9, <1>n DEF T
<1> QED
  BY <1>2, <1>3, <1>10 DEF C, D

-----------------------------------------------------------------------------
(***************************************************************************)
(* Chains that change.                                                     *)
(***************************************************************************)
LEMMA NextSizePositive ==
  ASSUME NEW n
  PROVE  NextSize(n) \in Nat /\ NextSize(n) >= 1
<1> DEFINE fits == {i \in DOMAIN PrimeList : PrimeList[i] >= n}
<1>1. /\ PrimeList \in Seq(Nat \ {0}) /\ Len(PrimeList) \in Nat /\ Len(PrimeList) # 0
      /\ DOMAIN PrimeList = 1..Len(PrimeList)
  BY HashTableAssumption
<1>2. \A i \in DOMAIN PrimeList : PrimeList[i] \in Nat /\ PrimeList[i] >= 1
  BY <1>1
<1>3. Len(PrimeList) \in DOMAIN PrimeList
  BY <1>1
<1>4. fits \in SUBSET Nat /\ fits \subseteq DOMAIN PrimeList
  BY <1>1
<1> HIDE DEF fits
<1>5. fits # {} => Min(fits) \in DOMAIN PrimeList
  <2>1. ASSUME fits # {} PROVE Min(fits) \in fits
    BY <1>4, <2>1, Least
  <2> QED
    BY <1>4, <2>1
<1>6. NextSize(n) = IF fits = {} THEN PrimeList[Len(PrimeList)] ELSE PrimeList[Min(fits)]
  BY DEF NextSize, Last, fits
<1> QED
  BY <1>2, <1>3, <1>5, <1>6

\* New buckets are shaped so, and hold nothing.
LEMMA EmptyShaped ==
  ASSUME NEW n \in Nat, n >= 1
  PROVE  Shaped(Empty(n)) /\ Len(Empty(n)) = n /\ FlattenSeq(Empty(n)) = << >>
<1> DEFINE bs == Empty(n)
<1>1. bs \in [1..n -> Seq(Elem)] /\ \A b \in 1..n : bs[b] = << >>
  BY DEF Empty
<1> HIDE DEF bs
<1>2. bs \in Seq(Seq(Elem)) /\ Len(bs) = n
  <2> DEFINE A == Seq(Elem)
  <2>1. bs \in [1..n -> A]
    BY <1>1
  <2> HIDE DEF A
  <2>2. bs \in Seq(A) /\ Len(bs) = n
    BY <2>1, IsASeq
  <2> QED
    BY <2>2 DEF A
<1>3. << >> \in Seq(Elem) /\ Len(<< >>) = 0
  OBVIOUS
<1>4. Grouped(<< >>)
  <2> DEFINE e == << >>
  <2>1. e \in Seq(Elem) /\ Len(e) = 0
    BY <1>3
  <2> HIDE DEF e
  <2>2. \A i, j, k \in 1..Len(e) : i < j /\ j < k /\ e[i].key = e[k].key => e[j].key = e[i].key
    BY <2>1
  <2>3. Grouped(e)
    BY <2>1, <2>2, GroupedMeans
  <2> QED
    BY <2>3 DEF e
<1>5. Housed(bs)
  BY <1>1, <1>2, <1>3 DEF Housed
<1>6. Shaped(bs)
  BY <1>1, <1>2, <1>4, <1>5 DEF Shaped, Chains
<1>7. FlattenSeq(bs) = << >>
  <2> DEFINE f == [b \in 0..n |-> << >>]
  <2>1. f[0] = << >> /\ f[n] = << >> /\ \A b \in 1..n : f[b] = << >> /\ f[b - 1] = << >>
    BY <1>2
  <2> HIDE DEF f
  <2>2. << >> \o << >> = << >>
    BY <1>3, ConcatEmptySeq
  <2>3. Growing(f, bs)
    BY <1>1, <1>2, <2>1, <2>2 DEF Growing
  <2> QED
    BY <1>2, <2>1, <2>3, FlatIs
<1> QED
  BY <1>2, <1>6, <1>7 DEF bs

\* Of n buckets, the elements of c belong in the b-th.
BelongIn(c, b, n) == \A i \in 1..Len(c) : BktNum(c[i].key, n) = b

\* One chain for another.
Exchange(bs, n, c) == [bs EXCEPT ![n] = c]

\* A chain may be exchanged for another whose elements belong in its bucket.
LEMMA Exchanged ==
  ASSUME NEW bs, Shaped(bs), NEW n \in 1..Len(bs), NEW c \in Seq(Elem), Grouped(c),
         BelongIn(c, n, Len(bs))
  PROVE  /\ Shaped(Exchange(bs, n, c)) /\ Len(Exchange(bs, n, c)) = Len(bs)
         /\ Exchange(bs, n, c)[n] = c
         /\ \A b \in 1..Len(bs) : b # n => Exchange(bs, n, c)[b] = bs[b]
<1> DEFINE L == Len(bs)
           cs == Exchange(bs, n, c)
<1>1. bs \in Seq(Seq(Elem)) /\ Housed(bs) /\ L >= 1 /\ \A b \in 1..L : Grouped(bs[b])
  BY DEF Shaped, Chains
<1>2. cs \in Seq(Seq(Elem)) /\ Len(cs) = L
  <2> DEFINE A == Seq(Elem)
  <2>1. bs \in Seq(A) /\ c \in A
    BY <1>1
  <2> HIDE DEF A
  <2>2. cs \in Seq(A) /\ Len(cs) = L
    BY <2>1, ExceptSeq DEF Exchange
  <2> QED
    BY <2>2 DEF A
<1>3. cs[n] = c /\ \A b \in 1..L : b # n => cs[b] = bs[b]
  <2>1. DOMAIN bs = 1..L
    BY <1>1
  <2> QED
    BY <2>1 DEF Exchange
<1> HIDE DEF cs
<1>4. Housed(cs)
  <2> SUFFICES ASSUME NEW b \in 1..L, NEW i \in 1..Len(cs[b])
               PROVE  BktNum(cs[b][i].key, L) = b
    BY <1>2 DEF Housed
  <2> HIDE DEF L
  <2>1. CASE b = n
    BY <1>3, <2>1 DEF L, BelongIn
  <2>2. CASE b # n
    BY <1>1, <1>3, <2>2 DEF Housed, L
  <2> QED
    BY <2>1, <2>2
<1>5. \A b \in 1..L : Grouped(cs[b])
  BY <1>1, <1>3
<1> QED
  BY <1>1, <1>2, <1>3, <1>4, <1>5 DEF Shaped, Chains, cs

\* An element put in front of its chain, where those with its key are, if any.
LEMMA PushedAdds ==
  ASSUME NEW bs, Shaped(bs), NEW e \in Elem, NEW n, n = BktNum(e.key, Len(bs)),
         HasKey(bs, e.key) => bs[n] # << >> /\ bs[n][1].key = e.key
  PROVE  /\ Shaped(Pushed(bs, e)) /\ Len(Pushed(bs, e)) = Len(bs)
         /\ Pushed(bs, e)[n] # << >> /\ Pushed(bs, e)[n][1] = e
         /\ \A x : Count(FlattenSeq(Pushed(bs, e)), x)
                     = Count(FlattenSeq(bs), x) + (IF x = e THEN 1 ELSE 0)
<1> DEFINE s == bs[n]
           c == <<e>> \o s
           cs == Pushed(bs, e)
           k == e.key
<1>1. bs \in Chains /\ Housed(bs) /\ k \in Key
  BY DEF Shaped, Elem
<1>2. /\ n \in 1..Len(bs) /\ s \in Seq(Elem) /\ Grouped(s)
      /\ HasKey(bs, k) <=> \E i \in 1..Len(s) : s[i].key = k
  BY <1>1, KeyInBucket
<1>3. <<e>> \in Seq(Elem) /\ Len(<<e>>) = 1 /\ <<e>>[1] = e
  OBVIOUS
<1>4. Len(s) \in Nat
  BY <1>2
<1>h. \A i \in 1..Len(s) : BktNum(s[i].key, Len(bs)) = n
  BY <1>1, <1>2 DEF Housed
<1>g. \A x, y, z \in 1..Len(s) : x < y /\ y < z /\ s[x].key = s[z].key => s[y].key = s[x].key
  BY <1>2, GroupedMeans
<1>f. HasKey(bs, k) => s # << >> /\ s[1].key = k
  OBVIOUS
<1>p. cs = Exchange(bs, n, c)
  BY DEF Pushed, Exchange
<1>n. n = BktNum(k, Len(bs))
  OBVIOUS
<1> HIDE DEF s, cs, k
<1>5. /\ c \in Seq(Elem) /\ Len(c) = 1 + Len(s)
      /\ \A i \in 1..(1 + Len(s)) : c[i] = IF i <= 1 THEN <<e>>[i] ELSE s[i - 1]
  BY <1>2, <1>3, ConcatProperties
<1> HIDE DEF c
<1>6. c[1] = e /\ \A i \in 1..Len(c) : i # 1 => i - 1 \in 1..Len(s) /\ c[i] = s[i - 1]
  BY <1>3, <1>4, <1>5
<1>7. Grouped(c)
  <2>1. ASSUME NEW i \in 1..Len(c), NEW j \in 1..Len(c), NEW m \in 1..Len(c),
               i < j, j < m, c[i].key = c[m].key
        PROVE  c[j].key = c[i].key
    <3>1. /\ j - 1 \in 1..Len(s) /\ c[j] = s[j - 1] /\ m - 1 \in 1..Len(s) /\ c[m] = s[m - 1]
          /\ j - 1 < m - 1
      <4>1. j # 1 /\ m # 1 /\ j - 1 < m - 1
        BY <1>4, <1>5, <2>1
      <4> QED
        BY <1>6, <4>1
    <3>2. CASE i = 1
      <4>1. s[m - 1].key = k
        BY <1>6, <2>1, <3>1, <3>2 DEF k
      <4>2. s[1].key = k
        BY <1>2, <1>f, <3>1, <4>1
      <4>3. CASE j - 1 = 1
        BY <1>6, <3>1, <3>2, <4>2, <4>3 DEF k
      <4>4. CASE j - 1 # 1
        <5>1. 1 \in 1..Len(s) /\ 1 < j - 1
          BY <1>4, <3>1, <4>4
        <5>2. s[j - 1].key = s[1].key
          BY <1>g, <3>1, <4>1, <4>2, <5>1
        <5> QED
          BY <1>6, <3>1, <3>2, <4>2, <5>2 DEF k
      <4> QED
        BY <4>3, <4>4
    <3>3. CASE i # 1
      <4>1. i - 1 \in 1..Len(s) /\ c[i] = s[i - 1] /\ i - 1 < j - 1
        BY <1>4, <1>5, <1>6, <2>1, <3>3
      <4>2. s[i - 1].key = s[m - 1].key
        BY <2>1, <3>1, <4>1
      <4>3. s[j - 1].key = s[i - 1].key
        BY <1>g, <3>1, <4>1, <4>2
      <4> QED
        BY <3>1, <4>1, <4>3
    <3> QED
      BY <3>2, <3>3
  <2> QED
    BY <1>5, <2>1, GroupedMeans
<1>8. BelongIn(c, n, Len(bs))
  BY <1>6, <1>h, <1>n DEF k, BelongIn
<1>9. /\ Shaped(cs) /\ Len(cs) = Len(bs) /\ cs[n] = c
      /\ \A b \in 1..Len(bs) : b # n => cs[b] = bs[b]
  <2>1. /\ Shaped(Exchange(bs, n, c)) /\ Len(Exchange(bs, n, c)) = Len(bs) /\ Exchange(bs, n, c)[n] = c
        /\ \A b \in 1..Len(bs) : b # n => Exchange(bs, n, c)[b] = bs[b]
    <3>1. Shaped(bs) /\ n \in 1..Len(bs) /\ c \in Seq(Elem) /\ Grouped(c) /\ BelongIn(c, n, Len(bs))
      BY <1>2, <1>5, <1>7, <1>8
    <3> QED
      BY ONLY <3>1, Exchanged
  <2> QED
    BY <1>p, <2>1
<1>10. ASSUME NEW x
       PROVE  Count(FlattenSeq(cs), x) = Count(FlattenSeq(bs), x) + (IF x = e THEN 1 ELSE 0)
  <2> DEFINE d == IF x = e THEN 1 ELSE 0
  <2>1. Count(c, x) = Count(<<e>>, x) + Count(s, x)
    BY <1>2, <1>3, CountConcat DEF c
  <2>2. Count(<<e>>, x) = d
    BY CountFew
  <2>3. Count(s, x) \in Nat /\ d \in Nat
    BY <1>2, CountIs
  <2> HIDE DEF d
  <2>4. Count(cs[n], x) = Count(bs[n], x) + d
    BY <1>9, <2>1, <2>2, <2>3 DEF s
  <2>5. cs \in Chains
    BY <1>9 DEF Shaped
  <2>6. Count(FlattenSeq(cs), x) = Count(FlattenSeq(bs), x) + d
    <3>1. /\ bs \in Chains /\ cs \in Chains /\ Len(cs) = Len(bs) /\ n \in 1..Len(bs) /\ d \in Nat
          /\ \A b \in 1..Len(bs) : b # n => cs[b] = bs[b]
      BY <1>1, <1>2, <1>9, <2>3, <2>5
    <3> QED
      BY ONLY <2>4, <3>1, FlatCount
  <2> QED
    BY <2>6 DEF d
<1>11. c # << >>
  BY <1>4, <1>5
<1> QED
  BY <1>6, <1>9, <1>10, <1>11 DEF cs

\* An element put behind the first with its key, or in front.
LEMMA PlacedAdds ==
  ASSUME NEW bs, Shaped(bs), NEW e \in Elem
  PROVE  /\ Shaped(Placed(bs, e))
         /\ \A x : Count(FlattenSeq(Placed(bs, e)), x)
                     = Count(FlattenSeq(bs), x) + (IF x = e THEN 1 ELSE 0)
<1> DEFINE k == e.key
           n == BktNum(k, Len(bs))
           s == bs[n]
           p == FirstWith(s, k)
           a == SubSeq(s, 1, p)
           b == SubSeq(s, p + 1, Len(s))
           c == InsertAt(s, p + 1, e)
           cs == Placed(bs, e)
<1>1. CASE ~HasKey(bs, e.key)
  <2>1. cs = Pushed(bs, e)
    BY <1>1 DEF Placed
  <2> HIDE DEF cs
  <2> QED
    BY <1>1, <2>1, PushedAdds DEF cs
<1>2. CASE HasKey(bs, e.key)
  <2>1. bs \in Chains /\ Housed(bs) /\ k \in Key
    BY DEF Shaped, Elem
  <2>2. /\ n \in 1..Len(bs) /\ s \in Seq(Elem) /\ Grouped(s)
        /\ \E i \in 1..Len(s) : s[i].key = k
    BY <1>2, <2>1, KeyInBucket
  <2>3. cs = Exchange(bs, n, c)
    BY <1>2 DEF Placed, Exchange
  <2>4. BelongIn(s, n, Len(bs))
    BY <2>1, <2>2 DEF Housed, BelongIn
  <2>n. n = BktNum(k, Len(bs))
    OBVIOUS
  <2> HIDE DEF cs, n
  <2>5. Len(s) \in Nat
    BY <2>2
  <2> DEFINE with == {i \in DOMAIN s : s[i].key = k}
  <2>6. p \in 1..Len(s) /\ s[p].key = k
    <3>1. DOMAIN s = 1..Len(s)
      BY <2>2
    <3>2. with \in SUBSET Nat /\ with # {} /\ with = {i \in 1..Len(s) : s[i].key = k}
      BY <2>2, <3>1
    <3>3. p = Min(with)
      BY DEF FirstWith
    <3> HIDE DEF with, p, s
    <3>4. p \in with
      BY <3>2, <3>3, Least
    <3> QED
      BY <3>2, <3>4
  <2> HIDE DEF s, p, k, with
  <2>7. /\ a \in Seq(Elem) /\ Len(a) = p
        /\ \A i \in 1..p : a[i] = s[i]
    <3>1. 1 \in 1..(Len(s) + 1) /\ p \in 0..Len(s) /\ 1 <= p + 1 /\ p - 1 + 1 = p
      BY <2>5, <2>6
    <3>2. /\ a \in Seq(Elem) /\ Len(a) = p - 1 + 1
          /\ \A i \in 1..(p - 1 + 1) : a[i] = s[1 + i - 1]
      BY <2>2, <3>1, Slices
    <3>3. \A i \in 1..p : 1 + i - 1 = i
      BY <2>6
    <3> HIDE DEF a
    <3> QED
      BY <3>1, <3>2, <3>3
  <2>8. /\ b \in Seq(Elem) /\ Len(b) = Len(s) - p
        /\ \A i \in 1..(Len(s) - p) : b[i] = s[p + i]
    <3> DEFINE q == p + 1
               r == SubSeq(s, q, Len(s))
    <3>1. q \in 1..(Len(s) + 1) /\ Len(s) \in 0..Len(s) /\ q <= Len(s) + 1
      BY <2>5, <2>6
    <3> HIDE DEF q
    <3>2. /\ r \in Seq(Elem) /\ Len(r) = Len(s) - q + 1
          /\ \A i \in 1..(Len(s) - q + 1) : r[i] = s[q + i - 1]
      BY <2>2, <3>1, Slices
    <3> HIDE DEF r
    <3>3. Len(s) - q + 1 = Len(s) - p /\ \A i \in 1..(Len(s) - p) : q + i - 1 = p + i
      BY <2>5, <2>6 DEF q
    <3>4. /\ r \in Seq(Elem) /\ Len(r) = Len(s) - p
          /\ \A i \in 1..(Len(s) - p) : r[i] = s[p + i]
      BY <3>2, <3>3
    <3> QED
      BY <3>4 DEF r, q
  <2>9. c = a \o <<e>> \o b
    <3>1. (p + 1) - 1 = p
      BY <2>6
    <3> QED
      BY <3>1 DEF InsertAt
  <2> DEFINE ae == a \o <<e>>
  <2> HIDE DEF a, b, c
  <2>10. <<e>> \in Seq(Elem) /\ Len(<<e>>) = 1 /\ <<e>>[1] = e
    OBVIOUS
  <2>11. /\ ae \in Seq(Elem) /\ Len(ae) = p + 1
         /\ \A i \in 1..(p + 1) : ae[i] = IF i <= p THEN s[i] ELSE e
    <3>1. /\ ae \in Seq(Elem) /\ Len(ae) = Len(a) + Len(<<e>>)
          /\ \A i \in 1..(Len(a) + Len(<<e>>)) : ae[i] = IF i <= Len(a) THEN a[i] ELSE <<e>>[i - Len(a)]
      BY <2>7, <2>10, ConcatProperties
    <3> HIDE DEF ae
    <3>2. Len(a) + Len(<<e>>) = p + 1 /\ Len(a) = p
      BY <2>7, <2>10
    <3>3. ASSUME NEW i \in 1..(p + 1) PROVE ae[i] = IF i <= p THEN s[i] ELSE e
      <4>1. ae[i] = IF i <= p THEN a[i] ELSE <<e>>[i - p]
        BY <3>1, <3>2
      <4>2. CASE i <= p
        <5>1. i \in 1..p
          BY <2>6, <4>2
        <5> QED
          BY <2>7, <4>1, <4>2, <5>1
      <4>3. CASE ~(i <= p)
        <5>1. i - p = 1
          BY <2>6, <4>3
        <5> QED
          BY <2>10, <4>1, <4>3, <5>1
      <4> QED
        BY <4>2, <4>3
    <3> QED
      BY <3>1, <3>2, <3>3
  <2> HIDE DEF ae
  <2>12. /\ c \in Seq(Elem) /\ Len(c) = Len(s) + 1
         /\ \A i \in 1..(Len(s) + 1) : c[i] = IF i <= p + 1 THEN ae[i] ELSE b[i - (p + 1)]
    <3>1. /\ ae \o b \in Seq(Elem) /\ Len(ae \o b) = Len(ae) + Len(b)
          /\ \A i \in 1..(Len(ae) + Len(b)) : (ae \o b)[i] = IF i <= Len(ae) THEN ae[i] ELSE b[i - Len(ae)]
      BY <2>8, <2>11, ConcatProperties
    <3>2. Len(ae) + Len(b) = Len(s) + 1 /\ Len(ae) = p + 1
      BY <2>5, <2>6, <2>8, <2>11
    <3>3. c = ae \o b
      BY <2>9 DEF ae
    <3> QED
      BY <3>1, <3>2, <3>3
  <2> DEFINE at(i) == IF i <= p THEN i ELSE i - 1
  <2>13. ASSUME NEW i \in 1..Len(c)
         PROVE  at(i) \in 1..Len(s) /\ c[i].key = s[at(i)].key
    <3>1. i \in 1..(Len(s) + 1)
      BY <2>12
    <3>2. CASE i <= p
      <4>1. i \in 1..Len(s) /\ i \in 1..(p + 1) /\ i <= p + 1
        BY <2>5, <2>6, <3>1, <3>2
      <4> QED
        BY <2>11, <2>12, <3>1, <3>2, <4>1
    <3>3. CASE i = p + 1
      <4>1. c[i] = e /\ at(i) = p
        BY <2>6, <2>11, <2>12, <3>1, <3>3
      <4> HIDE DEF at
      <4> QED
        BY <2>6, <4>1 DEF k
    <3>4. CASE i > p + 1
      <4>1. i - (p + 1) \in 1..(Len(s) - p) /\ p + (i - (p + 1)) = i - 1 /\ i - 1 \in 1..Len(s) /\ ~(i <= p + 1) /\ ~(i <= p)
        BY <2>5, <2>6, <3>1, <3>4
      <4>2. c[i] = s[i - 1]
        BY <2>8, <2>12, <3>1, <4>1
      <4> QED
        BY <4>1, <4>2
    <3> QED
      BY <2>6, <3>1, <3>2, <3>3, <3>4
  <2>14. ASSUME NEW i \in 1..Len(c), NEW j \in 1..Len(c), i < j PROVE at(i) <= at(j)
    <3>1. i \in Int /\ j \in Int /\ p \in Int
      BY <2>6, <2>12
    <3> QED
      BY ONLY <2>14, <3>1
  <2> HIDE DEF at
  <2>15. Grouped(c)
    <3>1. ASSUME NEW i \in 1..Len(c), NEW j \in 1..Len(c), NEW m \in 1..Len(c),
                 i < j, j < m, c[i].key = c[m].key
          PROVE  c[j].key = c[i].key
      <4>1. at(i) <= at(j) /\ at(j) <= at(m)
        BY <2>14, <3>1
      <4>2. /\ at(i) \in 1..Len(s) /\ at(j) \in 1..Len(s) /\ at(m) \in 1..Len(s)
            /\ c[i].key = s[at(i)].key /\ c[j].key = s[at(j)].key /\ c[m].key = s[at(m)].key
        BY <2>13
      <4>3. CASE at(i) = at(j) \/ at(j) = at(m)
        BY <3>1, <4>2, <4>3
      <4>4. CASE at(i) < at(j) /\ at(j) < at(m)
        <5>1. \A x, y, z \in 1..Len(s) : x < y /\ y < z /\ s[x].key = s[z].key => s[y].key = s[x].key
          BY <2>2, GroupedMeans
        <5>2. s[at(i)].key = s[at(m)].key
          BY <3>1, <4>2
        <5>3. s[at(j)].key = s[at(i)].key
          BY <4>2, <4>4, <5>1, <5>2
        <5> QED
          BY <4>2, <5>3
      <4> QED
        BY <4>1, <4>2, <4>3, <4>4
    <3> QED
      BY <2>12, <3>1, GroupedMeans
  <2>16. BelongIn(c, n, Len(bs))
    BY <2>4, <2>13 DEF BelongIn
  <2>17. /\ Shaped(cs) /\ Len(cs) = Len(bs) /\ cs[n] = c
         /\ \A i \in 1..Len(bs) : i # n => cs[i] = bs[i]
    <3>1. Shaped(bs) /\ n \in 1..Len(bs) /\ c \in Seq(Elem) /\ Grouped(c) /\ BelongIn(c, n, Len(bs))
      BY <2>2, <2>12, <2>15, <2>16
    <3>2. /\ Shaped(Exchange(bs, n, c)) /\ Len(Exchange(bs, n, c)) = Len(bs) /\ Exchange(bs, n, c)[n] = c
          /\ \A i \in 1..Len(bs) : i # n => Exchange(bs, n, c)[i] = bs[i]
      BY ONLY <3>1, Exchanged
    <3> QED
      BY <2>3, <3>2
  <2>18. s = a \o b
    <3>1. 1 \in 1..(Len(s) + 1) /\ p \in (1 - 1)..Len(s) /\ Len(s) \in p..Len(s)
      BY <2>5, <2>6
    <3>2. SubSeq(s, 1, p) \o SubSeq(s, p + 1, Len(s)) = SubSeq(s, 1, Len(s))
      BY <2>2, <3>1, ConcatAdjacentSubSeq
    <3>3. SubSeq(s, 1, Len(s)) = s
      BY <2>2, SubSeqFull
    <3> QED
      BY <3>2, <3>3 DEF a, b
  <2>19. ASSUME NEW x
         PROVE  Count(FlattenSeq(cs), x) = Count(FlattenSeq(bs), x) + (IF x = e THEN 1 ELSE 0)
    <3> DEFINE d == IF x = e THEN 1 ELSE 0
    <3>1. /\ Count(c, x) = Count(ae, x) + Count(b, x)
          /\ Count(ae, x) = Count(a, x) + Count(<<e>>, x)
          /\ Count(s, x) = Count(a, x) + Count(b, x)
      <4>1. c = ae \o b
        BY <2>9 DEF ae
      <4>2. Count(ae \o b, x) = Count(ae, x) + Count(b, x)
        BY <2>8, <2>11, CountConcat
      <4>3. Count(a \o <<e>>, x) = Count(a, x) + Count(<<e>>, x)
        BY <2>7, <2>10, CountConcat
      <4>4. Count(a \o b, x) = Count(a, x) + Count(b, x)
        BY <2>7, <2>8, CountConcat
      <4> QED
        BY <2>18, <4>1, <4>2, <4>3, <4>4 DEF ae
    <3>2. Count(<<e>>, x) = d
      BY CountFew
    <3>3. Count(a, x) \in Nat /\ Count(b, x) \in Nat /\ d \in Nat
      BY <2>7, <2>8, CountIs
    <3> HIDE DEF d
    <3>4. Count(cs[n], x) = Count(bs[n], x) + d
      BY <2>17, <3>1, <3>2, <3>3 DEF s
    <3>5. cs \in Chains
      BY <2>17 DEF Shaped
    <3>6. Count(FlattenSeq(cs), x) = Count(FlattenSeq(bs), x) + d
      BY <2>1, <2>2, <2>17, <3>3, <3>4, <3>5, FlatCount
    <3> QED
      BY <3>6 DEF d
  <2> QED
    BY <2>17, <2>19 DEF cs
<1> QED
  BY <1>1, <1>2

\* Every element moved to the front of its new chain: those with its key, if
\* there are any, went there right before it.
LEMMA Rehashes ==
  ASSUME NEW bs, Shaped(bs), NEW n \in Nat, n >= 1
  PROVE  /\ Shaped(Rehash(bs, n))
         /\ \A x : Count(FlattenSeq(Rehash(bs, n)), x) = Count(FlattenSeq(bs), x)
<1> DEFINE nodes == FlattenSeq(bs)
           L == Len(nodes)
           A == {c \in Chains : Len(c) = n}
           G == [i \in 1..L |-> [c \in A |-> Pushed(c, nodes[i])]]
           moved == CHOOSE f : f = [m \in 0..L |-> IF m = 0 THEN Empty(n) ELSE Pushed(f[m - 1], nodes[m])]
           first(m) == SubSeq(nodes, 1, m)
<1>1. nodes \in Seq(Elem)
  <2>1. bs \in Seq(Seq(Elem))
    BY DEF Shaped, Chains
  <2> QED
    BY <2>1, ChainsFollow
<1>2. L \in Nat /\ \A i \in 1..L : nodes[i] \in Elem
  BY <1>1
<1>3. Grouped(nodes)
  BY FlatGrouped
<1>4. Rehash(bs, n) = moved[L]
  BY DEF Rehash
<1> HIDE DEF L
<1>5. Empty(n) \in A /\ Shaped(Empty(n)) /\ FlattenSeq(Empty(n)) = << >>
  BY EmptyShaped DEF Shaped
<1>6. ASSUME NEW c \in A, NEW e \in Elem PROVE Pushed(c, e) \in A
  <2> DEFINE b == BktNum(e.key, Len(c))
             d == <<e>> \o c[b]
  <2>1. c \in Seq(Seq(Elem)) /\ Len(c) = n /\ e.key \in Key
    BY DEF Chains, Elem
  <2>2. b \in 1..n
    BY <2>1, BucketOf
  <2>3. c[b] \in Seq(Elem)
    BY <2>1, <2>2
  <2>4. d \in Seq(Elem)
    <3>1. <<e>> \in Seq(Elem)
      OBVIOUS
    <3> HIDE DEF b
    <3> QED
      BY <2>3, <3>1, ConcatProperties
  <2>5. Pushed(c, e) = [c EXCEPT ![b] = d]
    BY DEF Pushed
  <2> DEFINE S == Seq(Elem)
             r == [c EXCEPT ![b] = d]
  <2> HIDE DEF b, d
  <2>6. c \in Seq(S) /\ b \in 1..Len(c) /\ d \in S
    BY <2>1, <2>2, <2>4
  <2> HIDE DEF S
  <2>7. r \in Seq(S) /\ Len(r) = Len(c)
    BY <2>6, ExceptSeq
  <2> HIDE DEF r
  <2>8. r \in A
    BY <2>1, <2>7 DEF S, Chains
  <2> QED
    BY <2>5, <2>8 DEF r
<1> DEFINE Moves(f) == f[0] = Empty(n) /\ \A m \in 1..L : f[m] = Pushed(f[m - 1], nodes[m])
<1>7. \E f : f \in [0..L -> A] /\ Moves(f)
  <2>1. \A i \in 1..L : \A c \in A : G[i][c] \in A
    BY <1>2, <1>6
  <2> HIDE DEF A, G
  <2>2. PICK f : Follows(f, A, Empty(n), L, G)
    BY <1>2, <1>5, <2>1, StepsExist
  <2>3. f \in [0..L -> A] /\ f[0] = Empty(n) /\ \A i \in 1..L : f[i] = G[i][f[i - 1]]
    BY <2>2 DEF Follows
  <2>4. ASSUME NEW i \in 1..L PROVE f[i] = Pushed(f[i - 1], nodes[i])
    <3>1. i - 1 \in 0..L
      BY <1>2
    <3>2. f[i - 1] \in A
      BY <2>3, <3>1
    <3>3. f[i] = G[i][f[i - 1]]
      BY <2>3
    <3> QED
      BY <3>2, <3>3 DEF G
  <2> QED
    BY <2>3, <2>4
<1>8. Moves(moved)
  <2>1. PICK f : f \in [0..L -> A] /\ Moves(f)
    BY <1>7
  <2>2. f = [m \in 0..L |-> IF m = 0 THEN Empty(n) ELSE Pushed(f[m - 1], nodes[m])]
    <3>1. f = [m \in 0..L |-> f[m]]
      BY <2>1
    <3>2. ASSUME NEW m \in 0..L
          PROVE  f[m] = IF m = 0 THEN Empty(n) ELSE Pushed(f[m - 1], nodes[m])
      <4>1. m # 0 => m \in 1..L
        BY <1>2
      <4> QED
        BY <2>1, <4>1
    <3> HIDE DEF nodes, Moves
    <3> QED
      BY <3>1, <3>2, Zenon
  <2>3. moved = [m \in 0..L |-> IF m = 0 THEN Empty(n) ELSE Pushed(moved[m - 1], nodes[m])]
    <3> HIDE DEF nodes
    <3> QED
      BY <2>2, Zenon
  <2> HIDE DEF moved, nodes
  <2>4. ASSUME NEW m \in 0..L
        PROVE  moved[m] = IF m = 0 THEN Empty(n) ELSE Pushed(moved[m - 1], nodes[m])
    BY <2>3, Zenon
  <2>5. 0 \in 0..L /\ \A m \in 1..L : m \in 0..L /\ m # 0
    BY <1>2
  <2> QED
    BY <2>4, <2>5
<1> HIDE DEF moved, nodes, A, G
<1>9. moved[0] = Empty(n) /\ \A m \in 1..L : moved[m] = Pushed(moved[m - 1], nodes[m])
  BY <1>8
<1> DEFINE Settled(m) ==
             /\ Shaped(moved[m]) /\ Len(moved[m]) = n
             /\ \A x : Count(FlattenSeq(moved[m]), x) = Count(first(m), x)
             /\ m >= 1 => LET c == moved[m][BktNum(nodes[m].key, n)]
                          IN  c # << >> /\ c[1] = nodes[m]
           T == {m \in Nat : m <= L => Settled(m)}
<1>10. 0 \in T
  <2>1. first(0) = << >>
    BY SubSeqEmpty
  <2>2. Len(moved[0]) = n
    BY <1>9, EmptyShaped
  <2> HIDE DEF first
  <2> QED
    BY <1>5, <1>9, <2>1, <2>2
<1>11. ASSUME NEW m \in Nat, m \in T PROVE m + 1 \in T
  <2> SUFFICES ASSUME m + 1 <= L PROVE Settled(m + 1)
    OBVIOUS
  <2> DEFINE e == nodes[m + 1]
             k == e.key
             b == BktNum(k, n)
             cs == moved[m]
  <2>1. m + 1 \in 1..L /\ (m + 1) - 1 = m /\ m <= L /\ m \in 0..L /\ m + 1 >= 1
    BY <1>2
  <2>2. Settled(m)
    BY <1>11, <2>1
  <2>3. e \in Elem /\ k \in Key
    BY <1>2, <2>1 DEF Elem
  <2>4. moved[m + 1] = Pushed(cs, e)
    BY <1>9, <2>1
  <2>5. first(m) \in Seq(Elem) /\ Len(first(m)) = m /\ \A i \in 1..m : first(m)[i] = nodes[i]
    <3>1. 1 \in 1..(Len(nodes) + 1) /\ m \in 0..Len(nodes) /\ 1 <= m + 1 /\ m - 1 + 1 = m
      BY <1>2, <2>1 DEF L
    <3>2. /\ first(m) \in Seq(Elem) /\ Len(first(m)) = m - 1 + 1
          /\ \A i \in 1..(m - 1 + 1) : first(m)[i] = nodes[1 + i - 1]
      BY <1>1, <3>1, Slices
    <3>3. \A i \in 1..m : 1 + i - 1 = i
      OBVIOUS
    <3> HIDE DEF first
    <3> QED
      BY <3>1, <3>2, <3>3
  <2>6. first(m + 1) = first(m) \o <<e>>
    <3>1. 1 \in 1..Len(nodes) /\ m + 1 \in 1..Len(nodes)
      BY <1>2, <2>1 DEF L
    <3>2. SubSeq(nodes, 1, m + 1) = SubSeq(nodes, 1, (m + 1) - 1) \o <<nodes[m + 1]>>
      BY <1>1, <3>1, SubSeqRecursiveSecond
    <3> QED
      BY <2>1, <3>2
  <2>7. Shaped(cs) /\ Len(cs) = n
    BY <2>2
  <2> HIDE DEF first
  <2>c. \A x : Count(FlattenSeq(cs), x) = Count(first(m), x)
    BY <2>2
  <2>l. m >= 1 => moved[m][BktNum(nodes[m].key, n)] # << >> /\ moved[m][BktNum(nodes[m].key, n)][1] = nodes[m]
    BY <2>2
  <2>b. b = BktNum(e.key, Len(cs))
    BY <2>7
  <2>8. ASSUME HasKey(cs, k) PROVE cs[b] # << >> /\ cs[b][1].key = k
    <3>1. b \in 1..n /\ cs[b] \in Seq(Elem) /\ \E i \in 1..Len(cs[b]) : cs[b][i].key = k
      BY <2>3, <2>7, <2>8, KeyInBucket
    <3> HIDE DEF b
    <3>2. PICK i \in 1..Len(cs[b]) : cs[b][i].key = k
      BY <3>1
    <3> DEFINE x == cs[b][i]
               flat == FlattenSeq(cs)
               r == Before(cs, b) + i
    <3>3. cs \in Seq(Seq(Elem)) /\ b \in 1..Len(cs)
      BY <2>7, <3>1 DEF Shaped, Chains
    <3>4. r \in 1..Len(flat) /\ flat[r] = x
      BY <3>2, <3>3, PlacesLie
    <3>5. flat \in Seq(Elem)
      BY <3>3, ChainsFollow
    <3> HIDE DEF x, flat, r
    <3>6. Count(flat, x) >= 1
      BY <3>4, <3>5, CountHas
    <3>7. Count(first(m), x) >= 1
      BY <2>c, <3>6 DEF flat
    <3>8. PICK j \in 1..m : nodes[j] = x
      <4>1. \E j \in 1..Len(first(m)) : first(m)[j] = x
        BY <2>5, <3>7, CountHas
      <4> QED
        BY <2>5, <4>1
    <3>9. nodes[j].key = k
      BY <3>2, <3>8 DEF x
    <3>10. nodes[m].key = k
      <4>1. CASE j = m
        BY <3>9, <4>1
      <4>2. CASE j # m
        <5>1. j < m /\ m < m + 1 /\ j \in 1..Len(nodes) /\ m \in 1..Len(nodes) /\ m + 1 \in 1..Len(nodes)
          BY <1>2, <2>1, <4>2 DEF L
        <5>2. nodes[j].key = nodes[m + 1].key
          BY <3>9
        <5>3. nodes[m].key = nodes[j].key
          BY <1>1, <1>3, <5>1, <5>2, GroupedMeans
        <5> QED
          BY <3>9, <5>3
      <4> QED
        BY <4>1, <4>2
    <3>11. m >= 1
      OBVIOUS
    <3> QED
      BY <2>l, <3>10, <3>11 DEF b
  <2>9. /\ Shaped(Pushed(cs, e)) /\ Len(Pushed(cs, e)) = Len(cs)
        /\ Pushed(cs, e)[b] # << >> /\ Pushed(cs, e)[b][1] = e
        /\ \A x : Count(FlattenSeq(Pushed(cs, e)), x)
                    = Count(FlattenSeq(cs), x) + (IF x = e THEN 1 ELSE 0)
    <3>1. HasKey(cs, e.key) => cs[b] # << >> /\ cs[b][1].key = e.key
      BY <2>8
    <3> HIDE DEF e, b, cs, k
    <3> QED
      BY <2>3, <2>7, <2>b, <3>1, PushedAdds
  <2>10. \A x : Count(first(m + 1), x) = Count(first(m), x) + (IF x = e THEN 1 ELSE 0)
    <3> TAKE x
    <3>1. <<e>> \in Seq(Elem)
      BY <2>3
    <3>2. Count(first(m) \o <<e>>, x) = Count(first(m), x) + Count(<<e>>, x)
      BY <2>5, <3>1, CountConcat
    <3>3. Count(<<e>>, x) = IF x = e THEN 1 ELSE 0
      BY <2>3, CountFew
    <3> HIDE DEF e
    <3> QED
      BY <2>6, <3>2, <3>3
  <2> HIDE DEF T
  <2>11. Shaped(moved[m + 1]) /\ Len(moved[m + 1]) = n
    BY <2>4, <2>7, <2>9
  <2>12. \A x : Count(FlattenSeq(moved[m + 1]), x) = Count(first(m + 1), x)
    BY <2>4, <2>9, <2>10, <2>c
  <2>13. moved[m + 1][BktNum(nodes[m + 1].key, n)] # << >> /\ moved[m + 1][BktNum(nodes[m + 1].key, n)][1] = nodes[m + 1]
    BY <2>4, <2>9
  <2> QED
    BY <2>11, <2>12, <2>13
<1>f. first(L) = nodes
  BY <1>1, SubSeqFull DEF L
<1> HIDE DEF T, Settled
<1>12. Settled(L)
  <2>1. L \in T
    BY <1>2, <1>10, <1>11, FromZero
  <2> QED
    BY <1>2, <2>1 DEF T
<1> HIDE DEF first
<1>13. Shaped(moved[L]) /\ \A x : Count(FlattenSeq(moved[L]), x) = Count(nodes, x)
  BY <1>12, <1>f DEF Settled
<1> QED
  BY <1>4, <1>13 DEF nodes

\* Growing or not, a table keeps its elements and its shape.
LEMMA ResizedKeeps ==
  ASSUME NEW bs, Shaped(bs), NEW hint
  PROVE  /\ Shaped(Resized(bs, hint))
         /\ \A x : Count(FlattenSeq(Resized(bs, hint)), x) = Count(FlattenSeq(bs), x)
<1>1. NextSize(hint) \in Nat /\ NextSize(hint) >= 1
  BY NextSizePositive
<1>2. CASE Grows(bs, hint)
  BY <1>1, <1>2, Rehashes DEF Resized
<1>3. CASE ~Grows(bs, hint)
  BY <1>3 DEF Resized
<1> QED
  BY <1>2, <1>3

\* Chains before the first cut and behind the last stay as they are.
LEMMA CutElsewhere ==
  ASSUME NEW s \in Seq(Elem)
  PROVE  /\ SubSeq(s, 1, (Len(s) + 1) - 1) \o SubSeq(s, Len(s) + 1, Len(s)) = s
         /\ SubSeq(s, 1, 1 - 1) \o SubSeq(s, 1, Len(s)) = s
         /\ \A z : SubSeq(s, z, Len(s)) \in Seq(Elem) =>
                     SubSeq(s, 1, 1 - 1) \o SubSeq(s, z, Len(s)) = SubSeq(s, z, Len(s))
<1>1. Len(s) \in Int /\ Len(s) + 1 \in Int /\ Len(s) < Len(s) + 1 /\ (Len(s) + 1) - 1 = Len(s)
  OBVIOUS
<1>2. SubSeq(s, Len(s) + 1, Len(s)) = << >>
  BY <1>1, SubSeqEmpty
<1>3. SubSeq(s, 1, 1 - 1) = << >>
  BY SubSeqEmpty
<1>4. SubSeq(s, 1, Len(s)) = s
  BY SubSeqFull
<1>5. s \o << >> = s /\ << >> \o s = s
  BY ConcatEmptySeq
<1>6. \A r \in Seq(Elem) : << >> \o r = r
  BY ConcatEmptySeq
<1> QED
  BY <1>1, <1>2, <1>3, <1>4, <1>5, <1>6

\* An exception while elements are moved: the first are gone.
LEMMA UnmovedLoses ==
  ASSUME NEW bs, Shaped(bs), NEW m \in Nat, m < Len(FlattenSeq(bs))
  PROVE  /\ Shaped(Unmoved(bs, m))
         /\ FlattenSeq(Unmoved(bs, m)) = SubSeq(FlattenSeq(bs), m + 1, Len(FlattenSeq(bs)))
<1> DEFINE flat == FlattenSeq(bs)
           L == Len(bs)
           cs == Unmoved(bs, m)
<1>1. bs \in Seq(Seq(Elem)) /\ bs \in Chains /\ L \in Nat /\ L >= 1
  BY DEF Shaped, Chains
<1>2. flat \in Seq(Elem) /\ Len(flat) \in Nat
  <2>1. flat \in Seq(Elem)
    BY <1>1, ChainsFollow
  <2> QED
    BY <2>1
<1>3. m + 1 \in 1..Len(flat)
  BY <1>2
<1>4. PICK g \in 1..L : \E i \in 1..Len(bs[g]) : m + 1 = Before(bs, g) + i
  BY <1>1, <1>3, PlacesLie
<1>5. PICK i \in 1..Len(bs[g]) : m + 1 = Before(bs, g) + i
  BY <1>4
<1>6. CutPlace(bs, g, i) /\ CutPlace(bs, 1, 1) /\ Before(bs, 1) + 1 = 1
  <2>1. <<g, i>> \in Places(bs)
    BY <1>1, PlacesAre
  <2>2. CutPlace(bs, g, i)
    BY <1>1, <2>1, IteratorsCut
  <2>3. CutPlace(bs, 1, 1)
    <3>1. bs[1] \in Seq(Elem) /\ 1 \in 1..(L + 1) /\ 1 <= L
      BY <1>1
    <3>2. Len(bs[1]) \in Nat
      BY <3>1
    <3>3. 1 \in 1..(Len(bs[1]) + 1)
      BY <3>2
    <3> QED
      BY <3>1, <3>3 DEF CutPlace
  <2>4. Before(bs, 1) = 0
    BY <1>1, ChainsFollow
  <2> QED
    BY <2>2, <2>3, <2>4
<1>7. cs = CutChains(bs, 1, 1, g, i)
  <2> DEFINE c == CutChains(bs, 1, 1, g, i)
             w(b) == 1 + (IF m > Before(bs, b) THEN m - Before(bs, b) ELSE 0)
             z(b) == IF b < g THEN Len(bs[b]) + 1 ELSE IF b = g THEN i ELSE 1
  <2>1. cs = [b \in 1..L |-> SubSeq(bs[b], w(b), Len(bs[b]))]
    <3>1. DOMAIN bs = 1..L
      BY <1>1
    <3> QED
      BY <3>1 DEF Unmoved, Before, Upto
  <2>2. c = [b \in 1..L |-> SubSeq(bs[b], 1, (IF b < 1 THEN Len(bs[b]) + 1 ELSE IF b = 1 THEN 1 ELSE 1) - 1)
                               \o SubSeq(bs[b], z(b), Len(bs[b]))]
    BY DEF CutChains
  <2>3. ASSUME NEW b \in 1..L PROVE cs[b] = c[b]
    <3> DEFINE s == bs[b]
               B == Before(bs, b)
    <3>1. s \in Seq(Elem) /\ Len(s) \in Nat
      BY <1>1
    <3>2. B \in Nat
      <4>1. b \in 1..(L + 1)
        BY <1>1
      <4> QED
        BY <1>1, <4>1, ChainsFollow
    <3>3. z(b) = Within((m + 1) - B, Len(s))
      <4>1. bs \in Seq(Seq(Elem)) /\ CutPlace(bs, g, i) /\ b \in 1..Len(bs)
        BY <1>1, <1>6
      <4>2. Within((Before(bs, g) + i) - Before(bs, b), Len(bs[b]))
              = IF b < g THEN Len(bs[b]) + 1 ELSE IF b = g THEN i ELSE 1
        BY ONLY <4>1, WithinChains
      <4> QED
        BY <1>5, <4>2
    <3>4. cs[b] = SubSeq(s, w(b), Len(s))
      BY <2>1
    <3>5. ~(b < 1)
      BY <1>1
    <3>6. c[b] = SubSeq(s, 1, 1 - 1) \o SubSeq(s, z(b), Len(s))
      BY <2>2, <3>5
    <3>w. w(b) = 1 + (IF m > B THEN m - B ELSE 0)
      OBVIOUS
    <3> HIDE DEF z, cs, c, w, s, B
    <3>7. z(b) \in 1..(Len(s) + 1)
      BY <3>1, <3>2, <3>3 DEF Within
    <3>8. SubSeq(s, z(b), Len(s)) \in Seq(Elem)
      <4> DEFINE y == z(b)
      <4>1. y \in 1..(Len(s) + 1) /\ Len(s) \in 0..Len(s) /\ y <= Len(s) + 1
        BY <3>1, <3>7
      <4> HIDE DEF y
      <4>2. SubSeq(s, y, Len(s)) \in Seq(Elem)
        BY <3>1, <4>1, Slices
      <4> QED
        BY <4>2 DEF y
    <3>9. c[b] = SubSeq(s, z(b), Len(s))
      BY <3>1, <3>6, <3>8, CutElsewhere
    <3>10. SubSeq(s, w(b), Len(s)) = SubSeq(s, z(b), Len(s))
      <4>1. CASE w(b) = z(b)
        BY <4>1
      <4>2. CASE w(b) # z(b)
        <5>1. w(b) > Len(s) /\ z(b) > Len(s) /\ w(b) \in Int /\ z(b) \in Int /\ Len(s) \in Int
          BY <3>1, <3>2, <3>3, <3>w, <4>2 DEF Within
        <5>2. SubSeq(s, w(b), Len(s)) = << >>
          BY <5>1, SubSeqEmpty
        <5>3. SubSeq(s, z(b), Len(s)) = << >>
          BY <5>1, SubSeqEmpty
        <5> QED
          BY <5>2, <5>3
      <4> QED
        BY <4>1, <4>2
    <3> QED
      BY <3>4, <3>9, <3>10
  <2> HIDE DEF w, z
  <2>4. cs = [b \in 1..L |-> cs[b]] /\ c = [b \in 1..L |-> c[b]]
    <3> HIDE DEF cs, c
    <3> QED
      BY <2>1, <2>2
  <2> HIDE DEF cs, c
  <2>5. cs = c
    BY <2>3, <2>4
  <2> QED
    BY <2>5 DEF cs, c
<1>8. Shaped(cs) /\ FlattenSeq(cs) = Cutout(flat, 1, m + 1)
  <2> DEFINE p == Before(bs, 1) + 1
             q == Before(bs, g) + i
  <2>1. p <= q /\ p = 1 /\ q = m + 1
    BY <1>5, <1>6
  <2> HIDE DEF cs
  <2>2. Shaped(cs) /\ FlattenSeq(cs) = Cutout(flat, p, q)
    BY <1>6, <1>7, <2>1, CutChainsFlat
  <2> QED
    BY <2>1, <2>2
<1> HIDE DEF cs, flat
<1>9. FlattenSeq(cs) = SubSeq(flat, m + 1, Len(flat))
  <2> DEFINE z == SubSeq(flat, m + 1, Len(flat))
  <2>1. Within(1, Len(flat)) = 1 /\ Within(m + 1, Len(flat)) = m + 1
    BY <1>2, <1>3 DEF Within
  <2>2. Cutout(flat, 1, m + 1) = SubSeq(flat, 1, 1 - 1) \o z
    BY <2>1 DEF Cutout
  <2>3. z \in Seq(Elem)
    <3> DEFINE y == m + 1
    <3>1. y \in 1..(Len(flat) + 1) /\ Len(flat) \in 0..Len(flat) /\ y <= Len(flat) + 1
      BY <1>2, <1>3
    <3> HIDE DEF y
    <3>2. SubSeq(flat, y, Len(flat)) \in Seq(Elem)
      BY <1>2, <3>1, Slices
    <3> QED
      BY <3>2 DEF y
  <2> QED
    BY <1>2, <1>8, <2>2, <2>3, CutElsewhere
<1> QED
  BY <1>8, <1>9 DEF cs, flat

\* What erase(key) does to the chains, and what it amounts to: the places of
\* the iteration from p up to q are cut out, which are those with the key.
ErasingKey(bs, k, n, rest, cs) ==
  n = BktNum(k, Len(bs)) /\ rest = Keeping(bs[n], Key \ {k}) /\ cs = Exchange(bs, n, rest)
KeyGone(bs, k, cs, less) ==
  \E p, q : /\ KeyBetween(FlattenSeq(bs), k, p, q)
            /\ FlattenSeq(cs) = Cutout(FlattenSeq(bs), p, q)
            /\ less = q - p

\* Erasing a key cuts out what lies between its first and its last element.
LEMMA KeyErased ==
  ASSUME NEW bs, Shaped(bs), NEW k \in Key, NEW n, NEW rest, NEW cs, ErasingKey(bs, k, n, rest, cs)
  PROVE  Shaped(cs) /\ KeyGone(bs, k, cs, Len(bs[n]) - Len(rest))
<1> SUFFICES /\ Shaped(cs)
             /\ \E p, q : /\ KeyBetween(FlattenSeq(bs), k, p, q)
                          /\ FlattenSeq(cs) = Cutout(FlattenSeq(bs), p, q)
                          /\ Len(bs[n]) - Len(rest) = q - p
  BY DEF KeyGone
<1> n = BktNum(k, Len(bs)) /\ rest = Keeping(bs[n], Key \ {k}) /\ cs = Exchange(bs, n, rest)
  BY DEF ErasingKey
<1> DEFINE s == bs[n]
           L == Len(bs)
           flat == FlattenSeq(bs)
<1>1. bs \in Seq(Seq(Elem)) /\ bs \in Chains /\ L \in Nat /\ L >= 1 /\ Housed(bs)
  BY DEF Shaped, Chains
<1>2. /\ n \in 1..L /\ s \in Seq(Elem) /\ Grouped(s)
      /\ HasKey(bs, k) <=> \E i \in 1..Len(s) : s[i].key = k
  BY KeyInBucket
<1>3. Len(s) \in Nat /\ \A i \in 1..Len(s) : s[i] \in Elem /\ s[i].key \in Key
  <2>1. Len(s) \in Nat /\ \A i \in 1..Len(s) : s[i] \in Elem
    BY <1>2
  <2>2. \A e \in Elem : e.key \in Key
    BY DEF Elem
  <2> QED
    BY <2>1, <2>2
<1>4. PICK p, q : KeyBetween(s, k, p, q)
  <2>1. CASE HasKey(bs, k)
    <3> DEFINE p == KeyFrom(s, k)
               q == KeyTo(s, k)
    <3>1. \E i \in 1..Len(s) : s[i].key = k
      BY <1>2, <2>1
    <3>e. p = KeyFrom(s, k) /\ q = KeyTo(s, k)
      OBVIOUS
    <3> HIDE DEF p, q, s
    <3>2. /\ p \in 1..Len(s) /\ q \in 1..(Len(s) + 1) /\ p < q
          /\ \A i \in 1..Len(s) : s[i].key = k <=> p <= i /\ i < q
      BY <1>2, <3>1, <3>e, KeyRange
    <3>3. KeyBetween(s, k, p, q)
      BY <1>3, <3>2 DEF KeyBetween
    <3> QED
      BY <3>3
  <2>2. CASE ~HasKey(bs, k)
    <3>1. KeyBetween(s, k, 1, 1)
      <4> HIDE DEF s
      <4> QED
        BY <1>2, <1>3, <2>2 DEF KeyBetween
    <3> QED
      BY <3>1
  <2> QED
    BY <2>1, <2>2
<1>5. /\ p \in 1..(Len(s) + 1) /\ q \in 1..(Len(s) + 1) /\ p <= q /\ p \in Int /\ q \in Int
      /\ \A i \in 1..Len(s) : s[i].key = k <=> p <= i /\ i < q
  <2> HIDE DEF s
  <2> QED
    BY <1>3, <1>4 DEF KeyBetween
<1>6. rest = Cutout(s, p, q) /\ Len(rest) = Len(s) - (q - p)
      /\ rest = SubSeq(s, 1, p - 1) \o SubSeq(s, q, Len(s))
  <2> DEFINE K == Key \ {k}
  <2>1. \A i \in 1..Len(s) : s[i].key \in K <=> ~(p <= i /\ i < q)
    BY <1>3, <1>5
  <2>2. rest = Keeping(s, K)
    OBVIOUS
  <2> HIDE DEF K, s
  <2>3. Keeping(s, K) = Cutout(s, p, q)
    BY <1>2, <1>5, <2>1, KeepingRest
  <2>4. p = Within(p, Len(s)) /\ q = Within(q, Len(s))
    BY <1>3, <1>5 DEF Within
  <2>5. CutAt(Elem, Cutout(s, p, q), s, p, q)
    BY <1>2, <1>5, <2>4, CutoutIs
  <2> QED
    BY <2>2, <2>3, <2>4, <2>5 DEF CutAt, Cutout
<1> DEFINE c == CutChains(bs, n, p, n, q)
<1>7. cs = c
  <2> DEFINE w(b) == IF b < n THEN Len(bs[b]) + 1 ELSE IF b = n THEN p ELSE 1
             z(b) == IF b < n THEN Len(bs[b]) + 1 ELSE IF b = n THEN q ELSE 1
  <2>1. cs = [b \in 1..L |-> IF b = n THEN rest ELSE bs[b]]
    <3>1. bs = [b \in 1..L |-> bs[b]]
      BY <1>1
    <3> QED
      BY <3>1 DEF Exchange
  <2>2. c = [b \in 1..L |-> SubSeq(bs[b], 1, w(b) - 1) \o SubSeq(bs[b], z(b), Len(bs[b]))]
    BY DEF CutChains
  <2>3. ASSUME NEW b \in 1..L PROVE cs[b] = c[b]
    <3>1. c[b] = SubSeq(bs[b], 1, w(b) - 1) \o SubSeq(bs[b], z(b), Len(bs[b]))
      BY <2>2
    <3>2. cs[b] = IF b = n THEN rest ELSE bs[b]
      BY <2>1
    <3>3. bs[b] \in Seq(Elem)
      BY <1>1
    <3>4. b \in Nat /\ n \in Nat
      BY <1>1, <1>2
    <3> HIDE DEF c, L
    <3>5. CASE b < n
      <4>1. w(b) = Len(bs[b]) + 1 /\ z(b) = Len(bs[b]) + 1 /\ b # n
        BY <3>4, <3>5
      <4> HIDE DEF w, z
      <4> QED
        BY <3>1, <3>2, <3>3, <4>1, CutElsewhere
    <3>6. CASE b > n
      <4>1. w(b) = 1 /\ z(b) = 1 /\ b # n
        BY <3>4, <3>6
      <4> HIDE DEF w, z
      <4> QED
        BY <3>1, <3>2, <3>3, <4>1, CutElsewhere
    <3>7. CASE b = n
      <4>1. w(b) = p /\ z(b) = q
        BY <3>4, <3>7
      <4> HIDE DEF w, z
      <4> QED
        BY <1>6, <3>1, <3>2, <3>7, <4>1
    <3> QED
      BY <3>4, <3>5, <3>6, <3>7
  <2> HIDE DEF w, z
  <2>4. cs = [b \in 1..L |-> cs[b]] /\ c = [b \in 1..L |-> c[b]]
    <3>1. cs = [b \in 1..L |-> cs[b]]
      BY <2>1
    <3>2. c = [b \in 1..L |-> c[b]]
      <4> HIDE DEF c
      <4> QED
        BY <2>2
    <3> QED
      BY <3>1, <3>2
  <2> HIDE DEF c
  <2> QED
    BY <2>3, <2>4
<1> DEFINE P == Before(bs, n) + p
           Q == Before(bs, n) + q
<1>8. CutPlace(bs, n, p) /\ CutPlace(bs, n, q) /\ P <= Q /\ Q - P = q - p
  <2>1. Before(bs, n) \in Nat
    <3>1. n \in 1..(L + 1)
      BY <1>1, <1>2
    <3> QED
      BY <1>1, <3>1, ChainsFollow
  <2>2. n \in 1..(L + 1) /\ n <= L
    BY <1>1, <1>2
  <2>3. CutPlace(bs, n, p) /\ CutPlace(bs, n, q)
    BY <1>5, <2>2 DEF CutPlace
  <2> HIDE DEF s
  <2> QED
    BY <1>5, <2>1, <2>3
<1>9. Shaped(cs) /\ FlattenSeq(cs) = Cutout(flat, P, Q)
  BY <1>7, <1>8, CutChainsFlat
<1>10. KeyBetween(flat, k, P, Q)
  BY <1>4, KeyPositions
<1>11. Len(s) - Len(rest) = Q - P
  <2> HIDE DEF s, P, Q
  <2> QED
    BY <1>3, <1>5, <1>6, <1>8
<1> QED
  BY <1>9, <1>10, <1>11

(***************************************************************************)
(* The inductive invariant: every table is shaped so.                      *)
(***************************************************************************)
TInv ==
  /\ multi \in BOOLEAN
  /\ buckets \in [Table -> Chains] /\ num \in [Table -> Int]
  /\ \A t \in Table : Shaped(buckets[t])

\* Tables without elements are shaped so.
LEMMA HInitTInv == HInit => TInv
<1> SUFFICES ASSUME HInit PROVE TInv
  OBVIOUS
<1>1. PICK n \in {1, PrimeList[1] + 1} : buckets = [t \in Table |-> Empty(NextSize(n))]
  BY DEF HInit
<1>2. Shaped(Empty(NextSize(n)))
  BY NextSizePositive, EmptyShaped
<1>3. Empty(NextSize(n)) \in Chains
  BY <1>2 DEF Shaped
<1> DEFINE e == Empty(NextSize(n))
<1> HIDE DEF e
<1>4. buckets = [t \in Table |-> e] /\ e \in Chains /\ Shaped(e)
  BY <1>1, <1>2, <1>3 DEF e
<1>5. multi \in BOOLEAN /\ num = [t \in Table |-> 0]
  BY DEF HInit
<1> QED
  BY <1>4, <1>5 DEF TInv

\* A table may come to be any that is shaped so.
LEMMA PutTInv ==
  ASSUME TInv, multi' = multi, NEW t \in Table, NEW bs, Shaped(bs), NEW n \in Int, Put(t, bs, n)
  PROVE  TInv'
<1>1. bs \in Chains
  BY DEF Shaped
<1>2. /\ buckets \in [Table -> Chains] /\ num \in [Table -> Int] /\ \A u \in Table : Shaped(buckets[u])
      /\ multi \in BOOLEAN
  BY DEF TInv
<1>3. buckets' = [buckets EXCEPT ![t] = bs] /\ num' = [num EXCEPT ![t] = n]
  BY DEF Put
<1>4. buckets' \in [Table -> Chains] /\ num' \in [Table -> Int]
  BY <1>1, <1>2, <1>3
<1>5. \A u \in Table : buckets'[u] = IF u = t THEN bs ELSE buckets[u]
  BY <1>2, <1>3
<1>6. \A u \in Table : Shaped(buckets'[u])
  BY <1>2, <1>5
<1>7. TInv' <=> /\ multi' \in BOOLEAN
                /\ buckets' \in [Table -> Chains] /\ num' \in [Table -> Int]
                /\ \A u \in Table : Shaped(buckets'[u])
  BY DEF TInv, Shaped, Housed, Grouped, BktNum, Abstract!Grouped, Chains, Elem
<1> QED
  BY <1>2, <1>4, <1>6, <1>7

\* What it comes to hold is what its chains do.
LEMMA PutBecomes ==
  ASSUME TInv, NEW t \in Table, NEW bs, NEW n, Put(t, bs, n)
  PROVE  Abstract!Becomes(t, FlattenSeq(bs), n)
<1>1. buckets \in [Table -> Chains]
  BY DEF TInv
<1>2. buckets' = [buckets EXCEPT ![t] = bs] /\ num' = [num EXCEPT ![t] = n]
  BY DEF Put
<1>3. [u \in Table |-> FlattenSeq(buckets'[u])]
        = [[u \in Table |-> FlattenSeq(buckets[u])] EXCEPT ![t] = FlattenSeq(bs)]
  BY <1>1, <1>2
<1> QED
  BY <1>2, <1>3 DEF Abstract!Becomes

\* The same elements, in a table that is shaped so, are the same rearranged.
LEMMA PutRearranges ==
  ASSUME TInv, NEW t \in Table, NEW bs, Shaped(bs), NEW n, Put(t, bs, n),
         NEW r, \A x \in Elem : Count(FlattenSeq(bs), x) = Count(r, x)
  PROVE  Abstract!Rearranged(t, r, n)
<1>1. Abstract!Becomes(t, FlattenSeq(bs), n)
  BY PutBecomes
<1>2. buckets'[t] = bs
  BY DEF Put, TInv
<1>3. Grouped(FlattenSeq(bs))
  BY FlatGrouped
<1>4. Elem = Abstract!Elem
  BY DEF Elem, Abstract!Elem
<1> QED
  BY <1>1, <1>2, <1>3, <1>4 DEF Abstract!Rearranged, Grouped, Count

\* A key that no chain has is in no other arrangement of the elements.
LEMMA NoSuchKey ==
  ASSUME NEW bs, Shaped(bs), NEW cs, Shaped(cs), NEW k \in Key, ~HasKey(cs, k),
         \A x : Count(FlattenSeq(cs), x) = Count(FlattenSeq(bs), x)
  PROVE  k \notin Abstract!Keys(FlattenSeq(bs))
<1> DEFINE flat == FlattenSeq(bs)
           other == FlattenSeq(cs)
<1>1. bs \in Seq(Seq(Elem)) /\ cs \in Seq(Seq(Elem)) /\ Housed(cs)
  BY DEF Shaped, Chains
<1>2. flat \in Seq(Elem) /\ other \in Seq(Elem)
  BY <1>1, ChainsFollow
<1>3. \A x : Count(other, x) = Count(flat, x)
  OBVIOUS
<1>4. Abstract!Keys(flat) = {flat[i].key : i \in 1..Len(flat)}
  <2>1. DOMAIN flat = 1..Len(flat)
    BY <1>2
  <2> HIDE DEF flat
  <2> QED
    BY <2>1 DEF Abstract!Keys
<1> HIDE DEF flat, other
<1> SUFFICES ASSUME NEW i \in 1..Len(flat), flat[i].key = k PROVE FALSE
  BY <1>4 DEF flat
<1> DEFINE x == flat[i]
<1>5. Count(flat, x) >= 1
  BY <1>2, CountHas
<1>6. Count(other, x) >= 1
  BY <1>3, <1>5
<1>7. PICK j \in 1..Len(other) : other[j] = x
  <2> HIDE DEF x
  <2> QED
    BY <1>2, <1>6, CountHas
<1>8. PICK b \in 1..Len(cs) : \E m \in 1..Len(cs[b]) : j = Before(cs, b) + m
  BY <1>1, PlacesLie DEF other
<1>9. PICK m \in 1..Len(cs[b]) : j = Before(cs, b) + m
  BY <1>8
<1>10. cs[b][m] = x
  BY <1>1, <1>7, <1>9, PlacesLie DEF other
<1>11. b = BktNum(k, Len(cs))
  BY <1>1, <1>10 DEF Housed
<1> QED
  BY <1>10, <1>11, KeyInBucket

\* resize() rearranges, at most.
LEMMA ResizeStep ==
  ASSUME TInv, multi' = multi, NEW t \in Table, NEW hint, Put(t, Resized(buckets[t], hint), num[t])
  PROVE  TInv' /\ Abstract!Grow(t)
<1> DEFINE bs == Resized(buckets[t], hint)
<1>1. Shaped(buckets[t]) /\ num[t] \in Int
  BY DEF TInv
<1>2. Shaped(bs) /\ \A x : Count(FlattenSeq(bs), x) = Count(FlattenSeq(buckets[t]), x)
  BY <1>1, ResizedKeeps
<1> HIDE DEF bs
<1>p. Put(t, bs, num[t])
  BY DEF bs
<1>3. TInv'
  BY <1>1, <1>2, <1>p, PutTInv
<1>4. Abstract!Rearranged(t, FlattenSeq(buckets[t]), num[t])
  BY <1>2, <1>p, PutRearranges
<1> QED
  BY <1>3, <1>4 DEF Abstract!Grow

\* A table that comes to hold one element more.
LEMMA AddStep ==
  ASSUME TInv, multi' = multi, NEW t \in Table, NEW e \in Elem,
         NEW bs, Shaped(bs), Put(t, bs, num[t] + 1),
         \A x : Count(FlattenSeq(bs), x) = Count(FlattenSeq(buckets[t]), x) + (IF x = e THEN 1 ELSE 0),
         multi \/ e.key \notin Abstract!Keys(FlattenSeq(buckets[t]))
  PROVE  TInv' /\ Abstract!Insert(t, e)
<1> DEFINE flat == FlattenSeq(buckets[t])
<1>1. Shaped(buckets[t]) /\ num[t] \in Int /\ num[t] + 1 \in Int
  BY DEF TInv
<1>2. flat \in Seq(Elem)
  <2>1. buckets[t] \in Seq(Seq(Elem))
    BY <1>1 DEF Shaped, Chains
  <2> QED
    BY <2>1, ChainsFollow
<1>3. TInv'
  BY <1>1, PutTInv
<1>4. ASSUME NEW x \in Elem PROVE Count(FlattenSeq(bs), x) = Count(Append(flat, e), x)
  <2>1. Append(flat, e) = flat \o <<e>> /\ <<e>> \in Seq(Elem)
    BY <1>2, AppendIsConcat
  <2>2. Count(flat \o <<e>>, x) = Count(flat, x) + Count(<<e>>, x)
    <3> DEFINE u == <<e>>
    <3>1. u \in Seq(Elem)
      BY <2>1
    <3> HIDE DEF u, flat
    <3>2. Count(flat \o u, x) = Count(flat, x) + Count(u, x)
      BY <1>2, <3>1, CountConcat
    <3> QED
      BY <3>2 DEF u
  <2>3. Count(<<e>>, x) = IF e = x THEN 1 ELSE 0
    BY CountFew
  <2>4. Count(FlattenSeq(bs), x) = Count(flat, x) + (IF x = e THEN 1 ELSE 0)
    OBVIOUS
  <2> HIDE DEF flat
  <2> QED
    BY <2>1, <2>2, <2>3, <2>4
<1>5. Abstract!Rearranged(t, Append(flat, e), num[t] + 1)
  <2> DEFINE r == Append(flat, e)
             n == num[t] + 1
  <2>1. \A x \in Elem : Count(FlattenSeq(bs), x) = Count(r, x)
    BY <1>4
  <2>2. Put(t, bs, n)
    OBVIOUS
  <2> HIDE DEF r, n
  <2>3. Abstract!Rearranged(t, r, n)
    BY <2>1, <2>2, PutRearranges
  <2> QED
    BY <2>3 DEF r, n
<1> QED
  BY <1>3, <1>5 DEF Abstract!Insert

\* An insert adds the element or, when the client's code throws or a map has
\* the key already, at most rearranges the table.
LEMMA InsertStep ==
  ASSUME TInv, multi' = multi, NEW t \in Table, NEW e \in Elem, NEW resize \in BOOLEAN,
         Insert(t, e, resize)
  PROVE  /\ TInv'
         /\ \/ (Abstract!Grow(t) \/ Abstract!Insert(t, e)) /\ faults' = faults
            \/ Abstract!Grow(t) /\ faults' = faults + 1
<1> DEFINE old == buckets[t]
           bs == IF resize THEN Resized(old, num[t] + 1) ELSE old
<1>1. Shaped(old) /\ num[t] \in Int
  BY DEF TInv
<1>2. Shaped(bs) /\ \A x : Count(FlattenSeq(bs), x) = Count(FlattenSeq(old), x)
  BY <1>1, ResizedKeeps
<1>3. e.key \in Key
  BY DEF Elem
<1> HIDE DEF bs
<1>4. ASSUME Put(t, bs, num[t]) PROVE TInv' /\ Abstract!Grow(t)
  <2>1. TInv'
    BY <1>1, <1>2, <1>4, PutTInv
  <2>2. Abstract!Rearranged(t, FlattenSeq(old), num[t])
    BY <1>2, <1>4, PutRearranges
  <2> QED
    BY <2>1, <2>2 DEF Abstract!Grow
<1>5. ASSUME ~multi, ~HasKey(bs, e.key), Put(t, Pushed(bs, e), num[t] + 1) PROVE TInv' /\ Abstract!Insert(t, e)
  <2>1. /\ Shaped(Pushed(bs, e))
        /\ \A x : Count(FlattenSeq(Pushed(bs, e)), x) = Count(FlattenSeq(bs), x) + (IF x = e THEN 1 ELSE 0)
    BY <1>2, <1>5, PushedAdds
  <2>2. e.key \notin Abstract!Keys(FlattenSeq(old))
    BY <1>1, <1>2, <1>3, <1>5, NoSuchKey
  <2>3. \A x : Count(FlattenSeq(Pushed(bs, e)), x) = Count(FlattenSeq(old), x) + (IF x = e THEN 1 ELSE 0)
    BY <1>2, <2>1
  <2> QED
    BY <1>5, <2>1, <2>2, <2>3, AddStep
<1>6. ASSUME multi, Put(t, Placed(bs, e), num[t] + 1) PROVE TInv' /\ Abstract!Insert(t, e)
  <2>1. /\ Shaped(Placed(bs, e))
        /\ \A x : Count(FlattenSeq(Placed(bs, e)), x) = Count(FlattenSeq(bs), x) + (IF x = e THEN 1 ELSE 0)
    BY <1>2, PlacedAdds
  <2>2. \A x : Count(FlattenSeq(Placed(bs, e)), x) = Count(FlattenSeq(old), x) + (IF x = e THEN 1 ELSE 0)
    BY <1>2, <2>1
  <2> QED
    BY <1>6, <2>1, <2>2, AddStep
<1>7. \/ Put(t, bs, num[t]) /\ (faults' = faults \/ faults' = faults + 1)
      \/ ~multi /\ ~HasKey(bs, e.key) /\ Put(t, Pushed(bs, e), num[t] + 1) /\ faults' = faults
      \/ multi /\ Put(t, Placed(bs, e), num[t] + 1) /\ faults' = faults
  BY DEF Insert, InsertUnique, InsertEqual, Fault, bs
<1> QED
  BY <1>4, <1>5, <1>6, <1>7

\* An exception while a table grows loses the first elements of the iteration,
\* which are still counted, and no other.
LEMMA LoseStep ==
  ASSUME TInv, multi' = multi, NEW t \in Table, NEW hint, NEW moved \in Nat,
         ResizeThrows(t, hint, moved)
  PROVE  TInv' /\ Abstract!Lose(t) /\ faults' = faults + 1
<1> DEFINE old == buckets[t]
           bs == Unmoved(old, moved)
           flat == FlattenSeq(old)
<1>1. Shaped(old) /\ num[t] \in Int
  BY DEF TInv
<1>2. moved < Len(flat) /\ Put(t, bs, num[t]) /\ faults' = faults + 1
  BY DEF ResizeThrows, Nodes, Fault
<1>3. Shaped(bs) /\ FlattenSeq(bs) = SubSeq(flat, moved + 1, Len(flat))
  BY <1>1, <1>2, UnmovedLoses
<1> HIDE DEF bs
<1>4. TInv'
  BY <1>1, <1>2, <1>3, PutTInv
<1>5. Abstract!Becomes(t, SubSeq(flat, moved + 1, Len(flat)), num[t])
  BY <1>2, <1>3, PutBecomes
<1>6. [u \in Table |-> FlattenSeq(buckets[u])][t] = flat
  OBVIOUS
<1>7. moved \in 0..Len(flat)
  <2>1. Len(flat) \in Nat
    <3>1. flat \in Seq(Elem)
      BY <1>1, ChainsFollow DEF Shaped, Chains
    <3> QED
      BY <3>1
  <2> QED
    BY <1>2, <2>1
<1> HIDE DEF flat
<1> QED
  BY <1>2, <1>4, <1>5, <1>6, <1>7 DEF Abstract!Lose

\* What is cut out between two places of a sequence that are in order.
LEMMA CutoutBetween ==
  ASSUME NEW s \in Seq(Elem), NEW p \in 1..(Len(s) + 1), NEW q \in 1..(Len(s) + 1), p <= q
  PROVE  /\ Cutout(s, p, q) = SubSeq(s, 1, p - 1) \o SubSeq(s, q, Len(s))
         /\ Len(Cutout(s, p, q)) = Len(s) - (q - p)
<1>1. Within(p, Len(s)) = p /\ Within(q, Len(s)) = q
  BY DEF Within
<1>2. Cutout(s, p, q) = SubSeq(s, 1, p - 1) \o SubSeq(s, q, Len(s))
  BY <1>1 DEF Cutout
<1>3. CutAt(Elem, Cutout(s, p, q), s, p, q)
  BY <1>1, CutoutIs
<1> QED
  BY <1>2, <1>3 DEF CutAt

\* The elements with a key stand side by side and are erased together.
LEMMA EraseKeyStep ==
  ASSUME TInv, multi' = multi, NEW t \in Table, NEW k \in Key, EraseKey(t, k)
  PROVE  TInv' /\ Abstract!EraseKey(t, k)
<1> DEFINE bs == buckets[t]
           n == BktNum(k, Len(bs))
           rest == Keeping(bs[n], Key \ {k})
           cs == Exchange(bs, n, rest)
           less == Len(bs[n]) - Len(rest)
           flat == FlattenSeq(bs)
<1>1. Shaped(bs) /\ num[t] \in Int
  BY DEF TInv
<1>2. Put(t, cs, num[t] - less)
  BY DEF EraseKey, Exchange
<1>3. /\ Shaped(cs)
      /\ \E p, q : /\ KeyBetween(flat, k, p, q)
                   /\ FlattenSeq(cs) = Cutout(flat, p, q)
                   /\ less = q - p
  <2>1. ErasingKey(bs, k, n, rest, cs)
    BY DEF ErasingKey
  <2> HIDE DEF n, rest, cs
  <2>2. Shaped(cs) /\ KeyGone(bs, k, cs, less)
    BY <1>1, <2>1, KeyErased
  <2> QED
    BY <2>2 DEF KeyGone
<1>4. PICK p, q : /\ KeyBetween(flat, k, p, q)
                  /\ FlattenSeq(cs) = Cutout(flat, p, q)
                  /\ less = q - p
  BY <1>3
<1>5. flat \in Seq(Elem)
  <2>1. bs \in Seq(Seq(Elem))
    BY <1>1 DEF Shaped, Chains
  <2> QED
    BY <2>1, ChainsFollow
<1>d. DOMAIN flat = 1..Len(flat)
  BY <1>5
<1>c. [u \in Table |-> FlattenSeq(buckets[u])][t] = flat
  OBVIOUS
<1> HIDE DEF cs, less, flat
<1>6. /\ p \in 1..(Len(flat) + 1) /\ q \in 1..(Len(flat) + 1) /\ p <= q
      /\ \A i \in 1..Len(flat) : flat[i].key = k <=> p <= i /\ i < q
  BY <1>4 DEF KeyBetween
<1>l. Len(flat) \in Nat
  BY <1>5
<1>7. FlattenSeq(cs) = SubSeq(flat, 1, p - 1) \o SubSeq(flat, q, Len(flat))
  BY <1>4, <1>5, <1>6, CutoutBetween
<1>8. less \in Int /\ num[t] - less \in Int
  BY <1>1, <1>4, <1>6, <1>l
<1>9. TInv'
  <2> DEFINE m == num[t] - less
  <2>1. m \in Int /\ Put(t, cs, m) /\ Shaped(cs)
    BY <1>2, <1>3, <1>8
  <2> HIDE DEF m
  <2> QED
    BY <2>1, PutTInv
<1>10. Abstract!Becomes(t, FlattenSeq(cs), num[t] - less)
  BY <1>2, PutBecomes
<1>11. Abstract!Becomes(t, SubSeq(flat, 1, p - 1) \o SubSeq(flat, q, Len(flat)), num[t] - (q - p))
  BY <1>4, <1>7, <1>10
<1>12. \A i \in 1..Len(flat) : flat[i].key = k <=> i \in p..(q - 1)
  BY <1>6, <1>l
<1> QED
  <2>1. Abstract!EraseRange(t, p, q)
    BY <1>11, <1>c DEF Abstract!EraseRange
  <2> QED
    BY <2>1, <1>9, <1>c, <1>d, <1>6, <1>12 DEF Abstract!EraseKey

\* What an iteration from first to last meets is erased, and counted.
LEMMA EraseRangeStep ==
  ASSUME TInv, multi' = multi, NEW t \in Table,
         NEW first \in Places(buckets[t]), NEW last \in Places(buckets[t]) \cup {End},
         last = End \/ Ahead(first, last), EraseRange(t, first, last)
  PROVE  TInv' /\ \E i, j \in 1..(Len(FlattenSeq(buckets[t])) + 1) : i < j /\ Abstract!EraseRange(t, i, j)
<1> DEFINE bs == buckets[t]
           cs == Erased(bs, first, last)
           flat == FlattenSeq(bs)
           p == Pos(bs, first)
           q == Pos(bs, last)
           less == Len(flat) - Len(FlattenSeq(cs))
<1>1. Shaped(bs) /\ num[t] \in Int
  BY DEF TInv
<1>2. bs \in Chains
  BY <1>1 DEF Shaped
<1>3. Put(t, cs, num[t] - less)
  BY DEF EraseRange, Nodes
<1>4. Shaped(cs) /\ FlattenSeq(cs) = SubSeq(flat, 1, p - 1) \o SubSeq(flat, q, Len(flat))
  BY <1>1, ErasedFlat
<1>5. p < q
  BY <1>2, ErasedCuts
<1>6. flat \in Seq(Elem) /\ p \in 1..Len(flat) /\ (q = Len(flat) + 1 \/ q \in 1..Len(flat))
  BY <1>2, PositionsLie
<1>c. [u \in Table |-> FlattenSeq(buckets[u])][t] = flat
  OBVIOUS
<1> HIDE DEF cs, flat, p, q, less
<1>l. Len(flat) \in Nat
  BY <1>6
<1>7. p \in 1..(Len(flat) + 1) /\ q \in 1..(Len(flat) + 1) /\ p <= q
  BY <1>5, <1>6, <1>l
<1>8. FlattenSeq(cs) = Cutout(flat, p, q) /\ Len(FlattenSeq(cs)) = Len(flat) - (q - p)
  <2>1. flat \in Seq(Elem)
    BY <1>6
  <2>2. /\ Cutout(flat, p, q) = SubSeq(flat, 1, p - 1) \o SubSeq(flat, q, Len(flat))
        /\ Len(Cutout(flat, p, q)) = Len(flat) - (q - p)
    BY ONLY <2>1, <1>7, CutoutBetween
  <2> QED
    BY ONLY <1>4, <2>2
<1>9. less = q - p
  BY <1>7, <1>8, <1>l DEF less
<1>10. num[t] - less \in Int
  BY <1>1, <1>7, <1>9, <1>l
<1>11. TInv'
  <2> DEFINE m == num[t] - less
  <2>1. m \in Int /\ Put(t, cs, m) /\ Shaped(cs)
    BY <1>3, <1>4, <1>10
  <2> HIDE DEF m
  <2> QED
    BY <2>1, PutTInv
<1>12. Abstract!Becomes(t, FlattenSeq(cs), num[t] - less)
  BY <1>3, PutBecomes
<1>13. Abstract!EraseRange(t, p, q)
  BY <1>4, <1>9, <1>12, <1>c DEF Abstract!EraseRange
<1> QED
  BY <1>5, <1>7, <1>11, <1>13 DEF flat

\* A table is emptied, its buckets stay.
LEMMA EmptyStep ==
  ASSUME TInv, multi' = multi, NEW t \in Table, NEW u \in Table, Put(t, Empty(Len(buckets[u])), 0)
  PROVE  TInv' /\ Abstract!Clear(t)
<1> DEFINE n == Len(buckets[u])
           bs == Empty(n)
<1>1. n \in Nat /\ n >= 1
  BY DEF TInv, Shaped, Chains
<1>2. Shaped(bs) /\ FlattenSeq(bs) = << >>
  BY <1>1, EmptyShaped
<1> HIDE DEF bs
<1>3. Put(t, bs, 0) /\ 0 \in Int
  BY DEF bs
<1>4. TInv'
  BY <1>2, <1>3, PutTInv
<1>5. Abstract!Becomes(t, << >>, 0)
  BY <1>2, <1>3, PutBecomes
<1> QED
  BY <1>4, <1>5 DEF Abstract!Clear

\* A copy holds what the other holds, or nothing.
LEMMA CopyStep ==
  ASSUME TInv, multi' = multi, NEW t \in Table, NEW u \in Table, Copy(t, u)
  PROVE  /\ TInv'
         /\ \/ Abstract!Copy(t, u) /\ faults' = faults
            \/ Abstract!Clear(t) /\ faults' = faults + 1
<1>1. CASE Put(t, buckets[u], num[u]) /\ faults' = faults
  <2>1. Shaped(buckets[u]) /\ num[u] \in Int
    BY DEF TInv
  <2>2. TInv'
    BY <1>1, <2>1, PutTInv
  <2>3. Abstract!Becomes(t, FlattenSeq(buckets[u]), num[u])
    BY <1>1, PutBecomes
  <2> QED
    BY <1>1, <2>2, <2>3 DEF Abstract!Copy
<1>2. CASE Put(t, Empty(Len(buckets[u])), 0) /\ faults' = faults + 1
  BY <1>2, EmptyStep
<1> QED
  BY <1>1, <1>2 DEF Copy, Fault

\* Two tables change what they hold.
LEMMA SwapStep ==
  ASSUME TInv, multi' = multi, NEW t \in Table, NEW u \in Table, SwapTables(t, u)
  PROVE  TInv' /\ Abstract!Swap(t, u)
<1>1. /\ buckets \in [Table -> Chains] /\ num \in [Table -> Int] /\ \A v \in Table : Shaped(buckets[v])
      /\ multi \in BOOLEAN
  BY DEF TInv
<1>2. /\ buckets' = [buckets EXCEPT ![t] = buckets[u], ![u] = buckets[t]]
      /\ num' = [num EXCEPT ![t] = num[u], ![u] = num[t]]
  BY DEF SwapTables
<1>3. buckets' \in [Table -> Chains] /\ num' \in [Table -> Int]
  BY <1>1, <1>2
<1>4. \A v \in Table : buckets'[v] = IF v = u THEN buckets[t] ELSE IF v = t THEN buckets[u] ELSE buckets[v]
  BY <1>1, <1>2
<1>5. \A v \in Table : Shaped(buckets'[v])
  BY <1>1, <1>4
<1>6. TInv' <=> /\ multi' \in BOOLEAN
                /\ buckets' \in [Table -> Chains] /\ num' \in [Table -> Int]
                /\ \A v \in Table : Shaped(buckets'[v])
  BY DEF TInv, Shaped, Housed, Grouped, BktNum, Abstract!Grouped, Chains, Elem
<1>7. TInv'
  BY <1>1, <1>3, <1>5, <1>6
<1>8. [v \in Table |-> FlattenSeq(buckets'[v])]
        = [[v \in Table |-> FlattenSeq(buckets[v])] EXCEPT
             ![t] = [v \in Table |-> FlattenSeq(buckets[v])][u],
             ![u] = [v \in Table |-> FlattenSeq(buckets[v])][t]]
  BY <1>4
<1> QED
  BY <1>2, <1>7, <1>8 DEF Abstract!Swap

\* Every step keeps the shape and is one that the tables promise.
LEMMA TableStep == TInv /\ [HNext]_hvars => TInv' /\ [Abstract!Next]_(Abstract!vars)
<1> SUFFICES ASSUME TInv, [HNext]_hvars PROVE TInv' /\ [Abstract!Next]_(Abstract!vars)
  OBVIOUS
<1> DEFINE content == [t \in Table |-> FlattenSeq(buckets[t])]
<1>1. CASE UNCHANGED hvars
  <2>1. multi' = multi /\ buckets' = buckets /\ num' = num /\ faults' = faults
    BY <1>1 DEF hvars
  <2>2. TInv' <=> /\ multi' \in BOOLEAN
                  /\ buckets' \in [Table -> Chains] /\ num' \in [Table -> Int]
                  /\ \A v \in Table : Shaped(buckets'[v])
    BY DEF TInv, Shaped, Housed, Grouped, BktNum, Abstract!Grouped, Chains, Elem
  <2> QED
    BY <2>1, <2>2 DEF TInv, Abstract!vars
<1>2. CASE HNext
  <2>1. multi' = multi /\ Main \in Table /\ Elem = Abstract!Elem
    BY <1>2, HashTableAssumption DEF HNext, Elem, Abstract!Elem
  <2>2. \A t \in Table : content[t] = FlattenSeq(buckets[t])
    OBVIOUS
  <2>d. \A t \in Table : Abstract!Done(t) /\ faults' = faults => Abstract!Next
    BY <2>1 DEF Abstract!Next
  <2>t. \A t \in Table : Abstract!Thrown(t) /\ faults' = faults + 1 => Abstract!Next
    BY <2>1 DEF Abstract!Next
  <2>3. /\ \A t \in Table : Abstract!Grow(t) \/ Abstract!Clear(t) => Abstract!Done(t) /\ Abstract!Thrown(t)
        /\ \A t \in Table : Abstract!Lose(t) => Abstract!Thrown(t)
        /\ \A t \in Table, e \in Elem : Abstract!Insert(t, e) => Abstract!Done(t)
        /\ \A t \in Table, k \in Key : Abstract!EraseKey(t, k) => Abstract!Done(t)
        /\ \A t \in Table : (\E i, j \in 1..(Len(FlattenSeq(buckets[t])) + 1) : i < j /\ Abstract!EraseRange(t, i, j))
                              => Abstract!Done(t)
        /\ \A t, u \in Table : Abstract!Copy(t, u) \/ Abstract!Swap(t, u) => Abstract!Done(t)
    BY <2>1, <2>2 DEF Abstract!Done, Abstract!Thrown
  <2>4. ASSUME NEW e \in Elem, NEW resize \in BOOLEAN, Insert(Main, e, resize) PROVE TInv' /\ Abstract!Next
    BY <2>1, <2>d, <2>t, <2>3, <2>4, InsertStep
  <2>5. ASSUME NEW hint, Resize(Main, hint) PROVE TInv' /\ Abstract!Next
    <3>1. Put(Main, Resized(buckets[Main], hint), num[Main])
      BY <2>5 DEF Resize
    <3>2. faults' = faults
      BY <2>5 DEF Resize
    <3> QED
      BY <2>1, <2>d, <2>3, <3>1, <3>2, ResizeStep
  <2>6. ASSUME NEW hint, NEW moved \in Nat, ResizeThrows(Main, hint, moved) PROVE TInv' /\ Abstract!Next
    BY <2>1, <2>t, <2>3, <2>6, LoseStep
  <2>7. ASSUME NEW k \in Key, EraseKey(Main, k) PROVE TInv' /\ Abstract!Next
    <3>1. faults' = faults
      BY <2>7 DEF EraseKey
    <3> QED
      BY <2>1, <2>d, <2>3, <2>7, <3>1, EraseKeyStep
  <2>8. ASSUME NEW first \in Places(buckets[Main]), NEW last \in Places(buckets[Main]) \cup {End},
               last = End \/ Ahead(first, last), EraseRange(Main, first, last)
        PROVE  TInv' /\ Abstract!Next
    <3>1. faults' = faults
      BY <2>8 DEF EraseRange
    <3> QED
      BY <2>1, <2>d, <2>3, <2>8, <3>1, EraseRangeStep
  <2>9. ASSUME ClearTable(Main) PROVE TInv' /\ Abstract!Next
    <3>1. Put(Main, Empty(Len(buckets[Main])), 0)
      BY <2>9 DEF ClearTable
    <3>2. faults' = faults
      BY <2>9 DEF ClearTable
    <3> QED
      BY <2>1, <2>d, <2>3, <3>1, <3>2, EmptyStep
  <2>10. ASSUME NEW t \in Table, NEW u \in Table, Copy(t, u) PROVE TInv' /\ Abstract!Next
    BY <2>1, <2>d, <2>t, <2>3, <2>10, CopyStep
  <2>11. ASSUME NEW t \in Table, SwapTables(Main, t) PROVE TInv' /\ Abstract!Next
    <3>1. faults' = faults
      BY <2>11 DEF SwapTables
    <3> QED
      BY <2>1, <2>d, <2>3, <2>11, <3>1, SwapStep
  <2>12. 0..MaxElems \subseteq Nat
    OBVIOUS
  <2>13. TInv' /\ Abstract!Next
    BY <1>2, <2>4, <2>5, <2>6, <2>7, <2>8, <2>9, <2>10, <2>11, <2>12 DEF HNext
  <2> QED
    BY <2>13
<1> QED
  BY <1>1, <1>2

\* A table starts empty.
LEMMA TableInit == HInit => Abstract!Init
<1> SUFFICES ASSUME HInit PROVE Abstract!Init
  OBVIOUS
<1>1. PICK n \in {1, PrimeList[1] + 1} : buckets = [t \in Table |-> Empty(NextSize(n))]
  BY DEF HInit
<1>2. FlattenSeq(Empty(NextSize(n))) = << >>
  BY NextSizePositive, EmptyShaped
<1>3. [t \in Table |-> FlattenSeq(buckets[t])] = [t \in Table |-> << >>]
  BY <1>1, <1>2
<1> QED
  BY <1>3 DEF HInit, Abstract!Init

\* Every operation of the hash tables, those that client code interrupts by an
\* exception included, leaves every element in the bucket that its key hashes
\* to and the elements with equal keys of a chain side by side.
THEOREM TableInvariance == HSpec => []TInv
<1>1. TInv /\ [HNext]_hvars => TInv'
  BY TableStep
<1> QED
  BY <1>1, HInitTInv, PTL DEF HSpec

\* Whatever was done to a table: an iteration, which computes from the element
\* where to go on, finds every element once; equal_range finds all elements with
\* a key and no other; and erase(first, last) takes what an iteration would meet.
THEOREM IterationsCorrect == HSpec => []IterationsFindAll
<1>1. TInv => IterationsFindAll
  BY FindsAllHolds, FindsEqualHolds, ErasesBetweenHolds DEF TInv, IterationsFindAll
<1> QED
  BY <1>1, TableInvariance, PTL

\* The hash tables implement sequences of elements, grouped by key, that only
\* inserting and growing rearrange; a step without an exception loses nothing
\* and keeps size() in step with what it did, and an exception of the client's
\* code while a table grows loses the first elements of the iteration, which
\* size() goes on counting, and nothing else.
THEOREM MultiMapCorrect == HSpec => ImplementsMultiMap
<1>1. TInv /\ [HNext]_hvars => [Abstract!Next]_(Abstract!vars)
  BY TableStep
<1> QED
  BY <1>1, TableInvariance, TableInit, PTL DEF HSpec, ImplementsMultiMap, Abstract!Spec

=============================================================================
