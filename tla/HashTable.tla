------------------------------ MODULE HashTable ------------------------------
(***************************************************************************)
(* stdext/p/HashTable.h, the table under the hash maps and sets: a vector  *)
(* of buckets, each a chain of nodes, a chain being the sequence of its    *)
(* elements here.  It grows with what is inserted and never shrinks.       *)
(* Hashing an element or copying it runs client code, which may throw.     *)
(* Implements MultiMap, where a table is the sequence of its elements.     *)
(***************************************************************************)
EXTENDS Naturals, Sequences, SequencesExt

CONSTANTS
  Key, Val,
  Hash,       \* what the hasher makes of a key
  PrimeList,  \* prime_list
  Table, Main,  \* the tables, and the one whose elements the client changes
  MaxElems,   \* bound: elements in all tables
  MaxFaults   \* bound: exceptions thrown by client code

ASSUME HashTableAssumption ==
  /\ Main \in Table /\ Hash \in [Key -> Nat] /\ MaxElems \in Nat /\ MaxFaults \in Nat
  /\ PrimeList \in Seq(Nat \ {0}) /\ PrimeList # << >>
  /\ \A i, j \in DOMAIN PrimeList : i < j => PrimeList[i] < PrimeList[j]

VARIABLES
  multi,    \* the client is a multimap, which inserts equal keys
  buckets,  \* m_buckets
  num,      \* m_num_elements
  faults    \* history: exceptions of the client's code so far

hvars == <<multi, buckets, num, faults>>

Elem == [key : Key, val : Val]
Nodes(t) == Len(FlattenSeq(buckets[t]))
Empty(n) == [b \in 1..n |-> << >>]

\* hash_next_prime_: a lower bound, or the last of the list
NextSize(n) ==
  LET fits == {i \in DOMAIN PrimeList : PrimeList[i] >= n}
  IN  IF fits = {} THEN Last(PrimeList) ELSE PrimeList[Min(fits)]

BktNum(k, n) == (Hash[k] % n) + 1

HInit ==
  /\ multi \in BOOLEAN
  /\ \E n \in {1, PrimeList[1] + 1} : buckets = [t \in Table |-> Empty(NextSize(n))]
  /\ num = [t \in Table |-> 0]
  /\ faults = 0
-----------------------------------------------------------------------------
(***************************************************************************)
(* Iterators: a bucket and a place in its chain, or End.  The bucket to go *)
(* on from is computed from the element, not remembered.                   *)
(***************************************************************************)
End == <<0, 0>>
NodeAt(bs, it) == bs[it[1]][it[2]]
FirstFrom(bs, b) ==
  LET full == {n \in b..Len(bs) : bs[n] # << >>}
  IN  IF full = {} THEN End ELSE <<Min(full), 1>>
Begin(bs) == FirstFrom(bs, 1)
Succ(bs, it) ==
  IF it[2] < Len(bs[it[1]]) THEN <<it[1], it[2] + 1>>
  ELSE FirstFrom(bs, BktNum(NodeAt(bs, it).key, Len(bs)) + 1)

Places(bs) == UNION {{<<b, i>> : i \in DOMAIN bs[b]} : b \in DOMAIN bs}
Between(bs, first, last) ==
  LET from[it \in Places(bs) \cup {End}] ==
        IF it = last \/ it = End THEN << >> ELSE <<NodeAt(bs, it)>> \o from[Succ(bs, it)]
  IN  from[first]

HasKey(bs, k) == \E i \in DOMAIN bs[BktNum(k, Len(bs))] : bs[BktNum(k, Len(bs))][i].key = k
FirstWith(s, k) == Min({i \in DOMAIN s : s[i].key = k})

EqualRange(bs, k) ==
  LET n == BktNum(k, Len(bs))
      first == FirstWith(bs[n], k)
      other == {i \in DOMAIN bs[n] : i > first /\ bs[n][i].key # k}
  IN  IF ~HasKey(bs, k) THEN <<End, End>>
      ELSE <<<<n, first>>, IF other = {} THEN FirstFrom(bs, n + 1) ELSE <<n, Min(other)>>>>
-----------------------------------------------------------------------------
Pushed(bs, e) == [bs EXCEPT ![BktNum(e.key, Len(bs))] = <<e>> \o @]

\* The nodes move, one at a time, to the front of their new chains.
Rehash(bs, n) ==
  LET nodes == FlattenSeq(bs)
      moved[m \in 0..Len(nodes)] == IF m = 0 THEN Empty(n) ELSE Pushed(moved[m - 1], nodes[m])
  IN  moved[Len(nodes)]

Grows(bs, hint) == hint > Len(bs) /\ NextSize(hint) > Len(bs)
Resized(bs, hint) == IF Grows(bs, hint) THEN Rehash(bs, NextSize(hint)) ELSE bs

\* What is left of the chains when the hasher throws after m nodes have
\* moved: those are deleted, and still counted.
Unmoved(bs, m) ==
  [b \in DOMAIN bs |->
     LET ahead == Len(FlattenSeq(SubSeq(bs, 1, b - 1)))
     IN  SubSeq(bs[b], 1 + (IF m > ahead THEN m - ahead ELSE 0), Len(bs[b]))]

\* Mutant: the new element goes to the front of its chain, whatever is there.
PlacedFirst(bs, e) == Pushed(bs, e)

\* insert_equal_noresize: behind the first element with the key
Placed(bs, e) ==
  IF ~HasKey(bs, e.key) THEN Pushed(bs, e)
  ELSE LET n == BktNum(e.key, Len(bs))
       IN  [bs EXCEPT ![n] = InsertAt(@, FirstWith(@, e.key) + 1, e)]

\* The elements of a sequence whose keys are among those of K, in order.
Keeping(s, K) ==
  LET kept[i \in 0..Len(s)] ==
        IF i = 0 THEN << >> ELSE IF s[i].key \in K THEN Append(kept[i - 1], s[i]) ELSE kept[i - 1]
  IN  kept[Len(s)]

\* Mutant: the bucket of last is cleared, too.
ErasedTooMuch(bs, first, last) ==
  [b \in DOMAIN bs |-> IF first[1] <= b /\ (last = End \/ b <= last[1]) THEN << >> ELSE bs[b]]

\* erase(first, last), by buckets
Erased(bs, first, last) ==
  LET lastBucket == IF last = End THEN Len(bs) + 1 ELSE last[1] IN
  [b \in DOMAIN bs |->
     IF b < first[1] \/ b > lastBucket THEN bs[b]
     ELSE SubSeq(bs[b], 1, IF b = first[1] THEN first[2] - 1 ELSE 0)
            \o SubSeq(bs[b], IF b = lastBucket THEN last[2] ELSE Len(bs[b]) + 1, Len(bs[b]))]
-----------------------------------------------------------------------------
Elements == FoldLeft(LAMBDA s, t : s + Nodes(t), 0, SetToSeq(Table))

Put(t, bs, n) ==
  /\ buckets' = [buckets EXCEPT ![t] = bs]
  /\ num' = [num EXCEPT ![t] = n]
Fault == faults < MaxFaults /\ faults' = faults + 1

\* insert_unique and find_or_insert, or with no resize insert_unique_noresize.
\* An element that cannot be copied leaves the table as it was resized.
InsertUnique(t, e, resize) ==
  LET bs == IF resize THEN Resized(buckets[t], num[t] + 1) ELSE buckets[t] IN
  \/ HasKey(bs, e.key) /\ Put(t, bs, num[t]) /\ UNCHANGED faults
  \/ ~HasKey(bs, e.key) /\ Elements < MaxElems /\ Put(t, Pushed(bs, e), num[t] + 1) /\ UNCHANGED faults
  \/ ~HasKey(bs, e.key) /\ Put(t, bs, num[t]) /\ Fault

InsertEqual(t, e, resize) ==
  LET bs == IF resize THEN Resized(buckets[t], num[t] + 1) ELSE buckets[t] IN
  \/ Elements < MaxElems /\ Put(t, Placed(bs, e), num[t] + 1) /\ UNCHANGED faults
  \/ Put(t, bs, num[t]) /\ Fault

Insert(t, e, resize) ==
  \/ multi /\ InsertEqual(t, e, resize)
  \/ ~multi /\ InsertUnique(t, e, resize)

Resize(t, hint) == Put(t, Resized(buckets[t], hint), num[t]) /\ UNCHANGED faults

ResizeThrows(t, hint, moved) ==
  /\ Grows(buckets[t], hint) /\ moved < Nodes(t)
  /\ Put(t, Unmoved(buckets[t], moved), num[t])
  /\ Fault

EraseKey(t, k) ==
  LET n == BktNum(k, Len(buckets[t]))
      rest == Keeping(buckets[t][n], Key \ {k})
  IN  /\ Put(t, [buckets[t] EXCEPT ![n] = rest], num[t] - (Len(buckets[t][n]) - Len(rest)))
      /\ UNCHANGED faults

\* erase(it) is the erase up to the next place of the chain.
EraseRange(t, first, last) ==
  LET bs == Erased(buckets[t], first, last) IN
  /\ Put(t, bs, num[t] - (Nodes(t) - Len(FlattenSeq(bs))))
  /\ UNCHANGED faults

ClearTable(t) == Put(t, Empty(Len(buckets[t])), 0) /\ UNCHANGED faults

\* copy: clear, then node by node; num comes last, and what was copied is
\* cleared when the next element cannot be.
Copy(t, from) ==
  /\ t # from
  /\ \/ /\ Elements - Nodes(t) + Nodes(from) <= MaxElems
        /\ Put(t, buckets[from], num[from]) /\ UNCHANGED faults
     \/ Nodes(from) > 0 /\ Put(t, Empty(Len(buckets[from])), 0) /\ Fault

SwapTables(t, u) ==
  /\ buckets' = [buckets EXCEPT ![t] = buckets[u], ![u] = buckets[t]]
  /\ num' = [num EXCEPT ![t] = num[u], ![u] = num[t]]
  /\ UNCHANGED faults

Ahead(it, jt) == it[1] < jt[1] \/ (it[1] = jt[1] /\ it[2] < jt[2])

\* The client changes one table; the others it copies to and swaps with.
HNext ==
  /\ UNCHANGED multi
  /\ \/ \E e \in Elem, resize \in BOOLEAN : Insert(Main, e, resize)
     \/ \E hint \in 1..(MaxElems + 1) :
          Resize(Main, hint) \/ \E moved \in 0..MaxElems : ResizeThrows(Main, hint, moved)
     \/ \E k \in Key : EraseKey(Main, k)
     \/ \E first \in Places(buckets[Main]), last \in Places(buckets[Main]) \cup {End} :
          (last = End \/ Ahead(first, last)) /\ EraseRange(Main, first, last)
     \/ ClearTable(Main)
     \/ \E t, u \in Table : Copy(t, u)
     \/ \E t \in Table \ {Main} : SwapTables(Main, t)

HSpec == HInit /\ [][HNext]_hvars
-----------------------------------------------------------------------------
(***************************************************************************)
(* Whatever was inserted, moved, erased and copied, the chains hold every  *)
(* element once, elements with equal keys side by side; their order        *)
(* changes only where a table grows or is inserted into.  Elements go      *)
(* without being erased only in a step in which the client's code throws,  *)
(* and then the first of the iteration; size() is right but for those.     *)
(***************************************************************************)
Abstract == INSTANCE MultiMap WITH
              content <- [t \in Table |-> FlattenSeq(buckets[t])], size <- num,
              faults <- faults
ImplementsMultiMap == Abstract!Spec

(***************************************************************************)
(* An iteration, which computes anew where to go on at the end of a chain, *)
(* finds every element once; an iteration over equal_range, which ends     *)
(* where it meets another key, finds all with that key and no other; and   *)
(* erase(first, last), which goes by buckets, erases what an iteration     *)
(* from first to last would meet.                                          *)
(***************************************************************************)
FindsAll(bs) == Between(bs, Begin(bs), End) = FlattenSeq(bs)
FindsEqual(bs) ==
  \A k \in Key : LET range == EqualRange(bs, k)
                 IN  Between(bs, range[1], range[2]) = Keeping(FlattenSeq(bs), {k})
ErasesBetween(bs) ==
  \A first \in Places(bs), last \in Places(bs) \cup {End} :
    last = End \/ Ahead(first, last) =>
      FlattenSeq(Erased(bs, first, last)) =
        Between(bs, Begin(bs), first) \o (IF last = End THEN << >> ELSE Between(bs, last, End))

IterationsFindAll ==
  \A t \in Table : FindsAll(buckets[t]) /\ FindsEqual(buckets[t]) /\ ErasesBetween(buckets[t])
=============================================================================
