------------------------------ MODULE MultiMap -------------------------------
(***************************************************************************)
(* What the hash tables promise: sequences of elements, in the order of an *)
(* iteration, with equal keys side by side (and none twice in a map).      *)
(* Growing a table may rearrange it; erasing and copying do not.  Only an  *)
(* exception thrown by the client's code loses elements: the first ones of *)
(* the iteration, which size() goes on counting.                           *)
(***************************************************************************)
EXTENDS Naturals, Sequences, FiniteSets

CONSTANTS Key, Val, Table

VARIABLES
  multi,    \* equal keys may be added
  content,  \* the elements of every table
  size,     \* what size() says
  faults    \* exceptions thrown by the client's code

vars == <<multi, content, size, faults>>

Elem == [key : Key, val : Val]
Count(s, e) == Cardinality({i \in DOMAIN s : s[i] = e})
Grouped(s) ==
  \A i, j, k \in DOMAIN s : i < j /\ j < k /\ s[i].key = s[k].key => s[j].key = s[i].key
Keys(s) == {s[i].key : i \in DOMAIN s}

Becomes(t, s, n) ==
  /\ content' = [content EXCEPT ![t] = s]
  /\ size' = [size EXCEPT ![t] = n]

Init ==
  /\ multi \in BOOLEAN
  /\ content = [t \in Table |-> << >>]
  /\ size = [t \in Table |-> 0]
  /\ faults = 0

\* A table comes to hold the elements of r, in some order.
Rearranged(t, r, n) ==
  LET s == content'[t] IN
  /\ Grouped(s)
  /\ \A e \in Elem : Count(s, e) = Count(r, e)
  /\ Becomes(t, s, n)

Insert(t, e) ==
  /\ multi \/ e.key \notin Keys(content[t])
  /\ Rearranged(t, Append(content[t], e), size[t] + 1)

Grow(t) == Rearranged(t, content[t], size[t])

\* An exception while the table grows: the elements an iteration meets first
\* are gone, and still counted.
Lose(t) ==
  \E m \in 0..Len(content[t]) :
    Becomes(t, SubSeq(content[t], m + 1, Len(content[t])), size[t])

\* The elements from the i-th up to, and without, the j-th.
EraseRange(t, i, j) ==
  Becomes(t, SubSeq(content[t], 1, i - 1) \o SubSeq(content[t], j, Len(content[t])), size[t] - (j - i))

\* Those with a key stand side by side, if there are any.
EraseKey(t, k) ==
  \E i, j \in 1..(Len(content[t]) + 1) :
    /\ i <= j /\ \A n \in DOMAIN content[t] : content[t][n].key = k <=> n \in i..(j - 1)
    /\ EraseRange(t, i, j)

Clear(t) == Becomes(t, << >>, 0)
Copy(t, from) == Becomes(t, content[from], size[from])
Swap(t, u) ==
  /\ content' = [content EXCEPT ![t] = content[u], ![u] = content[t]]
  /\ size' = [size EXCEPT ![t] = size[u], ![u] = size[t]]

Done(t) ==
  \/ Grow(t) \/ Clear(t)
  \/ \E e \in Elem : Insert(t, e)
  \/ \E k \in Key : EraseKey(t, k)
  \/ \E i, j \in 1..(Len(content[t]) + 1) : i < j /\ EraseRange(t, i, j)
  \/ \E u \in Table : Copy(t, u) \/ Swap(t, u)

\* An insertion has at most made room, a copy is empty.
Thrown(t) == Grow(t) \/ Lose(t) \/ Clear(t)

Next ==
  /\ UNCHANGED multi
  /\ \E t \in Table :
       \/ Done(t) /\ UNCHANGED faults
       \/ Thrown(t) /\ faults' = faults + 1

Spec == Init /\ [][Next]_vars
=============================================================================
