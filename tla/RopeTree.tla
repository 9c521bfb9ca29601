------------------------------ MODULE RopeTree ------------------------------
(***************************************************************************)
(* The trees of stdext/text/rope (RopeRep.h, RopeImpl.h).  A node is not   *)
(* changed once it is part of a rope, nor released while it is used, so a  *)
(* pointer is modelled as the tree it points to.  What a producer makes is *)
(* the data of its node.  The numbers in the code are parameters here.     *)
(***************************************************************************)
EXTENDS Integers, Sequences, SequencesExt

CONSTANTS
  CopyMax,        \* _S_copy_max, 23: texts up to this are copied, not concatenated
  LazyThreshold,  \* 128: parts of leaves up to this are copied
  FillThreshold,  \* 32: characters per leaf of a rope filled with one character
  DeepDepth,      \* 20: a deeper tree is balanced, if it has
  DeepSize,       \* 1000: fewer characters, or is deeper than
  MaxDepth        \* _S_max_rope_depth, 45

RopeAssumption ==
  /\ {CopyMax, LazyThreshold, FillThreshold, DeepDepth, DeepSize, MaxDepth} \subseteq Nat
  /\ FillThreshold > 0 /\ MaxDepth >= DeepDepth

Null == [tag |-> "null", size |-> 0, depth |-> 0]
Flat(tag, data) == [tag |-> tag, size |-> Len(data), depth |-> 0, balanced |-> TRUE, data |-> data]
Leaf(data) == Flat("leaf", data)
Function(data) == Flat("function", data)
Substring(base, start, n) ==
  [tag |-> "substringfn", size |-> n, depth |-> 0, balanced |-> TRUE, base |-> base, start |-> start]
Concatenation(l, r) ==
  [tag |-> "concat", size |-> l.size + r.size,
   depth |-> 1 + (IF l.depth > r.depth THEN l.depth ELSE r.depth),
   balanced |-> FALSE, left |-> l, right |-> r]

\* The characters of a node without children.  No substring has another for its base.
Data(t) == IF t.tag = "substringfn" THEN SubSeq(t.base.data, t.start + 1, t.start + t.size) ELSE t.data

RECURSIVE Flatten(_), Fetch(_, _), Pieces(_, _, _)

Flatten(t) ==
  CASE t.tag = "null" -> << >>
    [] t.tag = "concat" -> Flatten(t.left) \o Flatten(t.right)
    [] OTHER -> Data(t)

Fetch(t, i) ==
  IF t.tag # "concat" THEN Data(t)[i + 1]
  ELSE IF i >= t.left.size THEN Fetch(t.right, i - t.left.size) ELSE Fetch(t.left, i)

\* What _S_apply_to_pieces shows the consumer, if that does not stop it
Pieces(t, begin, end) ==
  CASE t.tag = "null" -> << >>
    [] t.tag = "concat" ->
         LET n == t.left.size IN
         (IF begin < n THEN Pieces(t.left, begin, IF end < n THEN end ELSE n) ELSE << >>)
           \o (IF end > n THEN Pieces(t.right, IF begin > n THEN begin - n ELSE 0, end - n) ELSE << >>)
    [] OTHER -> SubSeq(Data(t), begin + 1, end)
-----------------------------------------------------------------------------
(* Balancing.  MinLen: "These are Fibonacci numbers". *)
MinLen[n \in Nat] == IF n <= 1 THEN n + 1 ELSE MinLen[n - 1] + MinLen[n - 2]

IsBalanced(t) == t.size >= MinLen[t.depth]
IsAlmostBalanced(t) == t.depth = 0 \/ t.size >= MinLen[t.depth - 1]

RECURSIVE Concat(_, _), TreeConcat(_, _), Balanced(_)
RECURSIVE AddToForest(_, _), GatherTiny(_, _, _, _), Settle(_, _, _)

ConcatAndSetBalanced(l, r) ==
  LET t == Concat(l, r) IN IF IsBalanced(t) THEN [t EXCEPT !.balanced = TRUE] ELSE t

Depths == 0..MaxDepth
EmptyForest == [at |-> [i \in Depths |-> Null], asserted |-> TRUE]

\* The two loops of _S_add_leaf_to_forest, from bucket i on.
GatherTiny(f, i, tiny, size) ==
  IF size < MinLen[i + 1] THEN [f |-> f, i |-> i, tiny |-> tiny]
  ELSE IF f.at[i] = Null THEN GatherTiny(f, i + 1, tiny, size)
  ELSE GatherTiny([f EXCEPT !.at[i] = Null], i + 1, ConcatAndSetBalanced(f.at[i], tiny), size)

Settle(f, i, t) ==
  LET joined == IF f.at[i] = Null THEN t ELSE ConcatAndSetBalanced(f.at[i], t)
      ok == f.asserted /\ IsAlmostBalanced(joined) /\ MinLen[i] <= joined.size
  IN IF i = MaxDepth \/ joined.size < MinLen[i + 1]
     THEN [at |-> [f.at EXCEPT ![i] = joined], asserted |-> ok]
     ELSE Settle([at |-> [f.at EXCEPT ![i] = Null], asserted |-> ok], i + 1, joined)

AddLeafToForest(t, f) ==
  LET g == GatherTiny(f, 0, Null, t.size)
      insertee == ConcatAndSetBalanced(g.tiny, t)
      ok == IsAlmostBalanced(insertee) /\ insertee.depth <= t.depth + 1
  IN Settle([g.f EXCEPT !.asserted = @ /\ ok], g.i, insertee)

AddToForest(t, f) ==
  IF t.balanced THEN AddLeafToForest(t, f) ELSE AddToForest(t.right, AddToForest(t.left, f))

\* _S_balance
Balanced(t) ==
  LET forest == AddToForest(t, EmptyForest).at
  IN  FoldLeft(LAMBDA s, i : Concat(forest[i - 1], s), Null, [i \in 1..(MaxDepth + 1) |-> i])

BalanceAsserts(t) == AddToForest(t, EmptyForest).asserted
-----------------------------------------------------------------------------
(* Concatenation *)
Short(t, n) == t.tag = "leaf" /\ t.size + n <= CopyMax

TreeConcat(l, r) ==
  LET t == Concatenation(l, r) IN
  IF t.depth > DeepDepth /\ (t.size < DeepSize \/ t.depth > MaxDepth) THEN Balanced(t) ELSE t

FromChars(s) == IF s = << >> THEN Null ELSE Leaf(s)

\* _S_concat_char_iter
ConcatChars(t, s) ==
  CASE s = << >> -> t
    [] s # << >> /\ t = Null -> Leaf(s)
    [] s # << >> /\ Short(t, Len(s)) -> Leaf(t.data \o s)
    [] s # << >> /\ t.tag = "concat" /\ Short(t.right, Len(s)) -> TreeConcat(t.left, Leaf(t.right.data \o s))
    [] OTHER -> TreeConcat(t, Leaf(s))

\* _S_concat
Concat(l, r) ==
  CASE l = Null -> r
    [] l # Null /\ r = Null -> l
    [] l # Null /\ r.tag = "leaf" /\ Short(l, r.size) -> Leaf(l.data \o r.data)
    [] l # Null /\ r.tag = "leaf" /\ l.tag = "concat" /\ Short(l.right, r.size) ->
         TreeConcat(l.left, Leaf(l.right.data \o r.data))
    [] OTHER -> TreeConcat(l, r)

\* Rope(n, c), with less than two full leaves: what power makes of more is not in the repository.
Fill(n, c) ==
  LET chars(k) == [i \in 1..k |-> c] IN
  IF n < FillThreshold THEN FromChars(chars(n))
  ELSE Concat(Leaf(chars(FillThreshold)), FromChars(chars(n % FillThreshold)))
-----------------------------------------------------------------------------
RECURSIVE Part(_, _, _)

\* Mutant: a part of a part is taken from where its base begins.
PartOfFlatFromBase(t, start, end) ==
  CASE start >= end -> Null
    [] start < end /\ end - start <= LazyThreshold -> Leaf(SubSeq(Data(t), start + 1, end))
    [] start < end /\ end - start > LazyThreshold /\ t.tag = "substringfn" -> Substring(t.base, start, end - start)
    [] OTHER -> Substring(t, start, end - start)

\* _S_substring
PartOfFlat(t, start, end) ==
  CASE start >= end -> Null
    [] start < end /\ end - start <= LazyThreshold -> Leaf(SubSeq(Data(t), start + 1, end))
    [] start < end /\ end - start > LazyThreshold /\ t.tag = "substringfn" ->
         Substring(t.base, start + t.start, end - start)
    [] OTHER -> Substring(t, start, end - start)

Part(t, start, endp1) ==
  LET end == IF endp1 < t.size THEN endp1 ELSE t.size
      n == t.left.size
  IN CASE t = Null -> Null
       [] t # Null /\ start = 0 /\ endp1 >= t.size -> t
       [] t # Null /\ ~(start = 0 /\ endp1 >= t.size) /\ t.tag # "concat" -> PartOfFlat(t, start, end)
       [] OTHER -> IF end <= n THEN Part(t.left, start, endp1)
                   ELSE IF start >= n THEN Part(t.right, start - n, end - n)
                   ELSE Concat(Part(t.left, start, n), Part(t.right, 0, endp1 - n))

\* replace(old, pos1, pos2, nothing)
Without(t, pos1, pos2) == Concat(Part(t, 0, pos1), Part(t, pos2, t.size))

\* _Rope_char_ref_proxy::operator=
WithChar(t, pos, c) == Concat(ConcatChars(Part(t, 0, pos), <<c>>), Part(t, pos + 1, t.size))
=============================================================================
