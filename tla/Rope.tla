-------------------------------- MODULE Rope --------------------------------
(***************************************************************************)
(* A rope (stdext/text/rope) and iterators over it: m reads and writes it, *)
(* the others are constant iterators, which keep the tree they were made   *)
(* for.  An iterator remembers the lower end of its path to the leaf it is *)
(* in, and points into that leaf or, if the leaf has to be produced, into  *)
(* a buffer of its own.                                                    *)
(***************************************************************************)
EXTENDS RopeTree

CONSTANTS
  BufLen,        \* _S_iterator_buf_len, 15
  PathLen,       \* _S_path_cache_len, 4
  Scenes,        \* ropes that have been built, each with the iterators over it
  Careful,       \* whether the client avoids what Borrows and Stale say
  Others,        \* ropes that are appended to another
  Char, Texts,   \* what is written
  MaxSize,       \* bound: characters of the rope
  MaxEdits       \* bound: changes of the rope

VARIABLES
  rope,     \* its tree, and which of the rope's trees it is
  text,     \* history: the string the client made of it
  iter      \* the iterators

rvars == <<rope, text, iter>>
m == "m"
Iter == DOMAIN iter
Const == Iter \ {m}

NoBuf == [in |-> "none", ptr |-> 0, end |-> 0]
Zeros == [i \in 1..BufLen |-> 0]
At(root, pos) == [root |-> root, pos |-> pos, leafPos |-> 0, path |-> << >>, turns |-> << >>, buf |-> NoBuf, tmp |-> Zeros]

RInit ==
  /\ \E scene \in Scenes :
       /\ rope = [tree |-> scene.tree, version |-> 0]
       /\ text = Flatten(scene.tree)
       /\ iter = [x \in scene.iters |-> At(rope, 0)]
-----------------------------------------------------------------------------
(* The cache of an iterator x, whose record is it. *)
Leaf0(it) == Last(it.path)

\* Where the buffer of a produced leaf begins
BufStart(it) ==
  LET size == Leaf0(it).size
      p == it.pos - it.leafPos
  IN IF BufLen > p THEN 0
     ELSE LET s == p - BufLen \div 4 IN IF s + BufLen > size THEN size - BufLen ELSE s

SetBuf(x, it) ==
  IF Leaf0(it).tag = "leaf"
  THEN [it EXCEPT !.buf = [in |-> "leaf", ptr |-> it.pos - it.leafPos, end |-> Leaf0(it).size]]
  ELSE LET s == BufStart(it)
           n == IF s + BufLen > Leaf0(it).size THEN Leaf0(it).size - s ELSE BufLen
       IN [it EXCEPT !.buf = [in |-> x, ptr |-> it.pos - it.leafPos - s, end |-> n],
                     !.tmp = SubSeq(Data(Leaf0(it)), s + 1, s + n) \o SubSeq(@, n + 1, BufLen)]

RECURSIVE Descend(_, _)
Descend(it, pos) ==
  LET t == Leaf0(it)
      To(child, turn, start) ==
        Descend([it EXCEPT !.path = Append(@, child), !.turns = Append(@, turn), !.leafPos = start], pos)
  IN IF t.tag # "concat" THEN it
     ELSE IF pos >= it.leafPos + t.left.size THEN To(t.right, "right", it.leafPos + t.left.size)
     ELSE To(t.left, "left", it.leafPos)

Shortened(path) == IF Len(path) <= PathLen THEN path ELSE SubSeq(path, Len(path) - PathLen + 1, Len(path))

SetCache(x, it) ==
  IF it.pos >= it.root.tree.size THEN [it EXCEPT !.buf = NoBuf]
  ELSE LET d == Descend([it EXCEPT !.path = <<it.root.tree>>, !.turns = << >>, !.leafPos = 0], it.pos)
       IN  SetBuf(x, [d EXCEPT !.path = Shortened(@)])

\* Up the path, as long as it came from the right; it.leafPos follows.
RECURSIVE Climb(_)
Climb(it) ==
  IF Len(it.path) = 1 \/ Last(it.turns) = "left" THEN it
  ELSE Climb([it EXCEPT !.path = Front(@), !.turns = Front(@),
                        !.leafPos = @ - it.path[Len(it.path) - 1].left.size])

SetCacheForIncr(x, it) ==
  LET up == Climb(it)
      c == it.path[Len(up.path) - 1]
      over == [up EXCEPT !.path = Append(Front(@), c.right), !.turns = Append(Front(@), "right"),
                         !.leafPos = @ + c.left.size]
  IN IF it.pos - it.leafPos < Leaf0(it).size THEN SetBuf(x, it)
     ELSE IF Len(up.path) = 1 THEN SetCache(x, it)
     ELSE LET d == Descend(over, it.pos) IN SetBuf(x, [d EXCEPT !.path = Shortened(@)])

Incr(x, it0, n) ==
  LET it == [it0 EXCEPT !.pos = @ + n]
      left == it.buf.end - it.buf.ptr
  IN CASE it.buf = NoBuf -> it
       [] it.buf # NoBuf /\ left > n -> [it EXCEPT !.buf.ptr = @ + n]
       [] it.buf # NoBuf /\ left = n -> SetCacheForIncr(x, [it EXCEPT !.buf.ptr = @ + n])
       [] OTHER -> [it EXCEPT !.buf = NoBuf]

Decr(it0, n) ==
  LET it == [it0 EXCEPT !.pos = @ - n] IN
  IF it.buf # NoBuf /\ it.buf.ptr >= n THEN [it EXCEPT !.buf.ptr = @ - n] ELSE [it EXCEPT !.buf = NoBuf]

\* Mutant: the buffer is kept.
CheckedKeepsBuffer(it) == IF it.root = rope THEN it ELSE [it EXCEPT !.root = rope]

\* _M_check
Checked(it) == IF it.root = rope THEN it ELSE [it EXCEPT !.root = rope, !.buf = NoBuf]

\* What the pointer into the buffer points to
Pointed(its, it) == IF it.buf.in = "leaf" THEN Data(Leaf0(it))[it.buf.ptr + 1] ELSE its[it.buf.in].tmp[it.buf.ptr + 1]
-----------------------------------------------------------------------------
(* Iterators *)
Become(x, it) == iter' = [iter EXCEPT ![x] = it] /\ UNCHANGED <<rope, text>>
Keeping(x, it) == [it EXCEPT !.tmp = iter[x].tmp]   \* the buffer's characters are not assigned

\* mutable_begin() + pos, begin() + pos
Place(x, pos) ==
  /\ pos <= rope.tree.size
  /\ Become(x, IF x = m /\ rope.tree # Null THEN SetCache(m, Keeping(m, At(rope, pos))) ELSE Keeping(x, At(rope, pos)))

Move(x, n) ==
  \/ iter[x].pos + n <= iter[x].root.tree.size /\ Become(x, Incr(x, iter[x], n))
  \/ iter[x].pos >= n /\ Become(x, Decr(iter[x], n))

InText(x) == iter[x].pos < (IF x = m THEN rope ELSE iter[x].root).tree.size

\* m only looks at its buffer; the others fill theirs.
Deref(x) ==
  /\ InText(x)
  /\ Become(x, IF x = m THEN Checked(iter[m])
               ELSE IF iter[x].buf = NoBuf THEN SetCache(x, iter[x]) ELSE iter[x])

Bare(x, root, pos) == [iter[x] EXCEPT !.root = root, !.pos = pos, !.buf = NoBuf]

\* Copies what has been produced, and points to the original of it.
Borrows(it) == it.buf.in \notin {"none", "leaf"}

\* x = y.  The copy constructor asks the pointer that it is about to set,
\* which has no value yet, whether to take more than the position.
Copy(x, y) ==
  /\ x # y
  /\ Careful => ~Borrows(iter[y])
  /\ \/ Become(x, iter[y])
     \/ Become(x, Bare(x, iter[y].root, iter[y].pos))

\* m was not looked at since the rope changed, and x was.
Stale(x) == iter[m].root # rope /\ iter[x].root = rope

\* x = m: the assignment compares the rope with x, the constructor with m.
Assign(x) ==
  /\ m \in Iter
  /\ Careful => ~Stale(x) /\ ~Borrows(iter[m])
  /\ Become(x, IF iter[x].root = rope THEN iter[m] ELSE Bare(x, rope, iter[m].pos))

Convert(x) ==
  /\ m \in Iter
  /\ Careful => ~Borrows(iter[m])
  /\ Become(x, IF iter[m].root = rope THEN iter[m] ELSE Bare(x, rope, iter[m].pos))
-----------------------------------------------------------------------------
(* Changes of the rope.  now is the string a change is to make of it. *)
Becomes(t, now) ==
  /\ rope.version < MaxEdits /\ t.size <= MaxSize
  /\ rope' = IF t = rope.tree THEN rope ELSE [tree |-> t, version |-> rope.version + 1]
  /\ text' = now

Take(n) == SubSeq(text, 1, n)
Drop(n) == SubSeq(text, n + 1, Len(text))

Set(s) == Becomes(FromChars(s), s) /\ UNCHANGED iter   \* also clear
AppendChars(s) == Becomes(ConcatChars(rope.tree, s), text \o s) /\ UNCHANGED iter   \* also push_back
PushFront(c) == Becomes(Concat(Leaf(<<c>>), rope.tree), <<c>> \o text) /\ UNCHANGED iter
AppendRope(t) == Becomes(Concat(rope.tree, t), text \o Flatten(t)) /\ UNCHANGED iter
AppendFill(n, c) == Becomes(Concat(rope.tree, Fill(n, c)), text \o [i \in 1..n |-> c]) /\ UNCHANGED iter
Erase(p, n) == Becomes(Without(rope.tree, p, p + n), Take(p) \o Drop(p + n)) /\ UNCHANGED iter
Balance == rope.tree # Null /\ Becomes(Balanced(rope.tree), text) /\ UNCHANGED iter
PutAt(p, c) == Becomes(WithChar(rope.tree, p, c), Take(p) \o <<c>> \o Drop(p + 1))
Put(p, c) == p < rope.tree.size /\ PutAt(p, c) /\ UNCHANGED iter
Write(c) == m \in Iter /\ InText(m) /\ PutAt(iter[m].pos, c) /\ iter' = [iter EXCEPT ![m] = Checked(@)]

RNext ==
  \/ \E s \in Texts : Set(s) \/ AppendChars(s)
  \/ \E c \in Char : PushFront(c) \/ Write(c)
  \/ \E t \in Others \cup {rope.tree} : AppendRope(t)
  \/ \E n \in 1..(2 * FillThreshold - 1), c \in Char : AppendFill(n, c)
  \/ \E p, n \in 0..MaxSize : p + n <= rope.tree.size /\ Erase(p, n)
  \/ Balance
  \/ \E p \in 0..MaxSize, c \in Char : Put(p, c)
  \/ \E x \in Iter, p \in 0..MaxSize : Place(x, p)
  \/ \E x \in Iter, n \in 1..2 : Move(x, n)
  \/ \E x \in Iter : Deref(x)
  \/ \E x, y \in Const : Copy(x, y)
  \/ \E x \in Const : Assign(x) \/ Convert(x)

RSpec == RInit /\ [][RNext]_rvars
-----------------------------------------------------------------------------
\* A rope is the string it was made, whatever tree it is held in and in which
\* way its pieces were copied, shared, cut and balanced, and however it is
\* read: at a position, in pieces or as a whole.
RopeIsString ==
  /\ Flatten(rope.tree) = text
  /\ \A p \in 1..Len(text) : Fetch(rope.tree, p - 1) = text[p]
  /\ \A b \in 0..Len(text) : \A e \in b..Len(text) : Pieces(rope.tree, b, e) = SubSeq(text, b + 1, e)

\* What an iterator reads next
Reads(x) ==
  LET it == IF x = m THEN Checked(iter[m])
            ELSE IF iter[x].buf = NoBuf THEN SetCache(x, iter[x]) ELSE iter[x]
  IN IF it.buf = NoBuf THEN Fetch(rope.tree, it.pos) ELSE Pointed([iter EXCEPT ![x] = it], it)

\* An iterator reads the character at its position: of the rope as it has
\* become, or of the one a constant iterator was made or assigned for, after
\* whatever moves filled, kept, climbed out of and dropped its cached path.
IteratorsRead ==
  \A x \in Iter : InText(x) =>
    Reads(x) = Flatten((IF x = m THEN rope ELSE iter[x].root).tree)[iter[x].pos + 1]

\* "!= 0 ==> buffer valid": a pointer that is set points to the character at
\* the iterator's position, also after the iterator was copied.
BufferValid ==
  \A x \in Iter : iter[x].buf # NoBuf => Pointed(iter, iter[x]) = Flatten(iter[x].root.tree)[iter[x].pos + 1]

\* Balancing finds what it asserts of the trees it joins: that one is nearly
\* balanced, as long as its bucket wants, and at most one deeper than the leaf
\* that was added.
BalanceAsserted == rope.tree # Null => BalanceAsserts(rope.tree)
=============================================================================
