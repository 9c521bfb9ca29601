------------------------------ MODULE TplRules ------------------------------
(***************************************************************************)
(* tpl/regex: rules that match a source and build a document.  A rule is a *)
(* record named for its class; Match is the member match of that class.    *)
(* The state a match works on:                                             *)
(*   text               the source, characters being numbers,              *)
(*   pos, first, last   the archive's position and limits in it,           *)
(*   nodes              the document's nodes, each a list, newest first,   *)
(*   stk                m_stk of the context: the nodes in scope.          *)
(* A match ends "ok" or "fail"; "loops" when a repetition matched without  *)
(* moving on, which a release build repeats for ever and a debug build     *)
(* asserts against.                                                        *)
(***************************************************************************)
EXTENDS Integers, Sequences, SequencesExt

CONSTANT VarRule    \* what was assigned to each Var, by name

endch == -1
Unlimited == 1000   \* nMax's default

Ch(S) == [op |-> "Ch", set |-> S]
Not(x) == [op |-> "Not", set |-> x.set]
Peek(S) == [op |-> "Peek", set |-> S]
Str(s) == [op |-> "Str", str |-> s]
Find(s, bEat) == [op |-> "Find", str |-> s, bEat |-> bEat]
Eps == [op |-> "Eps"]
Eos == [op |-> "Peek", set |-> {endch}]
And(x, y) == [op |-> "And", x |-> x, y |-> y]
UAnd(x, y) == [op |-> "UAnd", x |-> x, y |-> y]
Or(x, y) == [op |-> "Or", x |-> x, y |-> y]
Restr(x, y) == [op |-> "Restr", x |-> x, y |-> y]
Repeat(x, nMin, nMax) == [op |-> "Repeat", x |-> x, nMin |-> nMin, nMax |-> nMax]
Repeat0(x) == [op |-> "RepeatU", x |-> x, nMin |-> 0, nMax |-> Unlimited]
Repeat1(x) == [op |-> "RepeatU", x |-> x, nMin |-> 1, nMax |-> Unlimited]
Repeat01(x) == [op |-> "RepeatU", x |-> x, nMin |-> 0, nMax |-> 1]
Lst(x, y) == And(x, Repeat0(And(y, x)))
UGuard(x) == [op |-> "UGuard", x |-> x]
PredRule(x, S) == [op |-> "PredRule", x |-> x, texts |-> S, meets |-> TRUE]
PredNot(x, S) == [op |-> "PredRule", x |-> x, texts |-> S, meets |-> FALSE]
LeafAssign(mark, x) == [op |-> "LeafAssign", mark |-> mark, x |-> x]
NodeAssign(mark, x) == [op |-> "NodeAssign", mark |-> mark, x |-> x]
Var(name) == [op |-> "Var", name |-> name]
Gr(x) == [op |-> "Gr", x |-> x]
GOr(x, y) == [op |-> "GOr", x |-> x, y |-> y]
GrBind(gr, skipper) == [op |-> "GrBind", x |-> gr, y |-> skipper]

\* The CHARACTER_MARKED bit of a rule's character.
RECURSIVE Marked(_)
Marked(r) ==
  \/ r.op \in {"LeafAssign", "NodeAssign", "Var"}
  \/ /\ r.op \notin {"UAnd", "UGuard"}
     /\ \E part \in {"x", "y"} \cap DOMAIN r : Marked(r[part])
-----------------------------------------------------------------------------
Ended(res, st) == [res |-> res, st |-> st]
Ok(st) == Ended("ok", st)
Fail(st) == Ended("fail", st)

Start(text) == [text |-> text, pos |-> 0, first |-> 0, last |-> Len(text),
                nodes |-> << << >> >>, stk |-> <<1>>]

\* get, which stays at the end of the source, and unget
PeekCh(st) == IF st.pos < st.last THEN st.text[st.pos + 1] ELSE endch
Get(st) == IF st.pos < st.last THEN [st EXCEPT !.pos = @ + 1] ELSE st

InScope(st) == Head(st.stk)
Insert(st, entry) == [st EXCEPT !.nodes[InScope(st)] = <<entry>> \o @]

\* Mutant: only the position is put back.
RollbackPosition(marked, old, st) == [st EXCEPT !.pos = old.pos]

\* trans_type<character>: the position, for a marked rule also the list of
\* the node that was in scope when the transaction began.
Rollback(marked, old, st) ==
  IF marked THEN [st EXCEPT !.pos = old.pos, !.nodes[InScope(old)] = old.nodes[InScope(old)]]
  ELSE [st EXCEPT !.pos = old.pos]

OrRollback(marked, old, m) ==
  IF m.res = "fail" THEN Fail(Rollback(marked, old, m.st)) ELSE m

\* Mutant: the character that does not match is not put back.
MatchChEats(r, st) == IF PeekCh(st) \in r.set THEN Ok(Get(st)) ELSE Fail(Get(st))

MatchCh(r, st) == IF PeekCh(st) \in r.set THEN Ok(Get(st)) ELSE Fail(st)
MatchNot(r, st) == IF PeekCh(st) \notin r.set THEN Ok(Get(st)) ELSE Fail(st)

Piece(st, from, to) == SubSeq(st.text, from + 1, to)
OccursAt(st, s, p) == p + Len(s) <= st.last /\ Piece(st, p, p + Len(s)) = s

MatchStr(r, st) ==
  IF OccursAt(st, r.str, st.pos) THEN Ok([st EXCEPT !.pos = @ + Len(r.str)]) ELSE Fail(st)

\* The first occurrence from the position on; the position is put before it
\* or, with bEat, behind it.
MatchFind(r, st) ==
  LET hits == {p \in st.pos..st.last : OccursAt(st, r.str, p)} IN
  IF hits = {} THEN Fail(st)
  ELSE LET p == CHOOSE h \in hits : \A g \in hits : h <= g
       IN Ok([st EXCEPT !.pos = IF r.bEat THEN p + Len(r.str) ELSE p])
-----------------------------------------------------------------------------
RECURSIVE Match(_, _, _), Repeated(_, _, _, _)

\* One after the other, and the alternative; sk is the skipper in force.
Both(r, st, sk) ==
  LET m == Match(r.x, st, sk) IN IF m.res = "ok" THEN Match(r.y, m.st, sk) ELSE m
Either(r, st, sk) ==
  LET m == Match(r.x, st, sk) IN IF m.res = "fail" THEN Match(r.y, m.st, sk) ELSE m

\* Matches of r.x, from the n-th on; how the last attempt ended is left to
\* the number of them.
Repeated(r, st, sk, n) ==
  IF n = r.nMax THEN Ok(st)
  ELSE LET m == Match(r.x, st, sk) IN
       CASE m.res = "loops" -> m
         [] m.res = "fail" -> Ended(IF n >= r.nMin THEN "ok" ELSE "fail", m.st)
         [] m.res = "ok" /\ m.st.pos = st.pos /\ r.nMax = Unlimited -> Ended("loops", m.st)
         [] OTHER -> Repeated(r, m.st, sk, n + 1)

\* r.y is matched in what r.x matched; ~Restriction puts the archive back.
Restricted(r, st, sk) ==
  LET m == Match(r.x, st, sk)
      within == [m.st EXCEPT !.first = st.pos, !.pos = st.pos, !.last = m.st.pos]
      w == Match(r.y, within, sk)
  IN IF m.res # "ok" THEN m
     ELSE Ended(w.res, [w.st EXCEPT !.pos = m.st.pos, !.first = m.st.first, !.last = m.st.last])

Predicated(r, st, sk) ==
  LET m == Match(r.x, st, sk) IN
  IF m.res = "ok" /\ (Piece(m.st, st.pos, m.st.pos) \in r.texts) # r.meets THEN Fail(m.st) ELSE m

Leaf(r, st, sk) ==
  LET m == Match(r.x, st, sk) IN
  IF m.res = "ok"
    THEN Ok(Insert(m.st, [mark |-> r.mark, from |-> st.pos, to |-> m.st.pos]))
    ELSE m

\* The node goes into the document first, and out again with the rollback
\* of its parent's list; the scope ends in any case.
Node(r, st, sk) ==
  LET id == Len(st.nodes) + 1
      opened == [Insert(st, [mark |-> r.mark, kid |-> id]) EXCEPT
                   !.nodes = Append(@, << >>), !.stk = <<id>> \o @]
      m == Match(r.x, opened, sk)
      old == st.nodes[InScope(st)]
  IN IF m.res = "fail" THEN Fail([m.st EXCEPT !.nodes[InScope(st)] = old, !.stk = Tail(@)])
     ELSE [m EXCEPT !.st.stk = Tail(@)]

Match(r, st, sk) ==
  CASE r.op = "Ch" -> MatchCh(r, st)
    [] r.op = "Not" -> MatchNot(r, st)
    [] r.op = "Peek" -> IF PeekCh(st) \in r.set THEN Ok(st) ELSE Fail(st)
    [] r.op = "Str" -> MatchStr(r, st)
    [] r.op = "Find" -> MatchFind(r, st)
    [] r.op = "Eps" -> Ok(st)
    [] r.op = "And" -> OrRollback(Marked(r.x), st, Both(r, st, sk))
    [] r.op = "UAnd" -> Both(r, st, sk)
    [] r.op = "Or" -> Either(r, st, sk)
    [] r.op = "Restr" -> OrRollback(Marked(r), st, Restricted(r, st, sk))
    [] r.op = "Repeat" -> OrRollback(Marked(r), st, Repeated(r, st, sk, 0))
    [] r.op = "RepeatU" -> Repeated(r, st, sk, 0)
    [] r.op = "UGuard" -> OrRollback(FALSE, st, Match(r.x, st, sk))
    [] r.op = "PredRule" -> OrRollback(Marked(r.x), st, Predicated(r, st, sk))
    [] r.op = "LeafAssign" -> Leaf(r, st, sk)
    [] r.op = "NodeAssign" -> Node(r, st, sk)
    [] r.op = "Var" -> Match(VarRule[r.name], st, sk)
    [] r.op = "Gr" -> Match(r.x, Match(sk, st, Eps).st, Eps)
    [] r.op = "GOr" -> Either(r, Match(sk, st, Eps).st, sk)
    [] r.op = "GrBind" ->
         LET m == Match(r.x, st, r.y)
         IN IF m.res = "ok" THEN Ok(Match(r.y, m.st, Eps).st) ELSE m
=============================================================================
