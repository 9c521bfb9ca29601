------------------------------ MODULE TplMatch -------------------------------
(***************************************************************************)
(* A client of tpl/regex: it opens an archive on a source and a context on *)
(* an empty document, and matches one rule after another at the archive's  *)
(* position.  Rules succeed or fail with what they put into the document   *)
(* taken out again; the reference they are held against is a derivation    *)
(* that has no document, no transactions and no position to put back.      *)
(***************************************************************************)
EXTENDS TplTokens

CONSTANTS Texts,            \* the sources
          RulesFor(_, _),   \* what a client matches n-th on a source
          MaxMatches        \* bound: matches on one source

VARIABLES st,       \* the archive and the document
          outcome,  \* of the last match; "none" before the first
          asked,    \* history: the rule and the position of the last match
          kept,     \* history: the document before it
          n         \* history: how many matches there were

vars == <<st, outcome, asked, kept, n>>

\* The document as travel visits it: every list from its oldest entry on.
RECURSIVE Travel(_, _)
Travel(nodes, id) ==
  [k \in 1..Len(nodes[id]) |->
     LET entry == nodes[id][Len(nodes[id]) + 1 - k]
     IN IF "kid" \in DOMAIN entry
          THEN [mark |-> entry.mark, kids |-> Travel(nodes, entry.kid)]
          ELSE entry]

Document == Travel(st.nodes, 1)

Init ==
  /\ \E text \in Texts : st = Start(text)
  /\ outcome = "none"
  /\ asked = [rule |-> Eps, from |-> 0]
  /\ kept = << >>
  /\ n = 0

\* A repetition that never ends lets the client do nothing more.
Apply(r) ==
  /\ outcome # "loops"
  /\ n < MaxMatches
  /\ LET m == Match(r, st, Eps) IN st' = m.st /\ outcome' = m.res
  /\ asked' = [rule |-> r, from |-> st.pos]
  /\ kept' = Document
  /\ n' = n + 1

Next == \E r \in RulesFor(n + 1, st.text) : Apply(r)

Spec == Init /\ [][Next]_vars
-----------------------------------------------------------------------------
\* The reference: where a match of r from i on ends in text up to last and
\* the marks it leaves, in the order of the source.  sk is the skipper.
Took(to, marks) == [ok |-> TRUE, to |-> to, marks |-> marks]
None == [ok |-> FALSE, to |-> 0, marks |-> << >>]

RECURSIVE Derive(_, _, _, _, _), DeriveMany(_, _, _, _, _, _)

Then(d, Rest(_)) ==
  IF ~d.ok THEN None
  ELSE LET e == Rest(d.to) IN IF e.ok THEN Took(e.to, d.marks \o e.marks) ELSE None

\* The longest run of r.x, at most max of them.
DeriveMany(r, text, i, last, sk, max) ==
  LET none == [to |-> i, marks |-> << >>, times |-> 0]
      d == Derive(r.x, text, i, last, sk)
      e == DeriveMany(r, text, d.to, last, sk, max - 1)
  IN IF max = 0 THEN none
     ELSE IF ~d.ok THEN none
     ELSE [to |-> e.to, marks |-> d.marks \o e.marks, times |-> e.times + 1]

At(text, i, last) == IF i < last THEN text[i + 1] ELSE endch
Past(i, last) == IF i < last THEN i + 1 ELSE i
After(text, i, last, s) == i + Len(s) <= last /\ SubSeq(text, i + 1, i + Len(s)) = s

Derive(r, text, i, last, sk) ==
  CASE r.op = "Ch" -> IF At(text, i, last) \in r.set THEN Took(Past(i, last), << >>) ELSE None
    [] r.op = "Not" -> IF At(text, i, last) \notin r.set THEN Took(Past(i, last), << >>) ELSE None
    [] r.op = "Peek" -> IF At(text, i, last) \in r.set THEN Took(i, << >>) ELSE None
    [] r.op = "Str" -> IF After(text, i, last, r.str) THEN Took(i + Len(r.str), << >>) ELSE None
    [] r.op = "Find" ->
         IF \E p \in i..last : After(text, p, last, r.str)
           THEN LET p == CHOOSE p \in i..last :
                           /\ After(text, p, last, r.str)
                           /\ \A q \in i..(p - 1) : ~After(text, q, last, r.str)
                IN Took(IF r.bEat THEN p + Len(r.str) ELSE p, << >>)
           ELSE None
    [] r.op = "Eps" -> Took(i, << >>)
    [] r.op \in {"And", "UAnd"} ->
         LET Rest(to) == Derive(r.y, text, to, last, sk)
         IN Then(Derive(r.x, text, i, last, sk), Rest)
    [] r.op \in {"Or", "GOr"} ->
         LET d == Derive(r.x, text, i, last, sk)
         IN IF d.ok THEN d ELSE Derive(r.y, text, i, last, sk)
    [] r.op = "Restr" ->
         LET d == Derive(r.x, text, i, last, sk)
             e == Derive(r.y, text, i, d.to, sk)
         IN IF d.ok /\ e.ok THEN Took(d.to, d.marks \o e.marks) ELSE None
    [] r.op \in {"Repeat", "RepeatU"} ->
         LET d == DeriveMany(r, text, i, last, sk, r.nMax)
         IN IF d.times >= r.nMin THEN Took(d.to, d.marks) ELSE None
    [] r.op = "UGuard" -> Derive(r.x, text, i, last, sk)
    [] r.op = "PredRule" ->
         LET d == Derive(r.x, text, i, last, sk)
         IN IF d.ok /\ (SubSeq(text, i + 1, d.to) \in r.texts) = r.meets THEN d ELSE None
    [] r.op = "LeafAssign" ->
         LET d == Derive(r.x, text, i, last, sk)
             leaf == [mark |-> r.mark, from |-> i, to |-> d.to]
         IN IF d.ok THEN Took(d.to, Append(d.marks, leaf)) ELSE None
    [] r.op = "NodeAssign" ->
         LET d == Derive(r.x, text, i, last, sk)
         IN IF d.ok THEN Took(d.to, <<[mark |-> r.mark, kids |-> d.marks]>>) ELSE None
    [] r.op = "Var" -> Derive(VarRule[r.name], text, i, last, sk)
    [] r.op = "Gr" ->
         LET Rest(to) == Derive(r.x, text, to, last, Eps)
         IN Then(Derive(sk, text, i, last, Eps), Rest)
    [] r.op = "GrBind" ->
         LET Rest(to) == Derive(r.y, text, to, last, Eps)
         IN Then(Derive(r.x, text, i, last, r.y), Rest)

Derived == Derive(asked.rule, st.text, asked.from, Len(st.text), Eps)
-----------------------------------------------------------------------------
\* Between matches the archive has its own limits again and the document
\* alone is in scope: restrictions and node scopes end with the rules that
\* open them, however those end (MemReadArchive::Restriction, Context::Scope).
ScopesClosed == st.first = 0 /\ st.last = Len(st.text) /\ st.stk = <<1>>

\* A rule matches exactly when it has a derivation.  It then ends where the
\* derivation does and adds the derivation's marks to the document, nested
\* and in the order of the source, and none of an alternative given up; when
\* it fails it leaves the document as it was, and the position too, but for a
\* grammar's, which may stand behind text its skipper takes.
MatchesDerivation ==
  (outcome \in {"ok", "fail"} /\ asked.rule \notin {Tokens[name] : name \in DOMAIN Tokens}) =>
    /\ ScopesClosed
    /\ (outcome = "ok") = Derived.ok
    /\ outcome = "ok" => st.pos = Derived.to /\ Document = kept \o Derived.marks
    /\ outcome = "fail" =>
         /\ Document = kept
         /\ \/ st.pos = asked.from
            \/ /\ asked.rule.op = "GrBind"
               /\ st.pos \in asked.from..Derive(asked.rule.y, st.text, asked.from, Len(st.text), Eps).to

\* A token takes the longest text of the language its comment gives it, and
\* fails where it stands when no text of the language starts there.
TokensTakeLongest ==
  \A name \in DOMAIN Tokens :
    (n > 0 /\ asked.rule = Tokens[name]) =>
      LET ends == {to \in asked.from..Len(st.text) :
                     InLanguage(name, SubSeq(st.text, asked.from + 1, to))}
      IN IF ends = {} THEN outcome = "fail" /\ st.pos = asked.from
         ELSE outcome = "ok" /\ st.pos \in ends /\ \A to \in ends : to <= st.pos

\* Operator.h:200, Operator.h:244: TPL_ASSERT(ar.position() != pos), every
\* match of a repetition's operand moves on.
RepetitionAdvances == outcome # "loops"
=============================================================================
