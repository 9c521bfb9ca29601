------------------------------ MODULE KmpFinder ------------------------------
(***************************************************************************)
(* stdext/search/KMP.h: a finder is initialised with a pattern, for which  *)
(* initPattern builds the table m_next, and searches archives for it; the  *)
(* rule find(...) of tpl is written with it.  The two functions are loops  *)
(* in a loop; a step here is one test of an inner loop.  m_next[i] of the  *)
(* code is next[i + 1].                                                    *)
(***************************************************************************)
EXTENDS Patterns

VARIABLES
  text,      \* what the archive holds
  pos,       \* where the archive stands
  from,      \* history: where it stood when the search began
  str,       \* m_str_find, m_size long; empty before the first pattern
  next,      \* m_next
  border,    \* k of initPattern, j of next
  pc,        \* where the finder is: "idle", "table", "read" or "match"
  result     \* the HRESULT of the last call

kvars == <<text, pos, from, str, next, border, pc, result>>

npos == -1

KInit ==
  /\ text \in Text
  /\ pos = 0 /\ from = 0
  /\ str = << >> /\ next = << >>
  /\ border = npos
  /\ pc = "idle" /\ result = "S_OK"
-----------------------------------------------------------------------------
\* initPattern of an empty pattern returns before it touches the finder.
RefusePattern ==
  /\ pc = "idle" /\ << >> \in Pattern
  /\ result' = "E_INVALIDARG"
  /\ UNCHANGED <<text, pos, from, str, next, border, pc>>

InitPattern(p) ==
  /\ pc = "idle" /\ p # << >>
  /\ str' = p
  /\ next' = <<npos>>
  /\ border' = npos
  /\ pc' = IF Len(p) = 1 THEN "idle" ELSE "table"
  /\ result' = "S_OK"
  /\ UNCHANGED <<text, pos, from>>

\* The entry to be computed is for the first Len(next) characters.
TableFits == border # npos => str[border + 1] = str[Len(next)]

\* Mutant: a mismatch starts over.
ShortenRestarts ==
  /\ pc = "table" /\ ~TableFits
  /\ border' = npos
  /\ UNCHANGED <<text, pos, from, str, next, pc, result>>

Shorten ==
  /\ pc = "table" /\ ~TableFits
  /\ border' = next[border + 1]
  /\ UNCHANGED <<text, pos, from, str, next, pc, result>>

Extend ==
  /\ pc = "table" /\ TableFits
  /\ next' = Append(next, border + 1)
  /\ border' = border + 1
  /\ pc' = IF Len(next) + 1 = Len(str) THEN "idle" ELSE "table"
  /\ UNCHANGED <<text, pos, from, str, result>>
-----------------------------------------------------------------------------
\* next(ar)
Search ==
  /\ pc = "idle"
  /\ IF str = << >>
     THEN /\ result' = "E_ACCESSDENIED"
          /\ UNCHANGED <<from, border, pc>>
     ELSE /\ from' = pos /\ border' = 0 /\ pc' = "read"
          /\ UNCHANGED result
  /\ UNCHANGED <<text, pos, str, next>>

Read ==
  /\ pc = "read"
  /\ IF pos = Len(text)
     THEN pc' = "idle" /\ result' = "S_FALSE" /\ UNCHANGED pos
     ELSE pc' = "match" /\ pos' = pos + 1 /\ UNCHANGED result
  /\ UNCHANGED <<text, from, str, next, border>>

\* The character read is the one before the position.
MatchFits == border # npos => str[border + 1] = text[pos]

\* Mutant: a mismatch starts over; it does not use the table's entry.
FallBackRestarts ==
  /\ pc = "match" /\ ~MatchFits
  /\ border' = npos
  /\ UNCHANGED <<text, pos, from, str, next, pc, result>>

FallBackStays ==
  /\ pc = "match" /\ ~MatchFits
  /\ UNCHANGED kvars

FallBack ==
  /\ pc = "match" /\ ~MatchFits
  /\ border' = next[border + 1]
  /\ UNCHANGED <<text, pos, from, str, next, pc, result>>

Advance ==
  /\ pc = "match" /\ MatchFits
  /\ border' = border + 1
  /\ IF border + 1 = Len(str)
     THEN pc' = "idle" /\ result' = "S_OK"
     ELSE pc' = "read" /\ UNCHANGED result
  /\ UNCHANGED <<text, pos, from, str, next>>

\* find(...) goes back before what it found, other clients elsewhere.
SeekTo(p) ==
  /\ pc = "idle"
  /\ pos' = p
  /\ UNCHANGED <<text, from, str, next, border, pc, result>>

FinderStep == Shorten \/ Extend \/ Read \/ FallBack \/ Advance

KNext ==
  \/ RefusePattern
  \/ \E p \in Pattern : InitPattern(p)
  \/ Search
  \/ \E p \in 0..Len(text) : SeekTo(p)
  \/ FinderStep

\* The loops are those of the calling thread.
KSpec == KInit /\ [][KNext]_kvars /\ WF_kvars(FinderStep)
-----------------------------------------------------------------------------
\* Once computed, the entry for every beginning of the pattern is its longest
\* border; the search relies on exactly this to miss no occurrence.
TableLongest ==
  \A m \in DOMAIN next : LongestBorder(str, m - 1, next[m])

\* Searching finds the first occurrence from where the archive stood, through
\* repeated searches, new patterns and ones that are refused.
Promise == INSTANCE SearchSpec WITH
  pattern <- str,
  pos <- IF pc \in {"read", "match"} THEN from ELSE pos
ImplementsSearch == Promise!Spec

\* Both functions return, although their inner loops only follow the table.
FinderReturns == (pc # "idle") ~> (pc = "idle")
=============================================================================
