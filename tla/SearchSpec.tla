----------------------------- MODULE SearchSpec -----------------------------
(***************************************************************************)
(* What stdext/search promises: a search moves the archive behind the      *)
(* first occurrence of the pattern from where the archive stood, or reads  *)
(* all of it and says that there is none.                                  *)
(***************************************************************************)
EXTENDS Patterns

VARIABLES
  pattern,   \* the one the finder was last initialised with, if any
  text,      \* what the archive holds
  pos,       \* where the archive stands
  result     \* of the last call

svars == <<pattern, text, pos, result>>

Init == pattern = << >> /\ pos = 0 /\ result = "S_OK"

\* An empty pattern is refused, and the one before it kept.
SetPattern(p) ==
  /\ IF p = << >>
     THEN result' = "E_INVALIDARG" /\ UNCHANGED pattern
     ELSE result' = "S_OK" /\ pattern' = p
  /\ UNCHANGED <<text, pos>>

Find ==
  /\ pattern # << >>
  /\ \/ /\ result' = "S_OK"
        /\ Occurs(pattern, text, pos, pos')
        /\ \A e \in pos..Len(text) : Occurs(pattern, text, pos, e) => pos' <= e
     \/ /\ result' = "S_FALSE"
        /\ \A e \in pos..Len(text) : ~Occurs(pattern, text, pos, e)
        /\ pos' = Len(text)
  /\ UNCHANGED <<pattern, text>>

Deny ==
  /\ pattern = << >>
  /\ result' = "E_ACCESSDENIED"
  /\ UNCHANGED <<pattern, text, pos>>

\* The archive is the client's between calls.
Seek(p) == pos' = p /\ UNCHANGED <<pattern, text, result>>

Next ==
  \/ \E p \in Pattern : SetPattern(p)
  \/ Find
  \/ Deny
  \/ \E p \in 0..Len(text) : Seek(p)

Spec == Init /\ [][Next]_svars
=============================================================================
