------------------------------ MODULE Patterns ------------------------------
(***************************************************************************)
(* Where the beginning of a pattern ends in a text.  Positions lie between *)
(* characters: position e is behind the e-th one.  Both finders search by  *)
(* what ends where.                                                        *)
(***************************************************************************)
EXTENDS Integers, Sequences

CONSTANTS
  Char,      \* characters
  Pattern,   \* the patterns clients ask for
  Text       \* what archives hold

ASSUME SearchAssumption == Pattern \subseteq Seq(Char) /\ Text \subseteq Seq(Char)

\* The first k characters of p are the k characters of t before position e.
Ends(t, e, p, k) == \A i \in 1..k : t[e - k + i] = p[i]

\* p occurs in t, not before position from, and ends at e.
Occurs(p, t, from, e) ==
  /\ from + Len(p) <= e
  /\ e <= Len(t)
  /\ Ends(t, e, p, Len(p))

\* The first b of the first m characters of p are also the last b of them.
Border(p, m, b) == b < m /\ Ends(p, m, p, b)

\* b is the longest of these, -1 if there is none, which is so for m = 0 only.
LongestBorder(p, m, b) ==
  /\ b \in -1..(m - 1)
  /\ b >= 0 => Border(p, m, b)
  /\ \A c \in (b + 1)..(m - 1) : ~Border(p, m, c)
=============================================================================
