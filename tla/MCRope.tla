------------------------------- MODULE MCRope -------------------------------
(***************************************************************************)
(* What the comments and assertions of the rope say, on one rope each: two *)
(* pieces, too long together to be copied, to which a longer one is        *)
(* appended; and a text that has to be produced, under two iterators.      *)
(***************************************************************************)
EXTENDS Rope

Chars(n) == [i \in 1..n |-> i]
TwoPieces == {[tree |-> Concat(Leaf(Chars(20)), Leaf(Chars(20))), iters |-> {}]}
LongText == {Chars(60)}
Produced == {[tree |-> Function(Chars(6)), iters |-> {"c", "d"}]}
NoText == {}
=============================================================================
