---------------------------- MODULE SearchProofs ----------------------------
(***************************************************************************)
(* Proofs about the two finders of stdext/search, for every alphabet, set  *)
(* of patterns, set of texts and widths of a bitmap.                       *)
(*                                                                         *)
(* The inductive invariant of KmpFinder says what each loop keeps: in      *)
(* initPattern, that every border that could be extended is no longer than *)
(* the one at hand, and in next, the same of the beginnings of the pattern *)
(* that end where the archive stands.  Both follow from two facts about    *)
(* where a pattern ends, ExtendEnds and NestedEnds; no induction over the  *)
(* pattern is needed, the steps of the loops are one.                      *)
(*                                                                         *)
(* That of ShiftOr says what a bit means: bit i of d is clear just in case *)
(* the first i + 1 characters of the pattern, read since the search began, *)
(* end where the archive stands.  It can be said only of a pattern that    *)
(* leaves the word a bit, or fills it in a build whose shift does no harm  *)
(* (Sound): for a pattern that fills it the code shifts by the width of    *)
(* the word, which is undefined.                                           *)
(***************************************************************************)
EXTENDS KmpFinder, ShiftOr, TLAPS

KTypeOK ==
  /\ text \in Text
  /\ pos \in 0..Len(text)
  /\ from \in 0..Len(text)
  /\ str \in Seq(Char)
  /\ next \in Seq(Int)
  /\ border \in Int
  /\ pc \in {"idle", "table", "read", "match"}

\* The table is complete but while it is computed.
TableSize ==
  /\ pc = "table" => 0 < Len(next) /\ Len(next) < Len(str)
  /\ pc # "table" => Len(next) = Len(str)

\* Whatever can be extended to a border of the first Len(next) characters is
\* no longer than the border at hand.
TableLoop ==
  pc = "table" =>
    LET m == Len(next) - 1 IN
    /\ border \in -1..(m - 1)
    /\ border >= 0 => Border(str, m, border)
    /\ \A b \in 0..(m - 1) :
         Border(str, m, b) /\ str[b + 1] = str[m + 1] => b <= border

\* The longest beginning of the pattern, short of all of it, that ends at e.
LongestEnd(e, b) ==
  /\ b \in 0..(Len(str) - 1)
  /\ from + b <= e
  /\ Ends(text, e, str, b)
  /\ \A c \in (b + 1)..(Len(str) - 1) : from + c <= e => ~Ends(text, e, str, c)

NoneUpTo(p) == \A e \in from..p : ~Occurs(str, text, from, e)

ReadLoop ==
  pc = "read" =>
    /\ str # << >>
    /\ from <= pos
    /\ LongestEnd(pos, border)
    /\ NoneUpTo(pos)

MatchLoop ==
  pc = "match" =>
    /\ str # << >>
    /\ from < pos
    /\ border \in -1..(Len(str) - 1)
    /\ border >= 0 => from + border < pos /\ Ends(text, pos - 1, str, border)
    /\ \A b \in 0..(Len(str) - 1) :
         from + b < pos /\ Ends(text, pos - 1, str, b) /\ str[b + 1] = text[pos]
           => b <= border
    /\ NoneUpTo(pos - 1)

KInv ==
  /\ KTypeOK
  /\ TableSize
  /\ TableLongest
  /\ TableLoop
  /\ ReadLoop
  /\ MatchLoop

-----------------------------------------------------------------------------
(***************************************************************************)
(* One character more: the first b + 1 characters end at e if the first b  *)
(* end before it and the next one is the one at e.                         *)
(***************************************************************************)
LEMMA ExtendEnds ==
  ASSUME NEW t, NEW p, NEW e \in Int, NEW b \in Nat
  PROVE  Ends(t, e, p, b + 1) <=> Ends(t, e - 1, p, b) /\ t[e] = p[b + 1]
<1>1. ASSUME Ends(t, e, p, b + 1)
      PROVE  Ends(t, e - 1, p, b) /\ t[e] = p[b + 1]
  <2>1. \A i \in 1..(b + 1) : t[e - (b + 1) + i] = p[i]
    BY <1>1 DEF Ends
  <2>2. \A i \in 1..b : i \in 1..(b + 1) /\ e - (b + 1) + i = e - 1 - b + i
    OBVIOUS
  <2>3. b + 1 \in 1..(b + 1) /\ e - (b + 1) + (b + 1) = e
    OBVIOUS
  <2> QED
    BY <2>1, <2>2, <2>3 DEF Ends
<1>2. ASSUME Ends(t, e - 1, p, b), t[e] = p[b + 1]
      PROVE  Ends(t, e, p, b + 1)
  <2> SUFFICES ASSUME NEW i \in 1..(b + 1) PROVE t[e - (b + 1) + i] = p[i]
    BY DEF Ends
  <2>1. CASE i = b + 1
    <3>1. e - (b + 1) + i = e
      BY <2>1
    <3> QED
      BY <2>1, <3>1, <1>2
  <2>2. CASE i # b + 1
    <3>1. i \in 1..b /\ e - (b + 1) + i = e - 1 - b + i
      BY <2>2
    <3> QED
      BY <3>1, <1>2 DEF Ends
  <2> QED
    BY <2>1, <2>2
<1> QED
  BY <1>1, <1>2

(***************************************************************************)
(* Where the first k characters end, the first b of them do too just in    *)
(* case they are also the last b of the k.                                 *)
(***************************************************************************)
LEMMA NestedEnds ==
  ASSUME NEW t, NEW p, NEW e \in Int, NEW k \in Nat, NEW b \in 0..k,
         Ends(t, e, p, k)
  PROVE  Ends(t, e, p, b) <=> Ends(p, k, p, b)
<1>1. \A i \in 1..b : t[e - b + i] = p[k - b + i]
  <2> SUFFICES ASSUME NEW i \in 1..b PROVE t[e - b + i] = p[k - b + i]
    OBVIOUS
  <2>1. k - b + i \in 1..k /\ e - k + (k - b + i) = e - b + i
    OBVIOUS
  <2> QED
    BY <2>1 DEF Ends
<1> QED
  BY <1>1 DEF Ends

(***************************************************************************)
(* A border of the first m + 1 characters is one of the first m with the   *)
(* same character behind both copies.                                      *)
(***************************************************************************)
LEMMA ExtendBorder ==
  ASSUME NEW p, NEW m \in Nat, NEW b \in Nat
  PROVE  Border(p, m + 1, b + 1) <=> Border(p, m, b) /\ p[m + 1] = p[b + 1]
<1>1. Ends(p, m + 1, p, b + 1) <=> Ends(p, m + 1 - 1, p, b) /\ p[m + 1] = p[b + 1]
  BY ExtendEnds
<1>2. m + 1 - 1 = m /\ (b + 1 < m + 1 <=> b < m)
  OBVIOUS
<1> QED
  BY <1>1, <1>2 DEF Border

(***************************************************************************)
(* A border shorter than the longest of the first k characters is one of   *)
(* the border, and so no longer than its entry in the table.  This is why  *)
(* both loops may follow the table.                                        *)
(***************************************************************************)
LEMMA FollowTable ==
  ASSUME NEW p, NEW t, NEW e \in Int, NEW k \in Nat, NEW n \in Int,
         NEW b \in 0..(k - 1),
         LongestBorder(p, k, n), Ends(t, e, p, k), Ends(t, e, p, b)
  PROVE  b <= n
<1>1. b \in 0..k /\ b < k
  OBVIOUS
<1>2. Border(p, k, b)
  BY <1>1, NestedEnds DEF Border
<1> QED
  BY <1>2 DEF LongestBorder

\* What an entry of the table says of the text read.
LEMMA TableEntryEnds ==
  ASSUME NEW p, NEW t, NEW e \in Int, NEW k \in Nat, NEW n \in Int,
         LongestBorder(p, k, n), Ends(t, e, p, k), n >= 0
  PROVE  n < k /\ Ends(t, e, p, n)
<1>1. Border(p, k, n) /\ n \in 0..k
  BY DEF LongestBorder
<1> QED
  BY <1>1, NestedEnds DEF Border

-----------------------------------------------------------------------------
\* A finder without a pattern searches for nothing.
LEMMA InitKInv == ASSUME KInit PROVE KInv
<1> USE SearchAssumption DEF KInit
<1>1. text \in Seq(Char)
  OBVIOUS
<1>2. KTypeOK
  BY <1>1 DEF KTypeOK, npos
<1>3. TableSize /\ TableLongest
  BY DEF TableSize, TableLongest
<1> QED
  BY <1>2, <1>3 DEF KInv, TableLoop, ReadLoop, MatchLoop

\* initPattern begins with a table of one entry.
LEMMA InitPatternKInv ==
  ASSUME KInv, NEW p \in Pattern, InitPattern(p)
  PROVE  KInv'
<1> USE SearchAssumption DEF KInv, InitPattern
<1>1. p \in Seq(Char) /\ Len(p) >= 1
  OBVIOUS
<1>2. KTypeOK'
  BY <1>1 DEF KTypeOK, npos
<1>3. TableSize'
  BY <1>1 DEF TableSize
<1>4. TableLongest'
  BY DEF TableLongest, LongestBorder, npos
<1>5. TableLoop'
  BY <1>1 DEF TableLoop, npos
<1> QED
  BY <1>2, <1>3, <1>4, <1>5 DEF ReadLoop, MatchLoop

\* initPattern goes on with a shorter border.
LEMMA ShortenKInv == ASSUME KInv, Shorten PROVE KInv'
<1> DEFINE m == Len(next) - 1
<1> USE DEF KInv, Shorten
<1>1. /\ m \in Nat /\ m + 1 = Len(next) /\ m + 1 < Len(str)
      /\ border \in 0..(m - 1) /\ Border(str, m, border)
      /\ str[border + 1] # str[m + 1]
  BY DEF KTypeOK, TableSize, TableLoop, TableFits, npos
<1>2. LongestBorder(str, border, next[border + 1]) /\ next[border + 1] \in Int
  <2>1. border + 1 \in DOMAIN next /\ (border + 1) - 1 = border
    BY <1>1 DEF KTypeOK
  <2>2. LongestBorder(str, (border + 1) - 1, next[border + 1])
    BY <2>1 DEF TableLongest
  <2> QED
    BY <2>1, <2>2 DEF KTypeOK
<1>3. next[border + 1] \in -1..(border - 1)
  BY <1>2 DEF LongestBorder
<1>4. next[border + 1] >= 0 => Border(str, m, next[border + 1])
  BY <1>1, <1>2, <1>3, TableEntryEnds DEF Border
<1>5. ASSUME NEW b \in 0..(m - 1), Border(str, m, b), str[b + 1] = str[m + 1]
      PROVE  b <= next[border + 1]
  <2>1. b <= border
    BY <1>5 DEF TableLoop
  <2>2. b \in 0..(border - 1)
    BY <1>1, <1>5, <2>1
  <2> QED
    BY <1>1, <1>2, <1>5, <2>2, FollowTable DEF Border
<1>6. TableLoop'
  BY <1>1, <1>3, <1>4, <1>5 DEF TableLoop
<1>7. KTypeOK' /\ TableSize' /\ TableLongest'
  BY <1>2 DEF KTypeOK, TableSize, TableLongest
<1> QED
  BY <1>6, <1>7 DEF ReadLoop, MatchLoop

\* initPattern enters the border that could be extended.
LEMMA ExtendKInv == ASSUME KInv, Extend PROVE KInv'
<1> DEFINE m == Len(next) - 1
<1> USE DEF KInv, Extend
<1>1. /\ m \in Nat /\ m + 1 = Len(next) /\ m + 1 < Len(str)
      /\ border \in -1..(m - 1)
      /\ border >= 0 => Border(str, m, border) /\ str[border + 1] = str[m + 1]
  BY DEF KTypeOK, TableSize, TableLoop, TableFits, npos
<1>2. Border(str, m + 1, border + 1)
  <2>1. CASE border = -1
    BY <1>1, <2>1 DEF Border, Ends
  <2>2. CASE border # -1
    <3>1. border \in Nat /\ border >= 0
      BY <1>1, <2>2
    <3>2. Border(str, m + 1, border + 1) <=>
            Border(str, m, border) /\ str[m + 1] = str[border + 1]
      BY <1>1, <3>1, ExtendBorder
    <3> QED
      BY <1>1, <3>1, <3>2
  <2> QED
    BY <2>1, <2>2
<1>3. ASSUME NEW c \in (border + 2)..m
      PROVE  ~Border(str, m + 1, c)
  <2>1. PICK d \in 0..(m - 1) : c = d + 1 /\ d > border
    BY <1>1
  <2>2. Border(str, m + 1, d + 1) <=>
          Border(str, m, d) /\ str[m + 1] = str[d + 1]
    <3>1. m \in Nat /\ d \in Nat
      BY <1>1
    <3> HIDE DEF m, KInv, Extend
    <3> QED
      BY <3>1, ExtendBorder
  <2>3. Border(str, m, d) /\ str[d + 1] = str[m + 1] => d <= border
    BY DEF TableLoop
  <2> QED
    BY <1>1, <2>1, <2>2, <2>3
<1>4. LongestBorder(str, m + 1, border + 1)
  BY <1>1, <1>2, <1>3 DEF LongestBorder
<1>5. /\ next' \in Seq(Int) /\ Len(next') = m + 2
      /\ \A i \in 1..(m + 1) : next'[i] = next[i]
      /\ next'[m + 2] = border + 1
  BY <1>1 DEF KTypeOK
<1>6. KTypeOK' /\ TableSize'
  BY <1>1, <1>5 DEF KTypeOK, TableSize
<1>7. TableLongest'
  <2> SUFFICES ASSUME NEW i \in 1..(m + 2)
               PROVE  LongestBorder(str, i - 1, next'[i])
    BY <1>5 DEF TableLongest
  <2>1. CASE i = m + 2
    <3>1. i - 1 = m + 1
      BY <1>1, <2>1
    <3> QED
      BY <3>1, <2>1, <1>4, <1>5
  <2>2. CASE i # m + 2
    <3>1. i \in 1..(m + 1) /\ i \in DOMAIN next
      BY <1>1, <2>2 DEF KTypeOK
    <3> QED
      BY <3>1, <1>5 DEF TableLongest
  <2> QED
    BY <2>1, <2>2
<1>8. TableLoop'
  <2>1. Len(next') - 1 = m + 1
    BY <1>1, <1>5
  <2>2. \A b \in 0..m : Border(str, m + 1, b) => b <= border + 1
    BY <1>1, <1>3
  <2> QED
    BY <1>1, <1>2, <2>1, <2>2 DEF TableLoop
<1> QED
  BY <1>6, <1>7, <1>8 DEF ReadLoop, MatchLoop

\* next begins where the archive stands.
LEMMA SearchKInv == ASSUME KInv, Search PROVE KInv'
<1> USE DEF KInv, Search
<1>1. KTypeOK' /\ TableSize' /\ TableLongest'
  BY DEF KTypeOK, TableSize, TableLongest
<1>2. ASSUME pc' = "read"
      PROVE  LongestEnd(pos, border)' /\ NoneUpTo(pos)'
  <2>1. /\ str # << >> /\ from' = pos /\ border' = 0
        /\ Len(str) \in Nat \ {0} /\ pos \in Int
    BY <1>2 DEF KTypeOK
  <2>2. NoneUpTo(pos)'
    BY <2>1 DEF NoneUpTo, Occurs
  <2>3. LongestEnd(pos, border)'
    BY <2>1 DEF LongestEnd, Ends
  <2> QED
    BY <2>2, <2>3
<1>3. ReadLoop'
  BY <1>2 DEF ReadLoop, KTypeOK
<1> QED
  BY <1>1, <1>3 DEF TableLoop, MatchLoop

\* next takes a character.
LEMMA ReadKInv == ASSUME KInv, Read PROVE KInv'
<1> USE DEF KInv, Read
<1>1. KTypeOK' /\ TableSize' /\ TableLongest'
  BY SearchAssumption DEF KTypeOK, TableSize, TableLongest
<1>2. ASSUME pos # Len(text)
      PROVE  MatchLoop'
  <2>1. /\ pos' = pos + 1 /\ pos' - 1 = pos /\ pos \in Int /\ from \in Int
        /\ \A b \in Int : from + b <= pos <=> from + b < pos'
    BY <1>2 DEF KTypeOK
  <2>2. /\ str # << >> /\ from <= pos
        /\ LongestEnd(pos, border) /\ NoneUpTo(pos)
    BY DEF ReadLoop
  <2>3. /\ border \in 0..(Len(str) - 1)
        /\ from + border <= pos /\ Ends(text, pos, str, border)
    BY <2>2 DEF LongestEnd
  <2>4. ASSUME NEW b \in 0..(Len(str) - 1),
               from + b < pos', Ends(text, pos, str, b)
        PROVE  b <= border
    BY <2>1, <2>2, <2>3, <2>4 DEF LongestEnd
  <2>5. NoneUpTo(pos - 1)'
    BY <2>1, <2>2 DEF NoneUpTo
  <2> QED
    BY <2>1, <2>2, <2>3, <2>4, <2>5 DEF MatchLoop
<1> QED
  BY <1>1, <1>2 DEF TableLoop, ReadLoop, MatchLoop

\* next goes on with a shorter beginning of the pattern.
LEMMA FallBackKInv == ASSUME KInv, FallBack PROVE KInv'
<1> USE DEF KInv, FallBack
<1> DEFINE n == next[border + 1]
<1>1. /\ border \in 0..(Len(str) - 1) /\ str[border + 1] # text[pos]
      /\ str # << >> /\ from < pos /\ from + border < pos
      /\ Ends(text, pos - 1, str, border) /\ NoneUpTo(pos - 1)
      /\ pos \in Int /\ pos - 1 \in Int /\ from \in Int
  BY DEF KTypeOK, MatchLoop, MatchFits, npos
<1>2. LongestBorder(str, border, n) /\ n \in Int
  <2>1. border + 1 \in DOMAIN next /\ (border + 1) - 1 = border
    BY <1>1 DEF KTypeOK, TableSize
  <2>2. LongestBorder(str, (border + 1) - 1, next[border + 1])
    BY <2>1 DEF TableLongest
  <2> QED
    BY <2>1, <2>2 DEF KTypeOK
<1>3. n \in -1..(border - 1)
  BY <1>2 DEF LongestBorder
<1>4. n >= 0 => Ends(text, pos - 1, str, n)
  BY <1>1, <1>2, TableEntryEnds
<1>5. ASSUME NEW b \in 0..(Len(str) - 1), from + b < pos,
             Ends(text, pos - 1, str, b), str[b + 1] = text[pos]
      PROVE  b <= n
  <2>1. b <= border
    BY <1>5 DEF MatchLoop
  <2>2. b \in 0..(border - 1)
    BY <1>1, <1>5, <2>1
  <2> QED
    BY <1>1, <1>2, <1>5, <2>2, FollowTable
<1>6. KTypeOK' /\ TableSize' /\ TableLongest'
  BY <1>2 DEF KTypeOK, TableSize, TableLongest
<1>7. MatchLoop'
  <2>1. border' = n /\ n \in -1..(Len(str) - 1) /\ (n >= 0 => from + n < pos)
    BY <1>1, <1>3
  <2> HIDE DEF n
  <2> QED
    BY <1>1, <1>4, <1>5, <2>1 DEF MatchLoop, NoneUpTo
<1> QED
  BY <1>6, <1>7 DEF TableLoop, ReadLoop

(***************************************************************************)
(* A matching character makes the beginning at hand one longer, and no     *)
(* longer one ends there: its character before would have fitted too.  An  *)
(* occurrence is the beginning of the full length.                         *)
(***************************************************************************)
LEMMA AdvanceEnds ==
  ASSUME KInv, Advance
  PROVE  /\ border + 1 \in 0..Len(str) /\ from + (border + 1) <= pos
         /\ from < pos /\ NoneUpTo(pos - 1)
         /\ Ends(text, pos, str, border + 1)
         /\ \A c \in (border + 2)..Len(str) :
              from + c <= pos => ~Ends(text, pos, str, c)
<1> USE DEF KInv, Advance
<1>1. /\ border \in -1..(Len(str) - 1) /\ Len(str) \in Nat
      /\ from < pos /\ NoneUpTo(pos - 1)
      /\ pos \in Int /\ from \in Int
      /\ border >= 0 => /\ from + border < pos
                        /\ Ends(text, pos - 1, str, border)
                        /\ str[border + 1] = text[pos]
  BY DEF KTypeOK, MatchLoop, MatchFits, npos
<1>2. Ends(text, pos, str, border + 1)
  <2>1. CASE border = -1
    BY <2>1 DEF Ends
  <2>2. CASE border # -1
    <3>1. border \in Nat /\ border >= 0
      BY <1>1, <2>2
    <3> QED
      BY <1>1, <3>1, ExtendEnds
  <2> QED
    BY <2>1, <2>2
<1>3. \A d \in Nat : Ends(text, pos, str, d + 1) =>
                     Ends(text, pos - 1, str, d) /\ text[pos] = str[d + 1]
  <2>1. pos \in Int
    BY <1>1
  <2> HIDE DEF KInv, Advance
  <2> QED
    BY <2>1, ExtendEnds
<1>4. \A d \in Nat : Ends(text, pos - 1, str, d) /\ str[d + 1] = text[pos]
                       /\ d <= Len(str) - 1 /\ from + d < pos => d <= border
  BY <1>1 DEF MatchLoop
<1>5. \A d \in Nat : d <= Len(str) - 1 /\ from + d < pos /\ d > border
                       => ~Ends(text, pos, str, d + 1)
  <2> SUFFICES ASSUME NEW d \in Nat, d <= Len(str) - 1, from + d < pos, d > border,
                      Ends(text, pos, str, d + 1)
               PROVE  FALSE
    OBVIOUS
  <2>1. d <= border
    BY <1>3, <1>4
  <2> QED
    BY <1>1, <2>1
<1>6. ASSUME NEW c \in (border + 2)..Len(str), from + c <= pos
      PROVE  ~Ends(text, pos, str, c)
  <2>1. c - 1 \in Nat /\ c = (c - 1) + 1 /\ c - 1 > border
        /\ c - 1 <= Len(str) - 1 /\ from + (c - 1) < pos
    BY <1>1, <1>6
  <2> QED
    BY <1>5, <2>1
<1>7. border + 1 \in 0..Len(str) /\ from + (border + 1) <= pos
  BY <1>1
<1> HIDE DEF KInv, Advance
<1> QED
  BY <1>1, <1>2, <1>6, <1>7

\* next matches the character and may have found the pattern.
LEMMA AdvanceKInv == ASSUME KInv, Advance PROVE KInv'
<1> USE DEF KInv, Advance
<1>1. KTypeOK' /\ TableSize' /\ TableLongest'
  BY DEF KTypeOK, TableSize, TableLongest
<1>2. ASSUME border + 1 # Len(str)
      PROVE  LongestEnd(pos, border)' /\ NoneUpTo(pos)' /\ from <= pos
  <2>1. /\ Len(str) \in Nat /\ border \in Int /\ pos \in Int /\ from \in Int
    BY DEF KTypeOK
  <2>2. LongestEnd(pos, border)'
    BY <1>2, <2>1, AdvanceEnds DEF LongestEnd
  <2>3. ~Occurs(str, text, from, pos)
    BY <1>2, <2>1, AdvanceEnds DEF Occurs
  <2>4. NoneUpTo(pos)'
    BY <2>1, <2>3, AdvanceEnds DEF NoneUpTo
  <2> QED
    BY <2>1, <2>2, <2>4, AdvanceEnds
<1>3. ReadLoop'
  BY <1>2 DEF ReadLoop, MatchLoop
<1> QED
  BY <1>1, <1>3 DEF TableLoop, MatchLoop

\* Between the calls a pattern may be refused, or the archive moved.
LEMMA IdleKInv ==
  ASSUME KInv,
         RefusePattern \/ (\E p \in 0..Len(text) : SeekTo(p)) \/ UNCHANGED kvars
  PROVE  KInv'
BY DEF KInv, KTypeOK, TableSize, TableLongest, TableLoop, ReadLoop, MatchLoop,
       LongestEnd, NoneUpTo, RefusePattern, SeekTo, kvars

\* Every step keeps the inductive invariant.
LEMMA NextKInv == ASSUME KInv, [KNext]_kvars PROVE KInv'
<1>1. ASSUME NEW p \in Pattern, InitPattern(p) PROVE KInv'
  BY <1>1, InitPatternKInv
<1>2. CASE Search
  BY <1>2, SearchKInv
<1>3. CASE FinderStep
  BY <1>3, ShortenKInv, ExtendKInv, ReadKInv, FallBackKInv, AdvanceKInv
     DEF FinderStep
<1>4. CASE RefusePattern \/ (\E p \in 0..Len(text) : SeekTo(p)) \/ UNCHANGED kvars
  BY <1>4, IdleKInv
<1> QED
  BY <1>1, <1>2, <1>3, <1>4 DEF KNext

(***************************************************************************)
(* The invariant holds of every initPattern and every search.              *)
(***************************************************************************)
THEOREM KmpInvariance == KSpec => []KInv
<1>1. KInit => KInv
  BY InitKInv
<1>2. KInv /\ [KNext]_kvars => KInv'
  BY NextKInv
<1> QED
  BY <1>1, <1>2, PTL DEF KSpec

(***************************************************************************)
(* Every entry initPattern has written is the longest border of its        *)
(* beginning of the pattern, for every pattern.                            *)
(***************************************************************************)
THEOREM TableCorrect == KSpec => []TableLongest
<1>1. KInv => TableLongest
  BY DEF KInv
<1> QED
  BY <1>1, KmpInvariance, PTL

-----------------------------------------------------------------------------
(***************************************************************************)
(* A search that ends has found the first occurrence or read a text        *)
(* without one; whatever else the finder does is invisible to its client.  *)
(***************************************************************************)
LEMMA ReadRefines ==
  ASSUME KInv, Read
  PROVE  Promise!Find \/ UNCHANGED Promise!svars
<1> USE DEF Read
<1>1. CASE pos = Len(text)
  <2>1. /\ str # << >> /\ from <= pos /\ NoneUpTo(pos)
    BY DEF KInv, ReadLoop
  <2>2. \A e \in from..Len(text) : ~Promise!Occurs(str, text, from, e)
    BY <1>1, <2>1 DEF NoneUpTo, Occurs, Ends, Promise!Occurs, Promise!Ends
  <2> QED
    BY <1>1, <2>1, <2>2 DEF Promise!Find
<1>2. CASE pos # Len(text)
  BY <1>2 DEF Promise!svars
<1> QED
  BY <1>1, <1>2

\* The step that may find the pattern is one the specification takes.
LEMMA AdvanceRefines ==
  ASSUME KInv, Advance
  PROVE  Promise!Find \/ UNCHANGED Promise!svars
<1> USE DEF Advance
<1>1. CASE border + 1 = Len(str)
  <2>1. /\ str # << >> /\ pos \in 0..Len(text) /\ from \in 0..Len(text)
        /\ Len(text) \in Nat /\ Len(str) \in Nat
    BY SearchAssumption DEF KInv, KTypeOK, MatchLoop
  <2>2. Promise!Occurs(str, text, from, pos)
    BY <1>1, <2>1, AdvanceEnds DEF Ends, Promise!Occurs, Promise!Ends
  <2>3. ASSUME NEW e \in from..Len(text), Promise!Occurs(str, text, from, e)
        PROVE  pos <= e
    <3>1. Occurs(str, text, from, e)
      BY <2>3 DEF Occurs, Ends, Promise!Occurs, Promise!Ends
    <3>2. \A x \in from..(pos - 1) : ~Occurs(str, text, from, x)
      BY AdvanceEnds DEF NoneUpTo
    <3>3. e \in Int /\ from <= e
      BY <2>1
    <3> QED
      BY <2>1, <3>1, <3>2, <3>3
  <2> QED
    BY <1>1, <2>1, <2>2, <2>3 DEF Promise!Find
<1>2. CASE border + 1 # Len(str)
  BY <1>2 DEF Promise!svars
<1> QED
  BY <1>1, <1>2

\* Every step is one of the specification or none.
LEMMA StepRefines ==
  ASSUME KInv, [KNext]_kvars
  PROVE  [Promise!Next]_(Promise!svars)
<1>1. CASE RefusePattern
  BY <1>1 DEF RefusePattern, Promise!Next, Promise!SetPattern
<1>2. ASSUME NEW p \in Pattern, InitPattern(p)
      PROVE  Promise!SetPattern(p)
  BY <1>2 DEF InitPattern, Promise!SetPattern
<1>3. CASE Search
  BY <1>3 DEF Search, Promise!Next, Promise!Deny, Promise!svars
<1>4. ASSUME NEW p \in 0..Len(text), SeekTo(p)
      PROVE  Promise!Seek(p)
  BY <1>4 DEF SeekTo, Promise!Seek
<1>5. CASE Shorten \/ Extend \/ FallBack
  BY <1>5 DEF Shorten, Extend, FallBack, Promise!svars
<1>6. CASE Read \/ Advance
  BY <1>6, ReadRefines, AdvanceRefines DEF Promise!Next
<1>7. CASE UNCHANGED kvars
  BY <1>7 DEF kvars, Promise!svars
<1> QED
  BY <1>1, <1>2, <1>3, <1>4, <1>5, <1>6, <1>7
     DEF KNext, FinderStep, Promise!Next

(***************************************************************************)
(* The finder does what searching promises, for every pattern and text:    *)
(* it stops behind the first occurrence or reads the text to its end.      *)
(***************************************************************************)
THEOREM SearchCorrect == KSpec => ImplementsSearch
<1>1. KInit => Promise!Init
  BY DEF KInit, Promise!Init
<1>2. KInv /\ [KNext]_kvars => [Promise!Next]_(Promise!svars)
  BY StepRefines
<1> QED
  BY <1>1, <1>2, KmpInvariance, PTL DEF KSpec, ImplementsSearch, Promise!Spec
-----------------------------------------------------------------------------
OTypeOK ==
  /\ otext \in Text
  /\ opos \in 0..Len(otext)
  /\ ofrom \in 0..Len(otext)
  /\ ostr \in Seq(Char)
  /\ size \in Nat
  /\ masks \in [Char -> SUBSET Nat]
  /\ bits \in SUBSET Nat
  /\ width \in Nat /\ wraps \in BOOLEAN
  /\ opc \in {"idle", "read"}

\* The masks are those of the pattern, once there is one: a refused pattern
\* that is too long leaves its size behind, which is then not Sound.
MasksRight ==
  Sound /\ size # 0 =>
    /\ size = Len(ostr)
    /\ \A c \in Char : \A i \in 0..(size - 1) : i \notin masks[c] <=> ostr[i + 1] = c

ONoneUpTo(p) == \A e \in ofrom..p : ~Occurs(ostr, otext, ofrom, e)

\* Bit i is set in b unless the first i + 1 characters of the pattern, read
\* since the search began, end at p.
Means(b, p) ==
  \A i \in 0..(size - 1) :
    i \notin b <=> ofrom + (i + 1) <= p /\ Ends(otext, p, ostr, i + 1)

OReadLoop ==
  opc = "read" =>
    /\ size # 0
    /\ Sound => ofrom <= opos /\ Means(bits, opos) /\ ONoneUpTo(opos)

OInv == OTypeOK /\ MasksRight /\ OReadLoop
-----------------------------------------------------------------------------
(***************************************************************************)
(* Where no shift wraps around, the bits are those of the pattern: all of  *)
(* them, the last of them, and room in the word for each.                  *)
(***************************************************************************)
LEMMA SoundBits ==
  ASSUME size \in Nat \ {0}, width \in Nat, wraps \in BOOLEAN, Sound
  PROVE  /\ InitTrue(size) = 0..(size - 1)
         /\ TestBit(size) = size - 1
         /\ Top \in Nat /\ size <= Top
<1>1. ShiftedBit(size) = size
  BY DEF Sound, ShiftedBit
<1>2. ShiftedBit(size - 1) = size - 1
  BY DEF Sound, ShiftedBit
<1> QED
  BY <1>1, <1>2 DEF InitTrue, TestBit, Top, Sound

(***************************************************************************)
(* What a shift by one leaves clear: the first bit, and each behind one    *)
(* that was clear.                                                         *)
(***************************************************************************)
LEMMA ShiftClears ==
  ASSUME NEW b \in SUBSET Nat, NEW i \in Nat, Top \in Nat, i < Top
  PROVE  i \notin LeftShift(b) <=> i = 0 \/ i - 1 \notin b
<1>1. i \in LeftShift(b) <=> \E j \in b : i = j + 1
  BY DEF LeftShift
<1>2. (\E j \in b : i = j + 1) <=> i # 0 /\ i - 1 \in b
  <2>1. ASSUME NEW j \in b, i = j + 1 PROVE i # 0 /\ i - 1 \in b
    <3>1. i - 1 = j /\ i # 0
      BY <2>1
    <3> QED
      BY <3>1
  <2>2. ASSUME i # 0, i - 1 \in b PROVE \E j \in b : i = j + 1
    <3>1. i = (i - 1) + 1
      OBVIOUS
    <3> QED
      BY <3>1, <2>2
  <2> QED
    BY <2>1, <2>2
<1> QED
  BY <1>1, <1>2

(***************************************************************************)
(* One character read: the first b + 1 characters end behind it if the     *)
(* first b end before it and the next one is the one read.                 *)
(***************************************************************************)
LEMMA ReadOneMore ==
  ASSUME NEW t, NEW p, NEW e \in Nat, NEW b \in Nat
  PROVE  Ends(t, e + 1, p, b + 1) <=> Ends(t, e, p, b) /\ t[e + 1] = p[b + 1]
<1>1. \A i \in 1..b : i \in 1..(b + 1) /\ (e + 1) - (b + 1) + i = e - b + i
  OBVIOUS
<1>2. b + 1 \in 1..(b + 1) /\ (e + 1) - (b + 1) + (b + 1) = e + 1
  OBVIOUS
<1>3. \A i \in 1..(b + 1) : i # b + 1 => i \in 1..b
  OBVIOUS
<1> QED
  BY <1>1, <1>2, <1>3 DEF Ends

(***************************************************************************)
(* Reading a character keeps what the bits mean.                           *)
(***************************************************************************)
LEMMA ReadMeans ==
  ASSUME OTypeOK, MasksRight, Sound, size # 0, ofrom <= opos, Means(bits, opos),
         opos < Len(otext), otext[opos + 1] \in Char
  PROVE  Means(LeftShift(bits) \cup masks[otext[opos + 1]], opos + 1)
<1> DEFINE c == otext[opos + 1]
           shifted == LeftShift(bits) \cup masks[c]
<1> SUFFICES ASSUME NEW i \in 0..(size - 1)
             PROVE  i \notin shifted <=>
                      ofrom + (i + 1) <= opos + 1 /\ Ends(otext, opos + 1, ostr, i + 1)
  BY DEF Means
<1>t. opos \in Nat /\ ofrom \in Nat /\ size \in Nat \ {0} /\ i \in Nat /\ bits \in SUBSET Nat
      /\ width \in Nat /\ wraps \in BOOLEAN
  BY DEF OTypeOK
<1>1. Top \in Nat /\ i < Top
  BY <1>t, SoundBits
<1>2. i \notin shifted <=> (i = 0 \/ i - 1 \notin bits) /\ ostr[i + 1] = c
  <2>1. i \notin LeftShift(bits) <=> i = 0 \/ i - 1 \notin bits
    BY <1>t, <1>1, ShiftClears
  <2>2. i \notin masks[c] <=> ostr[i + 1] = c
    BY DEF MasksRight
  <2> QED
    BY <2>1, <2>2
<1>3. (i = 0 \/ i - 1 \notin bits) <=> ofrom + i <= opos /\ Ends(otext, opos, ostr, i)
  <2>1. CASE i = 0
    <3>1. Ends(otext, opos, ostr, 0)
      BY DEF Ends
    <3> QED
      BY <2>1, <3>1, <1>t
  <2>2. CASE i # 0
    <3>1. i - 1 \in 0..(size - 1) /\ (i - 1) + 1 = i
      BY <2>2, <1>t
    <3>2. i - 1 \notin bits <=>
            ofrom + ((i - 1) + 1) <= opos /\ Ends(otext, opos, ostr, (i - 1) + 1)
      BY <3>1 DEF Means
    <3> QED
      BY <3>1, <3>2, <2>2
  <2> QED
    BY <2>1, <2>2
<1>4. Ends(otext, opos + 1, ostr, i + 1) <=> Ends(otext, (opos + 1) - 1, ostr, i) /\ c = ostr[i + 1]
  <2>1. opos \in Nat /\ (opos + 1) - 1 = opos
    BY <1>t
  <2>2. Ends(otext, opos + 1, ostr, i + 1) <=> Ends(otext, opos, ostr, i) /\ otext[opos + 1] = ostr[i + 1]
    BY ONLY <1>t, <2>1, ReadOneMore
  <2> QED
    BY <2>1, <2>2
<1>5. (opos + 1) - 1 = opos /\ (ofrom + (i + 1) <= opos + 1 <=> ofrom + i <= opos)
  BY <1>t
<1> HIDE DEF shifted, c
<1> QED
  BY <1>2, <1>3, <1>4, <1>5

(***************************************************************************)
(* The bit the code tests is clear just in case the pattern ends where the *)
(* archive now stands.                                                     *)
(***************************************************************************)
LEMMA TestedBit ==
  ASSUME OTypeOK, MasksRight, Sound, size # 0,
         NEW b, NEW p \in 0..Len(otext), Means(b, p)
  PROVE  TestBit(size) \notin b <=> Occurs(ostr, otext, ofrom, p)
<1>t. size \in Nat \ {0} /\ width \in Nat /\ wraps \in BOOLEAN /\ size = Len(ostr) /\ p \in Nat /\ Len(otext) \in Nat
  BY DEF OTypeOK, MasksRight
<1>1. TestBit(size) = size - 1
  BY <1>t, SoundBits
<1>2. size - 1 \in 0..(size - 1) /\ (size - 1) + 1 = size
  BY <1>t
<1>3. size - 1 \notin b <=> ofrom + ((size - 1) + 1) <= p /\ Ends(otext, p, ostr, (size - 1) + 1)
  BY <1>2 DEF Means
<1>4. size - 1 \notin b <=> ofrom + size <= p /\ Ends(otext, p, ostr, size)
  BY <1>2, <1>3
<1> QED
  BY <1>1, <1>4, <1>t DEF Occurs
-----------------------------------------------------------------------------
\* A finder without a pattern has no masks that could be wrong.
LEMMA OInitIInv ==
  ASSUME OInit
  PROVE  OInv
<1>1. OTypeOK
  BY ShiftOrAssumption DEF OInit, OTypeOK
<1>2. MasksRight /\ OReadLoop
  BY DEF OInit, MasksRight, OReadLoop
<1> QED
  BY <1>1, <1>2 DEF OInv

(***************************************************************************)
(* A refused pattern changes the size at most, to one that is not Sound.   *)
(***************************************************************************)
LEMMA RefuseIInv ==
  ASSUME OInv, NEW p \in Pattern, ORefusePattern(p)
  PROVE  OInv'
<1>t. p \in Seq(Char) /\ Len(p) \in Nat
  BY SearchAssumption
<1>1. OTypeOK'
  BY <1>t DEF OInv, OTypeOK, ORefusePattern
<1>2. OReadLoop'
  BY DEF ORefusePattern, OReadLoop
<1>3. MasksRight'
  <2>1. CASE UNCHANGED size
    BY <2>1 DEF OInv, ORefusePattern, MasksRight, Sound
  <2>2. CASE width # 0 /\ Len(p) > width /\ size' = Len(p)
    <3>1. ~Sound'
      BY <2>2, <1>t DEF Sound, ORefusePattern, OInv, OTypeOK
    <3> QED
      BY <3>1 DEF MasksRight
  <2> QED
    BY <2>1, <2>2 DEF ORefusePattern
<1> QED
  BY <1>1, <1>2, <1>3 DEF OInv

(***************************************************************************)
(* initPattern clears the bit of every place a character has in the        *)
(* pattern.                                                                *)
(***************************************************************************)
LEMMA InitPatternIInv ==
  ASSUME OInv, NEW p \in Pattern, OInitPattern(p)
  PROVE  OInv'
<1>t. p \in Seq(Char) /\ Len(p) \in Nat \ {0} /\ DOMAIN p = 1..Len(p)
  BY SearchAssumption DEF OInitPattern
<1> DEFINE bitsOf(c) == InitTrue(Len(p)) \ {i - 1 : i \in {j \in DOMAIN p : p[j] = c}}
<1>m. masks' = [c \in Char |-> bitsOf(c)]
  BY DEF OInitPattern
<1>w. width \in Nat /\ wraps \in BOOLEAN
  BY DEF OInv, OTypeOK
<1>0. InitTrue(Len(p)) \subseteq Nat
  <2>1. ShiftedBit(Len(p)) \in Nat
    BY <1>t, <1>w DEF ShiftedBit
  <2> QED
    BY <2>1 DEF InitTrue
<1>1. OTypeOK'
  <2>1. \A c \in Char : bitsOf(c) \in SUBSET Nat
    BY <1>0
  <2> HIDE DEF bitsOf
  <2>2. masks' \in [Char -> SUBSET Nat]
    BY <2>1, <1>m
  <2> QED
    BY <2>2, <1>t DEF OInv, OTypeOK, OInitPattern
<1>2. OReadLoop'
  BY DEF OInitPattern, OReadLoop
<1>3. MasksRight'
  <2> SUFFICES ASSUME Sound'
               PROVE  \A c \in Char : \A i \in 0..(Len(p) - 1) : i \notin masks'[c] <=> p[i + 1] = c
    BY DEF MasksRight, OInitPattern
  <2>1. InitTrue(Len(p)) = 0..(Len(p) - 1)
    BY <1>t, <1>w DEF Sound, OInitPattern, InitTrue, ShiftedBit
  <2> TAKE c \in Char
  <2> TAKE i \in 0..(Len(p) - 1)
  <2>2. masks'[c] = bitsOf(c)
    <3> HIDE DEF bitsOf
    <3> QED
      BY <1>m
  <2>3. (\E j \in DOMAIN p : p[j] = c /\ i = j - 1) <=> p[i + 1] = c
    <3>1. ASSUME NEW j \in DOMAIN p, p[j] = c, i = j - 1 PROVE p[i + 1] = c
      <4>1. j = i + 1
        BY <3>1, <1>t
      <4> QED
        BY <4>1, <3>1
    <3>2. ASSUME p[i + 1] = c PROVE \E j \in DOMAIN p : p[j] = c /\ i = j - 1
      <4>1. i + 1 \in DOMAIN p /\ i = (i + 1) - 1
        BY <1>t
      <4> QED
        BY <4>1, <3>2
    <3> QED
      BY <3>1, <3>2
  <2> QED
    BY <2>1, <2>2, <2>3
<1> QED
  BY <1>1, <1>2, <1>3 DEF OInv

\* next begins with every bit set.
LEMMA SearchIInv ==
  ASSUME OInv, OSearch
  PROVE  OInv'
<1>1. CASE size = 0
  BY <1>1 DEF OInv, OTypeOK, MasksRight, OReadLoop, Sound, OSearch
<1>2. CASE size # 0
  <2>1. ShiftedBit(size) \in Nat
    BY <1>2 DEF OInv, OTypeOK, ShiftedBit
  <2>2. bits' \in SUBSET Nat
    BY <1>2, <2>1 DEF OSearch, InitTrue
  <2>3. OTypeOK' /\ MasksRight'
    BY <1>2, <2>2 DEF OInv, OTypeOK, MasksRight, Sound, OSearch
  <2>4. ASSUME Sound PROVE Means(bits, opos)' /\ ONoneUpTo(opos)'
    <3>t. size \in Nat \ {0} /\ width \in Nat /\ wraps \in BOOLEAN /\ opos \in Nat /\ size = Len(ostr)
      BY <1>2, <2>4 DEF OInv, OTypeOK, MasksRight
    <3>1. bits' = 0..(size - 1)
      BY <3>t, <2>4, <1>2, SoundBits DEF OSearch
    <3>2. size' = size /\ ofrom' = opos /\ opos' = opos /\ ostr' = ostr /\ otext' = otext
      BY <1>2 DEF OSearch
    <3>3. Means(bits, opos)'
      BY <3>t, <3>1, <3>2 DEF Means
    <3>4. ONoneUpTo(opos)'
      BY <3>t, <3>2 DEF ONoneUpTo, Occurs
    <3> QED
      BY <3>3, <3>4
  <2>5. OReadLoop'
    <3>1. size' = size /\ ofrom' = opos /\ opos' = opos /\ (Sound' <=> Sound) /\ opos \in Nat
      BY <1>2 DEF OSearch, Sound, OInv, OTypeOK
    <3> QED
      BY <3>1, <2>4, <1>2 DEF OReadLoop
  <2> QED
    BY <2>3, <2>5 DEF OInv
<1> QED
  BY <1>1, <1>2

(***************************************************************************)
(* The end of a search: reading on where the tested bit stays set keeps    *)
(* what is known of the text read, and a clear one is the first occurrence. *)
(***************************************************************************)
LEMMA ReadOn ==
  ASSUME OInv, opc = "read", Sound, opos # Len(otext), otext[opos + 1] \in Char
  PROVE  LET shifted == LeftShift(bits) \cup masks[otext[opos + 1]] IN
         /\ Means(shifted, opos + 1)
         /\ TestBit(size) \notin shifted <=> Occurs(ostr, otext, ofrom, opos + 1)
<1> DEFINE shifted == LeftShift(bits) \cup masks[otext[opos + 1]]
<1>1. opos < Len(otext) /\ opos + 1 \in 0..Len(otext) /\ size # 0 /\ ofrom <= opos /\ Means(bits, opos)
  BY DEF OInv, OTypeOK, OReadLoop
<1>2. Means(shifted, opos + 1)
  BY <1>1, ReadMeans DEF OInv
<1> HIDE DEF shifted
<1>3. TestBit(size) \notin shifted <=> Occurs(ostr, otext, ofrom, opos + 1)
  BY <1>1, <1>2, TestedBit DEF OInv
<1> QED
  BY <1>2, <1>3 DEF shifted

\* next takes a character, shifts and masks.
LEMMA ReadIInv ==
  ASSUME OInv, ORead
  PROVE  OInv'
<1> DEFINE shifted == LeftShift(bits) \cup masks[otext[opos + 1]]
<1>t. otext \in Seq(Char) /\ opos \in Nat /\ ofrom \in Nat /\ Len(otext) \in Nat /\ opos \in 0..Len(otext)
  BY SearchAssumption DEF OInv, OTypeOK
<1>1. CASE opos = Len(otext)
  <2>1. OTypeOK'
    BY <1>1, <1>t DEF OInv, OTypeOK, ORead, OReturn
  <2>2. MasksRight' /\ OReadLoop'
    BY <1>1 DEF OInv, MasksRight, OReadLoop, Sound, ORead, OReturn
  <2> QED
    BY <2>1, <2>2 DEF OInv
<1>2. CASE opos # Len(otext)
  <2>1. opos + 1 \in 0..Len(otext) /\ otext[opos + 1] \in Char /\ opos' = opos + 1
    BY <1>2, <1>t DEF ORead
  <2>2. shifted \in SUBSET Nat
    BY <2>1 DEF LeftShift, OInv, OTypeOK
  <2> HIDE DEF shifted
  <2>3. IF TestBit(size) \in shifted
          THEN bits' = shifted /\ UNCHANGED <<ofrom, opc, oresult>>
          ELSE OReturn("S_OK")
    BY <1>2 DEF ORead, shifted
  <2>4. OTypeOK'
    <3>1. UNCHANGED <<otext, ostr, size, masks, width, wraps>>
      BY DEF ORead
    <3>0. ofrom \in 0..Len(otext) /\ opc \in {"idle", "read"}
      BY DEF OInv, OTypeOK
    <3>2. bits' = shifted \/ bits' = {}
      BY <2>3 DEF OReturn
    <3>3. bits' \in SUBSET Nat
      BY <2>2, <3>2
    <3>4. ofrom' \in 0..Len(otext) /\ opc' \in {"idle", "read"}
      <4>1. ofrom' = ofrom \/ ofrom' = 0
        BY <2>3 DEF OReturn
      <4>2. opc' = opc \/ opc' = "idle"
        BY <2>3 DEF OReturn
      <4> QED
        BY <4>1, <4>2, <3>0, <1>t
    <3> QED
      BY <2>1, <3>1, <3>3, <3>4 DEF OInv, OTypeOK
  <2>5. MasksRight'
    BY DEF OInv, MasksRight, Sound, ORead
  <2>6. ASSUME opc' = "read" PROVE OReadLoop'
    <3>1. TestBit(size) \in shifted /\ bits' = shifted /\ ofrom' = ofrom
      BY <2>3, <2>6 DEF OReturn
    <3>2. size' = size /\ size # 0 /\ ostr' = ostr /\ otext' = otext /\ (Sound' <=> Sound) /\ opc = "read"
      BY DEF ORead, Sound, OInv, OReadLoop
    <3> SUFFICES ASSUME Sound PROVE ofrom <= opos + 1 /\ Means(bits, opos)' /\ ONoneUpTo(opos)'
      BY <3>1, <3>2, <2>1 DEF OReadLoop
    <3>3. Means(shifted, opos + 1) /\ ~Occurs(ostr, otext, ofrom, opos + 1)
      BY <1>2, <2>1, <3>1, <3>2, ReadOn DEF shifted
    <3>4. ofrom <= opos /\ ONoneUpTo(opos)
      BY <3>2 DEF OInv, OReadLoop
    <3>5. Means(bits, opos)'
      BY <3>1, <3>2, <3>3, <2>1 DEF Means
    <3>6. ONoneUpTo(opos)'
      <4>1. \A e \in ofrom..(opos + 1) : e \in ofrom..opos \/ e = opos + 1
        BY <1>t
      <4> QED
        BY <4>1, <3>1, <3>2, <3>3, <3>4, <2>1 DEF ONoneUpTo, Occurs, Ends
    <3> QED
      BY <3>4, <3>5, <3>6, <1>t
  <2> QED
    BY <2>4, <2>5, <2>6 DEF OInv, OReadLoop
<1> QED
  BY <1>1, <1>2

\* Between the calls the archive is moved.
LEMMA SeekIInv ==
  ASSUME OInv, NEW p \in 0..Len(otext), OSeekTo(p)
  PROVE  OInv'
<1>1. OTypeOK'
  BY DEF OInv, OTypeOK, OSeekTo
<1>2. MasksRight' /\ OReadLoop'
  BY DEF OInv, MasksRight, OReadLoop, Sound, OSeekTo
<1> QED
  BY <1>1, <1>2 DEF OInv

\* A step that changes nothing.
LEMMA OStutterIInv ==
  ASSUME OInv, UNCHANGED ovars
  PROVE  OInv'
BY DEF OInv, OTypeOK, MasksRight, OReadLoop, Means, ONoneUpTo, Sound, ovars

\* Every step keeps the inductive invariant.
LEMMA ONextIInv ==
  ASSUME OInv, [ONext]_ovars
  PROVE  OInv'
BY RefuseIInv, InitPatternIInv, SearchIInv, ReadIInv, SeekIInv, OStutterIInv DEF ONext

\* In every reachable state the bits mean what they should, whatever the
\* client does between and during searches.
THEOREM ShiftOrInvariance == OSpec => []OInv
<1>1. OInit => OInv
  BY OInitIInv
<1>2. OInv /\ [ONext]_ovars => OInv'
  BY ONextIInv
<1> QED
  BY <1>1, <1>2, PTL DEF OSpec
-----------------------------------------------------------------------------
(***************************************************************************)
(* Only Read ends a search.                                                *)
(***************************************************************************)
LEMMA OReadEnds ==
  ASSUME OInv, [ONext]_ovars, opc = "read", opc' = "idle", Sound
  PROVE  FirstOccurrence(opos', oresult' = "S_OK")
<1> DEFINE shifted == LeftShift(bits) \cup masks[otext[opos + 1]]
<1>0. ORead
  BY DEF ONext, ovars, ORefusePattern, OInitPattern, OSearch, OSeekTo
<1>t. otext \in Seq(Char) /\ opos \in Nat /\ ofrom \in Nat /\ Len(otext) \in Nat /\ opos \in 0..Len(otext)
  BY SearchAssumption DEF OInv, OTypeOK
<1>l. ofrom <= opos /\ ONoneUpTo(opos)
  BY DEF OInv, OReadLoop
<1>1. CASE opos = Len(otext)
  <2>1. opos' = opos /\ oresult' = "S_FALSE"
    BY <1>0, <1>1 DEF ORead, OReturn
  <2>2. ~(oresult' = "S_OK")
    BY <2>1
  <2> QED
    BY <2>1, <2>2, <1>l, <1>1 DEF FirstOccurrence, ONoneUpTo
<1>2. CASE opos # Len(otext)
  <2>1. opos + 1 \in 0..Len(otext) /\ otext[opos + 1] \in Char /\ opos' = opos + 1
    BY <1>0, <1>2, <1>t DEF ORead
  <2>2. TestBit(size) \notin shifted /\ oresult' = "S_OK"
    BY <1>0, <1>2 DEF ORead, OReturn
  <2>3. Occurs(ostr, otext, ofrom, opos + 1)
    BY <1>2, <2>1, <2>2, ReadOn
  <2>4. \A e \in ofrom..Len(otext) : Occurs(ostr, otext, ofrom, e) => opos + 1 <= e
    <3> SUFFICES ASSUME NEW e \in ofrom..Len(otext), Occurs(ostr, otext, ofrom, e), ~(opos + 1 <= e)
                 PROVE  FALSE
      OBVIOUS
    <3>1. e \in ofrom..opos
      BY <1>t
    <3> QED
      BY <3>1, <1>l DEF ONoneUpTo
  <2> QED
    BY <2>1, <2>2, <2>3, <2>4 DEF FirstOccurrence
<1> QED
  BY <1>1, <1>2

\* A search ends behind the first occurrence of the pattern from where the
\* archive stood, or at the end of a text without one: next(ar) of every
\* pattern, text and bitmap, where no shift by the width of the word does harm.
THEOREM ShiftOrCorrect == OSpec => FindsFirst
<1>1. OInv /\ [ONext]_ovars =>
        [opc = "read" /\ opc' = "idle" /\ Sound => FirstOccurrence(opos', oresult' = "S_OK")]_ovars
  BY OReadEnds
<1> QED
  BY <1>1, ShiftOrInvariance, PTL DEF OSpec, FindsFirst
=============================================================================
