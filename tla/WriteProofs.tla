------------------------- MODULE WriteProofs -------------------------------
(***************************************************************************)
(* Proofs about the archive that writes through a buffer, under a client   *)
(* that puts numbers (WriteClient) and under the writer of records         *)
(* (RecordFile); for every size of the buffer, content of the file, length *)
(* of a put and, for the first, number of writes that come up short.       *)
(*                                                                         *)
(* Each operation is first described by what it leaves of the archive (the *)
(* lemmas named ...Outcome, and PutAll): the file may only grow if it is   *)
(* opened to append; bytes in order stay in order; and where no write      *)
(* comes up short the bytes of the client land at its position, which is   *)
(* what the refinement needs. The content a client means is the file with  *)
(* the buffer laid over it, so most of the work is about overlays.         *)
(*                                                                         *)
(* No property is inductive alone. Order on the disk needs order in the    *)
(* buffer behind it (InOrder) and the descriptor at the end of the file    *)
(* (AtEnd), for a byte written elsewhere would go over another; opening a  *)
(* file again needs the buffer of a closed one to be empty, or its bytes   *)
(* would go to the wrong file; the refinement needs the bound that puts    *)
(* keep for what was written, Sized.  The writer of records needs where    *)
(* each record begins and what lies behind the last one (LaidOut).         *)
(***************************************************************************)
EXTENDS WriteClient, RecordFile, SequenceTheorems, NaturalsInduction,
        WellFoundedInduction, TLAPS

\* An archive; bytes are numbers here, and so is what a gap reads as.
Archive == [file : Seq(Int), hp : Nat, buf : Seq(Int), faults : Nat]
-----------------------------------------------------------------------------
(***************************************************************************)
(* Overlays: what one is made of, one at the end of a file, one behind     *)
(* another, and one over a part of another.                                *)
(***************************************************************************)
LEMMA OverlayProperties ==
  ASSUME NEW f \in Seq(Int), NEW p \in Nat, NEW s \in Seq(Int), s # << >>
  PROVE  LET n == IF p + Len(s) > Len(f) THEN p + Len(s) ELSE Len(f) IN
         /\ Overlay(f, p, s) \in Seq(Int)
         /\ Len(Overlay(f, p, s)) = n
         /\ \A i \in 1..n :
              Overlay(f, p, s)[i] =
                IF i \in (p + 1)..(p + Len(s)) THEN s[i - p]
                ELSE IF i <= Len(f) THEN f[i] ELSE Hole
<1> DEFINE n == IF p + Len(s) > Len(f) THEN p + Len(s) ELSE Len(f)
           e(i) == IF i \in (p + 1)..(p + Len(s)) THEN s[i - p]
                   ELSE IF i <= Len(f) THEN f[i] ELSE Hole
<1>1. n \in Nat
  OBVIOUS
<1>2. \A i \in 1..n : e(i) \in Int
  BY WriteClientAssumption
<1>3. Overlay(f, p, s) = [i \in 1..n |-> e(i)]
  BY DEF Overlay
<1> HIDE DEF n, e
<1>4. /\ [i \in 1..n |-> e(i)] \in Seq(Int)
      /\ Len([i \in 1..n |-> e(i)]) = n
      /\ \A i \in 1..n : [j \in 1..n |-> e(j)][i] = e(i)
  BY <1>1, <1>2
<1>5. /\ Overlay(f, p, s) \in Seq(Int)
      /\ Len(Overlay(f, p, s)) = n
      /\ \A i \in 1..n : Overlay(f, p, s)[i] = e(i)
  BY <1>3, <1>4
<1> QED
  BY <1>5 DEF n, e

\* An overlay is a file.
LEMMA OverlayType ==
  ASSUME NEW f \in Seq(Int), NEW p \in Nat, NEW s \in Seq(Int)
  PROVE  Overlay(f, p, s) \in Seq(Int)
<1>1. CASE s = << >>
  BY <1>1 DEF Overlay
<1>2. CASE s # << >>
  BY <1>2, OverlayProperties
<1> QED
  BY <1>1, <1>2

\* Laid over the end, bytes are appended.
LEMMA OverlayAtEnd ==
  ASSUME NEW f \in Seq(Int), NEW s \in Seq(Int)
  PROVE  Overlay(f, Len(f), s) = f \o s
<1>1. CASE s = << >>
  BY <1>1 DEF Overlay
<1>2. CASE s # << >>
  <2>1. Len(f) \in Nat /\ Len(s) \in Nat \ {0}
    BY <1>2
  <2>2. /\ Overlay(f, Len(f), s) \in Seq(Int)
        /\ Len(Overlay(f, Len(f), s)) = Len(f) + Len(s)
        /\ \A i \in 1..(Len(f) + Len(s)) :
              Overlay(f, Len(f), s)[i] =
                IF i \in (Len(f) + 1)..(Len(f) + Len(s)) THEN s[i - Len(f)]
                ELSE IF i <= Len(f) THEN f[i] ELSE Hole
    BY <1>2, <2>1, OverlayProperties
  <2>3. /\ f \o s \in Seq(Int)
        /\ Len(f \o s) = Len(f) + Len(s)
        /\ \A i \in 1..(Len(f) + Len(s)) :
             (f \o s)[i] = IF i <= Len(f) THEN f[i] ELSE s[i - Len(f)]
    BY ConcatProperties
  <2>4. \A i \in 1..(Len(f) + Len(s)) : Overlay(f, Len(f), s)[i] = (f \o s)[i]
    BY <2>1, <2>2, <2>3
  <2> QED
    BY <2>1, <2>2, <2>3, <2>4, SeqEqual
<1> QED
  BY <1>1, <1>2

\* Bytes laid behind bytes are one run of bytes.
LEMMA OverlayTwice ==
  ASSUME NEW f \in Seq(Int), NEW p \in Nat, NEW s \in Seq(Int), NEW t \in Seq(Int)
  PROVE  Overlay(Overlay(f, p, s), p + Len(s), t) = Overlay(f, p, s \o t)
<1>1. CASE s = << >>
  <2>1. s \o t = t /\ p + Len(s) = p /\ Overlay(f, p, s) = f
    BY <1>1 DEF Overlay
  <2> QED
    BY <2>1
<1>2. CASE t = << >>
  <2>1. s \o t = s
    BY <1>2
  <2> QED
    BY <2>1, <1>2 DEF Overlay
<1>3. CASE s # << >> /\ t # << >>
  <2> DEFINE g == Overlay(f, p, s)
             n == IF p + Len(s) > Len(f) THEN p + Len(s) ELSE Len(f)
             m == IF p + Len(s) + Len(t) > Len(f) THEN p + Len(s) + Len(t) ELSE Len(f)
             l == Overlay(g, p + Len(s), t)
             r == Overlay(f, p, s \o t)
  <2>0. Len(f) \in Nat /\ Len(s) \in Nat \ {0} /\ Len(t) \in Nat \ {0} /\ n \in Nat /\ m \in Nat
    BY <1>3
  <2>1. /\ g \in Seq(Int) /\ Len(g) = n
        /\ \A i \in 1..n :
             g[i] = IF i \in (p + 1)..(p + Len(s)) THEN s[i - p]
                    ELSE IF i <= Len(f) THEN f[i] ELSE Hole
    BY <1>3, OverlayProperties
  <2>2. /\ s \o t \in Seq(Int) /\ Len(s \o t) = Len(s) + Len(t) /\ s \o t # << >>
        /\ \A i \in 1..(Len(s) + Len(t)) :
             (s \o t)[i] = IF i <= Len(s) THEN s[i] ELSE t[i - Len(s)]
    BY <2>0, ConcatProperties
  <2> HIDE DEF g
  <2>3. /\ l \in Seq(Int) /\ Len(l) = m
        /\ \A i \in 1..m :
             l[i] = IF i \in (p + Len(s) + 1)..(p + Len(s) + Len(t)) THEN t[i - (p + Len(s))]
                    ELSE IF i <= n THEN g[i] ELSE Hole
    <3>1. p + Len(s) \in Nat
      BY <2>0
    <3>2. LET k == IF p + Len(s) + Len(t) > Len(g) THEN p + Len(s) + Len(t) ELSE Len(g) IN
          /\ l \in Seq(Int) /\ Len(l) = k
          /\ \A i \in 1..k :
               l[i] = IF i \in (p + Len(s) + 1)..(p + Len(s) + Len(t)) THEN t[i - (p + Len(s))]
                      ELSE IF i <= Len(g) THEN g[i] ELSE Hole
      BY <1>3, <2>1, <3>1, OverlayProperties
    <3>3. (IF p + Len(s) + Len(t) > Len(g) THEN p + Len(s) + Len(t) ELSE Len(g)) = m
      <4>1. Len(g) = n
        BY <2>1
      <4> QED
        BY <4>1, <2>0
    <3>4. Len(g) = n
      BY <2>1
    <3> HIDE DEF l, m, n
    <3> QED
      BY <3>2, <3>3, <3>4
  <2>4. /\ r \in Seq(Int) /\ Len(r) = m
        /\ \A i \in 1..m :
             r[i] = IF i \in (p + 1)..(p + Len(s) + Len(t)) THEN (s \o t)[i - p]
                    ELSE IF i <= Len(f) THEN f[i] ELSE Hole
    <3>1. LET k == IF p + Len(s \o t) > Len(f) THEN p + Len(s \o t) ELSE Len(f) IN
          /\ r \in Seq(Int) /\ Len(r) = k
          /\ \A i \in 1..k :
               r[i] = IF i \in (p + 1)..(p + Len(s \o t)) THEN (s \o t)[i - p]
                      ELSE IF i <= Len(f) THEN f[i] ELSE Hole
      BY <2>2, OverlayProperties, ZenonT(30)
    <3>2. p + Len(s \o t) = p + Len(s) + Len(t)
      BY <2>2, <2>0
    <3> HIDE DEF r
    <3> QED
      BY <3>1, <3>2
  <2> HIDE DEF l, r
  <2>5. ASSUME NEW i \in 1..m PROVE l[i] = r[i]
    <3>1. CASE i \in (p + Len(s) + 1)..(p + Len(s) + Len(t))
      <4>1. i - p \in 1..(Len(s) + Len(t)) /\ ~(i - p <= Len(s)) /\ (i - p) - Len(s) = i - (p + Len(s))
            /\ i \in (p + 1)..(p + Len(s) + Len(t))
        BY <3>1, <2>0
      <4> QED
        BY <3>1, <4>1, <2>2, <2>3, <2>4
    <3>2. CASE i \in (p + 1)..(p + Len(s))
      <4>1. i \in 1..n /\ i <= n /\ i \notin (p + Len(s) + 1)..(p + Len(s) + Len(t))
            /\ i \in (p + 1)..(p + Len(s) + Len(t)) /\ i - p \in 1..(Len(s) + Len(t)) /\ i - p <= Len(s)
        BY <3>2, <2>0, SMTT(30)
      <4>2. l[i] = g[i]
        BY <4>1, <2>3
      <4>3. g[i] = s[i - p]
        BY <4>1, <3>2, <2>1
      <4>4. r[i] = (s \o t)[i - p]
        BY <4>1, <2>4
      <4> QED
        BY <4>1, <4>2, <4>3, <4>4, <2>2
    <3>3. CASE i \notin (p + 1)..(p + Len(s) + Len(t))
      <4>1. i \notin (p + Len(s) + 1)..(p + Len(s) + Len(t)) /\ i \notin (p + 1)..(p + Len(s))
        BY <3>3, <2>0, SMTT(30)
      <4>2. i <= n => i \in 1..n
        BY <2>0
      <4>3. i <= Len(f) => i <= n
        BY <2>0
      <4> QED
        BY <3>3, <4>1, <4>2, <4>3, <2>1, <2>3, <2>4
    <3> QED
      BY <3>1, <3>2, <3>3, <2>0
  <2> QED
    <3>1. l = r
      BY <2>0, <2>3, <2>4, <2>5, SeqEqual
    <3> QED
      BY <3>1 DEF l, r, g
<1> QED
  BY <1>1, <1>2, <1>3

(***************************************************************************)
(* Replacing bytes of what is laid over a file is laying them over it too. *)
(***************************************************************************)
LEMMA OverlayWithin ==
  ASSUME NEW f \in Seq(Int), NEW p \in Nat, NEW b \in Seq(Int), NEW k \in Nat,
         NEW s \in Seq(Int), k + Len(s) <= Len(b)
  PROVE  /\ Len(Overlay(b, k, s)) = Len(b)
         /\ Overlay(f, p, Overlay(b, k, s)) = Overlay(Overlay(f, p, b), p + k, s)
<1>1. CASE s = << >>
  BY <1>1 DEF Overlay
<1>2. CASE s # << >>
  <2> DEFINE c == Overlay(b, k, s)
             g == Overlay(f, p, b)
             n == IF p + Len(b) > Len(f) THEN p + Len(b) ELSE Len(f)
             l == Overlay(f, p, c)
             r == Overlay(g, p + k, s)
  <2>0. Len(f) \in Nat /\ Len(s) \in Nat \ {0} /\ Len(b) \in Nat \ {0} /\ n \in Nat /\ b # << >> /\ p + k \in Nat
    <3>1. Len(s) \in Nat \ {0}
      BY <1>2
    <3>2. Len(b) \in Nat \ {0}
      BY <3>1
    <3>3. b # << >>
      BY <3>2
    <3> QED
      BY <3>1, <3>2, <3>3
  <2>1. /\ c \in Seq(Int) /\ Len(c) = Len(b)
        /\ \A i \in 1..Len(b) :
             c[i] = IF i \in (k + 1)..(k + Len(s)) THEN s[i - k]
                    ELSE IF i <= Len(b) THEN b[i] ELSE Hole
    <3>1. (IF k + Len(s) > Len(b) THEN k + Len(s) ELSE Len(b)) = Len(b)
      BY <2>0
    <3>2. LET m == IF k + Len(s) > Len(b) THEN k + Len(s) ELSE Len(b) IN
          /\ c \in Seq(Int) /\ Len(c) = m
          /\ \A i \in 1..m :
               c[i] = IF i \in (k + 1)..(k + Len(s)) THEN s[i - k]
                      ELSE IF i <= Len(b) THEN b[i] ELSE Hole
      BY <1>2, OverlayProperties
    <3> HIDE DEF c
    <3> QED
      BY <3>1, <3>2
  <2>2. /\ g \in Seq(Int) /\ Len(g) = n
        /\ \A i \in 1..n :
             g[i] = IF i \in (p + 1)..(p + Len(b)) THEN b[i - p]
                    ELSE IF i <= Len(f) THEN f[i] ELSE Hole
    BY <2>0, OverlayProperties
  <2> HIDE DEF c, g
  <2>3. /\ l \in Seq(Int) /\ Len(l) = n
        /\ \A i \in 1..n :
             l[i] = IF i \in (p + 1)..(p + Len(b)) THEN c[i - p]
                    ELSE IF i <= Len(f) THEN f[i] ELSE Hole
    <3>1. c # << >> /\ Len(c) = Len(b)
      BY <2>0, <2>1
    <3>2. LET m == IF p + Len(c) > Len(f) THEN p + Len(c) ELSE Len(f) IN
          /\ l \in Seq(Int) /\ Len(l) = m
          /\ \A i \in 1..m :
               l[i] = IF i \in (p + 1)..(p + Len(c)) THEN c[i - p]
                      ELSE IF i <= Len(f) THEN f[i] ELSE Hole
      BY <3>1, <2>1, OverlayProperties, ZenonT(30)
    <3> HIDE DEF l
    <3> QED
      BY <3>1, <3>2
  <2>4. /\ r \in Seq(Int) /\ Len(r) = n
        /\ \A i \in 1..n :
             r[i] = IF i \in (p + k + 1)..(p + k + Len(s)) THEN s[i - (p + k)]
                    ELSE IF i <= n THEN g[i] ELSE Hole
    <3>1. (IF p + k + Len(s) > Len(g) THEN p + k + Len(s) ELSE Len(g)) = n /\ Len(g) = n
      <4>1. Len(g) = n
        BY <2>2
      <4> QED
        BY <4>1, <2>0
    <3>2. LET m == IF p + k + Len(s) > Len(g) THEN p + k + Len(s) ELSE Len(g) IN
          /\ r \in Seq(Int) /\ Len(r) = m
          /\ \A i \in 1..m :
               r[i] = IF i \in (p + k + 1)..(p + k + Len(s)) THEN s[i - (p + k)]
                      ELSE IF i <= Len(g) THEN g[i] ELSE Hole
      <4>1. p + k \in Nat /\ g \in Seq(Int)
        BY <2>0, <2>2
      <4> QED
        BY ONLY <1>2, <4>1, k \in Nat, p \in Nat, s \in Seq(Int), OverlayProperties DEF r
    <3> HIDE DEF r, n
    <3> QED
      BY <3>1, <3>2
  <2> HIDE DEF l, r
  <2>5. ASSUME NEW i \in 1..n PROVE l[i] = r[i]
    <3>1. CASE i \in (p + k + 1)..(p + k + Len(s))
      <4>1. i - p \in 1..Len(b) /\ i - p \in (k + 1)..(k + Len(s)) /\ (i - p) - k = i - (p + k)
            /\ i \in (p + 1)..(p + Len(b))
        BY <3>1, <2>0
      <4>2. l[i] = c[i - p]
        BY <4>1, <2>3
      <4>3. c[i - p] = s[i - (p + k)]
        BY <4>1, <2>1
      <4> QED
        BY <3>1, <4>2, <4>3, <2>4
    <3>2. CASE i \in (p + 1)..(p + Len(b)) /\ i \notin (p + k + 1)..(p + k + Len(s))
      <4>1. i - p \in 1..Len(b) /\ i - p <= Len(b) /\ i - p \notin (k + 1)..(k + Len(s)) /\ i <= n
        BY <3>2, <2>0
      <4>2. l[i] = c[i - p]
        BY <3>2, <2>3
      <4>3. c[i - p] = b[i - p]
        BY <4>1, <2>1
      <4>4. r[i] = g[i] /\ g[i] = b[i - p]
        BY <3>2, <4>1, <2>2, <2>4
      <4> QED
        BY <4>2, <4>3, <4>4
    <3>3. CASE i \notin (p + 1)..(p + Len(b))
      <4>1. i \notin (p + k + 1)..(p + k + Len(s)) /\ i <= n
        BY <3>3, <2>0
      <4> QED
        BY <3>3, <4>1, <2>2, <2>3, <2>4
    <3> QED
      BY <3>1, <3>2, <3>3
  <2>6. l = r
    BY <2>0, <2>3, <2>4, <2>5, SeqEqual
  <2> QED
    BY <2>6, <2>1 DEF l, r, g, c
<1> QED
  BY <1>1, <1>2
-----------------------------------------------------------------------------
(***************************************************************************)
(* Bytes in order: all below h, and from l on.                             *)
(***************************************************************************)
UpTo(s, h) == Increasing(s) /\ \A i \in 1..Len(s) : s[i] < h
Between(s, l, h) == Increasing(s) /\ \A i \in 1..Len(s) : l <= s[i] /\ s[i] < h

\* Bytes up to m and then bytes from m on.
LEMMA UpToConcat ==
  ASSUME NEW s \in Seq(Int), NEW t \in Seq(Int), NEW m \in Int, NEW h \in Int,
         m <= h, UpTo(s, m), Between(t, m, h)
  PROVE  UpTo(s \o t, h)
<1>0. Len(s) \in Nat /\ Len(t) \in Nat
  OBVIOUS
<1>1. /\ s \o t \in Seq(Int)
      /\ Len(s \o t) = Len(s) + Len(t)
      /\ \A i \in 1..(Len(s) + Len(t)) :
           (s \o t)[i] = IF i <= Len(s) THEN s[i] ELSE t[i - Len(s)]
  BY ConcatProperties
<1>2. \A i \in 1..(Len(s) + Len(t)) :
        /\ i <= Len(s) => i \in 1..Len(s) /\ (s \o t)[i] = s[i] /\ s[i] < m /\ s[i] \in Int
        /\ ~(i <= Len(s)) => /\ i - Len(s) \in 1..Len(t) /\ (s \o t)[i] = t[i - Len(s)]
                             /\ m <= t[i - Len(s)] /\ t[i - Len(s)] < h /\ t[i - Len(s)] \in Int
  BY <1>0, <1>1 DEF UpTo, Between
<1>3. ASSUME NEW i \in 1..(Len(s) + Len(t)), NEW j \in 1..(Len(s) + Len(t)), i < j
      PROVE  (s \o t)[i] < (s \o t)[j]
  <2>1. CASE j <= Len(s)
    <3>1. i <= Len(s) /\ i \in 1..Len(s) /\ j \in 1..Len(s)
      BY <1>0, <1>3, <2>1
    <3>2. s[i] < s[j]
      BY <3>1, <1>3 DEF UpTo, Increasing
    <3> QED
      BY <3>1, <3>2, <2>1, <1>2
  <2>2. CASE i <= Len(s) /\ ~(j <= Len(s))
    BY <2>2, <1>2, SMTT(30)
  <2>3. CASE ~(i <= Len(s))
    <3>1. ~(j <= Len(s)) /\ i - Len(s) \in 1..Len(t) /\ j - Len(s) \in 1..Len(t) /\ i - Len(s) < j - Len(s)
      BY <1>0, <1>3, <2>3
    <3>2. t[i - Len(s)] < t[j - Len(s)]
      BY <3>1 DEF Between, Increasing
    <3> QED
      BY <3>1, <3>2, <2>3, <1>2
  <2> QED
    BY <2>1, <2>2, <2>3
<1>4. ASSUME NEW i \in 1..(Len(s) + Len(t)) PROVE (s \o t)[i] < h
  BY <1>2, SMTT(30)
<1> QED
  BY <1>1, <1>3, <1>4 DEF UpTo, Increasing

\* A run behind a run.
LEMMA BetweenConcat ==
  ASSUME NEW s \in Seq(Int), NEW t \in Seq(Int), NEW l \in Int, NEW m \in Int, NEW h \in Int,
         l <= m, m <= h, Between(s, l, m), Between(t, m, h)
  PROVE  Between(s \o t, l, h)
<1>1. UpTo(s \o t, h)
  <2>1. UpTo(s, m)
    BY DEF Between, UpTo
  <2> QED
    BY <2>1, UpToConcat
<1>2. /\ s \o t \in Seq(Int)
      /\ Len(s \o t) = Len(s) + Len(t)
      /\ \A i \in 1..(Len(s) + Len(t)) :
           (s \o t)[i] = IF i <= Len(s) THEN s[i] ELSE t[i - Len(s)]
  BY ConcatProperties
<1>3. ASSUME NEW i \in 1..Len(s \o t) PROVE l <= (s \o t)[i]
  <2>0. Len(s) \in Nat /\ Len(t) \in Nat /\ i \in 1..(Len(s) + Len(t))
    BY <1>2
  <2>1. CASE i <= Len(s)
    <3>1. i \in 1..Len(s) /\ (s \o t)[i] = s[i]
      BY <1>2, <2>0, <2>1
    <3> QED
      BY <3>1 DEF Between
  <2>2. CASE ~(i <= Len(s))
    <3>1. i - Len(s) \in 1..Len(t) /\ (s \o t)[i] = t[i - Len(s)]
      BY <1>2, <2>0, <2>2
    <3>2. t[i - Len(s)] \in Int /\ m <= t[i - Len(s)]
      BY <3>1 DEF Between
    <3> QED
      BY <3>1, <3>2
  <2> QED
    BY <2>1, <2>2
<1> QED
  BY <1>1, <1>3 DEF Between, UpTo

\* The beginning of a run is a run.
LEMMA BetweenPrefix ==
  ASSUME NEW s \in Seq(Int), NEW k \in 0..Len(s), NEW l \in Int, NEW h \in Int, Between(s, l, h)
  PROVE  Between(SubSeq(s, 1, k), l, h)
<1>1. Len(SubSeq(s, 1, k)) = k /\ \A i \in 1..k : SubSeq(s, 1, k)[i] = s[i] /\ i \in 1..Len(s)
  OBVIOUS
<1> QED
  BY <1>1 DEF Between, Increasing

\* A part of the numbers a client puts is such a run.
LEMMA RunPart ==
  ASSUME NEW a \in Int, NEW n \in Nat, NEW i \in 1..(n + 1), NEW j \in (i - 1)..n
  PROVE  /\ Run(a, n) \in Seq(Int) /\ Len(Run(a, n)) = n
         /\ SubSeq(Run(a, n), i, j) \in Seq(Int)
         /\ Len(SubSeq(Run(a, n), i, j)) = j - i + 1
         /\ Between(SubSeq(Run(a, n), i, j), a + i - 1, a + j)
<1>1. Run(a, n) \in Seq(Int) /\ Len(Run(a, n)) = n /\ \A k \in 1..n : Run(a, n)[k] = a + k - 1
  BY DEF Run
<1> DEFINE r == Run(a, n)
           t == SubSeq(r, i, j)
<1> HIDE DEF r
<1>2. t \in Seq(Int) /\ Len(t) = j - i + 1 /\ \A k \in 1..(j - i + 1) : t[k] = r[i + k - 1]
  BY <1>1, SubSeqProperties DEF r
<1>3. \A k \in 1..(j - i + 1) : t[k] = a + i + k - 2
  <2> SUFFICES ASSUME NEW k \in 1..(j - i + 1) PROVE t[k] = a + i + k - 2
    OBVIOUS
  <2>1. i + k - 1 \in 1..n /\ a + (i + k - 1) - 1 = a + i + k - 2
    OBVIOUS
  <2>2. r[i + k - 1] = a + (i + k - 1) - 1
    BY <2>1, <1>1 DEF r
  <2> QED
    BY <2>1, <2>2, <1>2
<1> HIDE DEF t
<1>4. Between(t, a + i - 1, a + j)
  BY <1>2, <1>3 DEF Between, Increasing
<1> QED
  BY <1>1, <1>2, <1>4 DEF t, r
-----------------------------------------------------------------------------
(***************************************************************************)
(* Prefixes.                                                               *)
(***************************************************************************)
LEMMA PrefixOfItself ==
  ASSUME NEW s
  PROVE  IsPrefix(s, s)
BY DEF IsPrefix

\* A prefix of a prefix is a prefix.
LEMMA PrefixTransitive ==
  ASSUME NEW s \in Seq(Int), NEW t \in Seq(Int), NEW u \in Seq(Int),
         IsPrefix(s, t), IsPrefix(t, u)
  PROVE  IsPrefix(s, u)
<1>0. Len(s) \in Nat /\ Len(t) \in Nat /\ Len(u) \in Nat /\ Len(s) <= Len(t) /\ Len(t) <= Len(u)
  BY DEF IsPrefix
<1>1. ASSUME NEW v \in Seq(Int), NEW w \in Seq(Int), Len(v) <= Len(w)
      PROVE  IsPrefix(v, w) <=> \A i \in 1..Len(v) : v[i] = w[i]
  <2>1. SubSeq(v, 1, Len(v)) = v
    BY SubSeqFull
  <2>2. SubSeq(w, 1, Len(v)) \in Seq(Int) /\ Len(SubSeq(w, 1, Len(v))) = Len(v)
        /\ \A i \in 1..Len(v) : SubSeq(w, 1, Len(v))[i] = w[i]
    BY <1>1
  <2>3. (\A i \in 1..Len(v) : v[i] = SubSeq(w, 1, Len(v))[i]) => v = SubSeq(w, 1, Len(v))
    BY <2>2, SeqEqual
  <2> HIDE DEF IsPrefix
  <2> QED
    BY <1>1, <2>1, <2>2, <2>3 DEF IsPrefix
<1>2. \A i \in 1..Len(s) : s[i] = t[i]
  BY <1>0, <1>1
<1>3. \A i \in 1..Len(t) : t[i] = u[i]
  BY <1>0, <1>1
<1>4. \A i \in 1..Len(s) : s[i] = u[i]
  BY <1>0, <1>2, <1>3
<1> QED
  BY <1>0, <1>1, <1>4

\* What is appended to has itself as a prefix.
LEMMA PrefixOfConcat ==
  ASSUME NEW s \in Seq(Int), NEW t \in Seq(Int)
  PROVE  IsPrefix(s, s \o t)
<1>1. s \o t \in Seq(Int) /\ Len(s \o t) = Len(s) + Len(t) /\ Len(s) \in Nat /\ Len(t) \in Nat
      /\ \A i \in 1..Len(s) : (s \o t)[i] = s[i]
  OBVIOUS
<1>2. SubSeq(s \o t, 1, Len(s)) \in Seq(Int) /\ Len(SubSeq(s \o t, 1, Len(s))) = Len(s)
      /\ \A i \in 1..Len(s) : SubSeq(s \o t, 1, Len(s))[i] = s[i]
  BY <1>1, SubSeqProperties
<1>3. SubSeq(s \o t, 1, Len(s)) = s
  BY <1>2, SeqEqual
<1>4. SubSeq(s, 1, Len(s)) = s
  BY SubSeqFull
<1> QED
  BY <1>1, <1>3, <1>4 DEF IsPrefix
-----------------------------------------------------------------------------
(***************************************************************************)
(* Archives with a field changed.                                          *)
(***************************************************************************)
LEMMA SetFile ==
  ASSUME NEW w \in Archive, NEW x \in Seq(Int), NEW v, v = [w EXCEPT !.file = x]
  PROVE  /\ v \in Archive
         /\ v.file = x /\ v.hp = w.hp /\ v.buf = w.buf /\ v.faults = w.faults
BY DEF Archive

\* The descriptor at another position.
LEMMA SetHp ==
  ASSUME NEW w \in Archive, NEW x \in Nat, NEW v, v = [w EXCEPT !.hp = x]
  PROVE  /\ v \in Archive
         /\ v.file = w.file /\ v.hp = x /\ v.buf = w.buf /\ v.faults = w.faults
BY DEF Archive

\* Another buffer.
LEMMA SetBuf ==
  ASSUME NEW w \in Archive, NEW x \in Seq(Int), NEW v, v = [w EXCEPT !.buf = x]
  PROVE  /\ v \in Archive
         /\ v.file = w.file /\ v.hp = w.hp /\ v.buf = x /\ v.faults = w.faults
BY DEF Archive

\* Another count of writes that came up short.
LEMMA SetFaults ==
  ASSUME NEW w \in Archive, NEW x \in Nat, NEW v, v = [w EXCEPT !.faults = x]
  PROVE  /\ v \in Archive
         /\ v.file = w.file /\ v.hp = w.hp /\ v.buf = w.buf /\ v.faults = x
BY DEF Archive

-----------------------------------------------------------------------------
(***************************************************************************)
(* What a write leaves: some first bytes of what it was given, all of them *)
(* unless it came up short.                                                *)
(***************************************************************************)
At(w) == IF wmode = "append" THEN Len(w.file) ELSE w.hp

\* The first j bytes are laid over the file, or behind all of it.
LEMMA HandlePutOutcome ==
  ASSUME NEW w \in Archive, NEW s \in Seq(Int), NEW r \in HandlePut(w, s)
  PROVE  /\ r.w \in Archive /\ r.ok \in BOOLEAN
         /\ r.w.buf = w.buf
         /\ w.faults <= r.w.faults
         /\ \E k \in 0..Len(s) :
              /\ r.w.file = Overlay(w.file, At(w), SubSeq(s, 1, k))
              /\ r.w.hp = At(w) + k
         /\ r.w.faults = w.faults =>
              r.ok /\ r.w.file = Overlay(w.file, At(w), s) /\ r.w.hp = At(w) + Len(s)
<1>t. w.file \in Seq(Int) /\ w.hp \in Nat /\ w.buf \in Seq(Int) /\ w.faults \in Nat
      /\ At(w) \in Nat /\ Len(s) \in Nat
  BY DEF Archive, At
<1>1. ASSUME NEW q \in Seq(Int)
      PROVE  /\ Written(w, q) \in Archive
             /\ Written(w, q).file = Overlay(w.file, At(w), q)
             /\ Written(w, q).hp = At(w) + Len(q)
             /\ Written(w, q).buf = w.buf /\ Written(w, q).faults = w.faults
  <2> DEFINE f == Overlay(w.file, At(w), q)
             h == At(w) + Len(q)
             u == [w EXCEPT !.file = f]
             v == Written(w, q)
  <2>1. f \in Seq(Int)
    BY <1>t, <1>1, OverlayType
  <2>2. v = [u EXCEPT !.hp = h]
    BY Zenon DEF Written, At
  <2>3. h \in Nat
    BY <1>t, <1>1
  <2> HIDE DEF f, h, v
  <2>4. u \in Archive /\ u.file = f /\ u.hp = w.hp /\ u.buf = w.buf /\ u.faults = w.faults
    BY <2>1, SetFile
  <2> HIDE DEF u
  <2>5. v \in Archive /\ v.file = f /\ v.hp = h /\ v.buf = w.buf /\ v.faults = w.faults
    BY ONLY <2>2, <2>3, <2>4, SetHp
  <2> QED
    BY <2>5 DEF f, h, v
<1>2. CASE r = Done(Written(w, s))
  <2>1. r.w = Written(w, s) /\ r.ok = TRUE
    BY <1>2 DEF Done
  <2>2. SubSeq(s, 1, Len(s)) = s /\ Len(s) \in 0..Len(s)
    BY SubSeqFull, <1>t
  <2>3. /\ r.w \in Archive /\ r.w.buf = w.buf /\ r.w.faults = w.faults
        /\ r.w.file = Overlay(w.file, At(w), s) /\ r.w.hp = At(w) + Len(s)
    BY <2>1, <1>1
  <2>4. \E k \in 0..Len(s) : r.w.file = Overlay(w.file, At(w), SubSeq(s, 1, k)) /\ r.w.hp = At(w) + k
    BY <2>2, <2>3
  <2>5. w.faults <= r.w.faults
    BY <2>3, <1>t
  <2> QED
    BY ONLY <2>1, <2>3, <2>4, <2>5
<1>3. CASE \E k \in 0..(Len(s) - 1) : r = ShortlyWritten(w, s, k)
  <2> PICK k \in 0..(Len(s) - 1) : r = ShortlyWritten(w, s, k)
    BY <1>3
  <2> DEFINE q == SubSeq(s, 1, k)
             v == Written(w, q)
  <2>1. q \in Seq(Int) /\ Len(q) = k
    BY <1>t
  <2> HIDE DEF q
  <2>2. v \in Archive /\ v.file = Overlay(w.file, At(w), q) /\ v.hp = At(w) + k
        /\ v.buf = w.buf /\ v.faults = w.faults
    BY <2>1, <1>1
  <2>3. r.ok \in BOOLEAN /\ r.w = [v EXCEPT !.faults = @ + 1]
    BY DEF ShortlyWritten, Done, Thrown, q
  <2> HIDE DEF v
  <2>4. r.w \in Archive /\ r.w.file = v.file /\ r.w.hp = v.hp /\ r.w.buf = v.buf /\ r.w.faults = v.faults + 1
    <3>1. v.faults + 1 \in Nat
      BY <2>2, <1>t
    <3> QED
      BY <2>2, <2>3, <3>1, SetFaults
  <2>5. k \in 0..Len(s)
    BY <1>t
  <2> QED
    BY <2>2, <2>3, <2>4, <2>5, <1>t DEF q
<1> QED
  BY <1>2, <1>3 DEF HandlePut

(***************************************************************************)
(* What it means for the three properties: a file opened to append goes on *)
(* behind what it held; where the descriptor is at the end of the file,    *)
(* bytes stay in order; and a write that does not come up short lays all   *)
(* its bytes over the file.                                                *)
(***************************************************************************)
Grown(w, v) == wmode = "append" => IsPrefix(w.file, v.file)
AtEnd(w) == wmode # "append" => w.hp = Len(w.file)

\* The same in the words of the properties.
LEMMA HandlePutProperties ==
  ASSUME NEW w \in Archive, NEW s \in Seq(Int), NEW r \in HandlePut(w, s)
  PROVE  /\ r.w \in Archive /\ r.ok \in BOOLEAN /\ r.w.buf = w.buf
         /\ w.faults <= r.w.faults
         /\ Grown(w, r.w)
         /\ AtEnd(w) => AtEnd(r.w)
         /\ \A m, h \in Int :
              AtEnd(w) /\ UpTo(w.file, m) /\ Between(s, m, h) /\ m <= h => UpTo(r.w.file, h)
         /\ wmode # "append" /\ r.w.faults = w.faults =>
              r.ok /\ r.w.file = Overlay(w.file, w.hp, s) /\ r.w.hp = w.hp + Len(s)
<1>t. w.file \in Seq(Int) /\ w.hp \in Nat /\ w.buf \in Seq(Int) /\ w.faults \in Nat /\ Len(w.file) \in Nat
  BY DEF Archive
<1>1. PICK k \in 0..Len(s) :
        /\ r.w.file = Overlay(w.file, At(w), SubSeq(s, 1, k))
        /\ r.w.hp = At(w) + k
  BY HandlePutOutcome
<1> DEFINE q == SubSeq(s, 1, k)
<1>2. q \in Seq(Int) /\ Len(q) = k
  OBVIOUS
<1>3. \A m, h \in Int : Between(s, m, h) => Between(q, m, h)
  BY BetweenPrefix
<1> HIDE DEF q
<1>4. At(w) = Len(w.file) => r.w.file = w.file \o q /\ r.w.hp = Len(w.file) + k
  BY <1>1, <1>t, <1>2, OverlayAtEnd DEF q
<1>5. Grown(w, r.w)
  <2>1. wmode = "append" => r.w.file = w.file \o q
    BY <1>4 DEF At
  <2> QED
    BY <2>1, <1>t, <1>2, PrefixOfConcat DEF Grown
<1>6. AtEnd(w) => At(w) = Len(w.file)
  BY DEF AtEnd, At
<1>7. AtEnd(w) => AtEnd(r.w)
  <2>1. Len(w.file \o q) = Len(w.file) + k
    BY <1>2, <1>t, ConcatProperties
  <2> QED
    BY <2>1, <1>4, <1>6 DEF AtEnd
<1>8. ASSUME NEW m \in Int, NEW h \in Int, AtEnd(w), UpTo(w.file, m), Between(s, m, h), m <= h
      PROVE  UpTo(r.w.file, h)
  <2>1. r.w.file = w.file \o q /\ Between(q, m, h)
    BY <1>3, <1>4, <1>6, <1>8
  <2>2. UpTo(w.file \o q, h)
    BY <1>8, <2>1, <1>t, <1>2, UpToConcat
  <2> QED
    BY <2>1, <2>2
<1>9. wmode # "append" => At(w) = w.hp
  BY DEF At
<1> QED
  BY HandlePutOutcome, <1>5, <1>7, <1>8, <1>9
-----------------------------------------------------------------------------
(***************************************************************************)
(* The file with what is buffered laid over it, and bytes in order on the  *)
(* disk and behind it in the buffer.                                       *)
(***************************************************************************)
Content(w) == Overlay(w.file, w.hp, w.buf)
InOrder(w, h) == \E m \in Int : m <= h /\ UpTo(w.file, m) /\ Between(w.buf, m, h)

\* What holds of every outcome r of a call on w.
Outcome(w, r) ==
  /\ r.w \in Archive /\ r.ok \in BOOLEAN
  /\ Len(r.w.buf) <= BufSize
  /\ w.faults <= r.w.faults
  /\ Grown(w, r.w)

\* A file that grew twice has grown.
LEMMA GrownTransitive ==
  ASSUME NEW u \in Archive, NEW v \in Archive, NEW w \in Archive, Grown(u, v), Grown(v, w)
  PROVE  Grown(u, w)
<1>1. u.file \in Seq(Int) /\ v.file \in Seq(Int) /\ w.file \in Seq(Int)
  BY DEF Archive
<1> QED
  BY <1>1, PrefixTransitive DEF Grown

\* No byte is in order wherever it begins.
LEMMA EmptyBetween ==
  ASSUME NEW h \in Int
  PROVE  Between(<< >>, h, h)
BY DEF Between, Increasing

\* With nothing in the buffer the order is that of the file.
LEMMA EmptyInOrder ==
  ASSUME NEW w, NEW h \in Int, w.buf = << >>, UpTo(w.file, h)
  PROVE  InOrder(w, h)
BY EmptyBetween DEF InOrder

(***************************************************************************)
(* flush, and what seek, close and the destructor begin with: the buffer   *)
(* is gone, written or not.                                                *)
(***************************************************************************)
LEMMA ClearCacheOutcome ==
  ASSUME NEW w \in Archive, NEW r \in ClearCache(w)
  PROVE  /\ Outcome(w, r) /\ r.w.buf = << >>
         /\ AtEnd(w) => AtEnd(r.w)
         /\ \A h \in Int : AtEnd(w) /\ InOrder(w, h) => UpTo(r.w.file, h)
         /\ wmode # "append" /\ r.w.faults = w.faults =>
              r.ok /\ r.w.file = Content(w) /\ r.w.hp = Tell(w)
<1>t. w.file \in Seq(Int) /\ w.hp \in Nat /\ w.buf \in Seq(Int) /\ w.faults \in Nat
  BY DEF Archive
<1>b. 0 <= BufSize /\ Len(<< >>) = 0 /\ << >> \in Seq(Int)
  BY WriteClientAssumption DEF WriteSizesAssumption
<1>1. CASE w.buf = << >>
  <2>1. r.w = w /\ r.ok = TRUE
    BY <1>1 DEF ClearCache, Done
  <2>2. Content(w) = w.file /\ Tell(w) = w.hp
    BY <1>1, <1>t, <1>b DEF Content, Overlay, Tell
  <2>3. ASSUME NEW h \in Int, InOrder(w, h) PROVE UpTo(w.file, h)
    <3>1. PICK m \in Int : m <= h /\ UpTo(w.file, m)
      BY <2>3 DEF InOrder
    <3>2. \A i \in 1..Len(w.file) : w.file[i] \in Int
      BY <1>t
    <3> QED
      BY <3>1, <3>2 DEF UpTo
  <2>4. Outcome(w, r)
    <3>1. Len(r.w.buf) <= BufSize
      BY <1>1, <1>b, <2>1
    <3>2. w.faults <= r.w.faults
      BY <1>t, <2>1
    <3>3. Grown(w, r.w)
      BY <2>1, PrefixOfItself DEF Grown
    <3> QED
      BY <2>1, <3>1, <3>2, <3>3 DEF Outcome
  <2> QED
    BY <1>1, <2>1, <2>2, <2>3, <2>4
<1>2. CASE w.buf # << >>
  <2> DEFINE v == [w EXCEPT !.buf = << >>]
  <2>1. v \in Archive /\ v.file = w.file /\ v.hp = w.hp /\ v.buf = << >> /\ v.faults = w.faults
    BY <1>b DEF Archive
  <2>2. r \in HandlePut(v, w.buf)
    BY <1>2 DEF ClearCache
  <2> HIDE DEF v
  <2>3. /\ r.w \in Archive /\ r.ok \in BOOLEAN /\ r.w.buf = << >>
        /\ w.faults <= r.w.faults
        /\ Grown(v, r.w)
        /\ AtEnd(v) => AtEnd(r.w)
        /\ \A m, h \in Int :
             AtEnd(v) /\ UpTo(v.file, m) /\ Between(w.buf, m, h) /\ m <= h => UpTo(r.w.file, h)
        /\ wmode # "append" /\ r.w.faults = w.faults =>
             r.ok /\ r.w.file = Overlay(w.file, w.hp, w.buf) /\ r.w.hp = w.hp + Len(w.buf)
    BY <1>t, <2>1, <2>2, HandlePutProperties
  <2>4. Grown(w, r.w) /\ (AtEnd(v) <=> AtEnd(w))
    BY <2>1, <2>3 DEF Grown, AtEnd
  <2>5. \A h \in Int : AtEnd(w) /\ InOrder(w, h) => UpTo(r.w.file, h)
    BY <2>1, <2>3, <2>4 DEF InOrder
  <2> QED
    BY <1>b, <2>3, <2>4, <2>5 DEF Outcome, Content, Tell
<1> QED
  BY <1>1, <1>2

\* seek writes the buffer and moves the descriptor.
LEMMA SeekToOutcome ==
  ASSUME NEW w \in Archive, NEW p \in Nat, NEW r \in SeekTo(w, p)
  PROVE  /\ Outcome(w, r) /\ r.w.buf = << >>
         /\ \A h \in Int : AtEnd(w) /\ InOrder(w, h) => UpTo(r.w.file, h)
         /\ wmode # "append" /\ r.w.faults = w.faults =>
              r.ok /\ r.w.file = Content(w) /\ r.w.hp = p
<1>1. PICK q \in ClearCache(w) : r = IF q.ok THEN Done([q.w EXCEPT !.hp = p]) ELSE q
  BY DEF SeekTo, AndThen
<1>2. /\ Outcome(w, q) /\ q.w.buf = << >>
      /\ \A h \in Int : AtEnd(w) /\ InOrder(w, h) => UpTo(q.w.file, h)
      /\ wmode # "append" /\ q.w.faults = w.faults => q.ok /\ q.w.file = Content(w)
  BY ClearCacheOutcome
<1>3. CASE q.ok
  <2> DEFINE v == [q.w EXCEPT !.hp = p]
  <2>1. q.w \in Archive
    BY <1>2 DEF Outcome
  <2>2. v \in Archive /\ v.file = q.w.file /\ v.hp = p /\ v.buf = q.w.buf /\ v.faults = q.w.faults
    BY <2>1, SetHp
  <2>3. r.w = v /\ r.ok = TRUE
    BY <1>1, <1>3 DEF Done
  <2> HIDE DEF v
  <2> QED
    BY <1>2, <2>2, <2>3 DEF Outcome, Grown
<1>4. CASE ~q.ok
  BY <1>1, <1>2, <1>4
<1> QED
  BY <1>3, <1>4

\* seekToEnd writes the buffer and moves behind the file.
LEMMA SeekToEndOutcome ==
  ASSUME NEW w \in Archive, NEW r \in SeekToEnd(w)
  PROVE  /\ Outcome(w, r) /\ r.w.buf = << >>
         /\ AtEnd(w) => AtEnd(r.w)
         /\ \A h \in Int : AtEnd(w) /\ InOrder(w, h) => UpTo(r.w.file, h)
         /\ wmode # "append" /\ r.w.faults = w.faults =>
              r.ok /\ r.w.file = Content(w) /\ r.w.hp = Len(r.w.file)
<1>1. PICK q \in ClearCache(w) : r = IF q.ok THEN Done([q.w EXCEPT !.hp = Len(q.w.file)]) ELSE q
  BY DEF SeekToEnd, AndThen
<1>2. /\ Outcome(w, q) /\ q.w.buf = << >>
      /\ AtEnd(w) => AtEnd(q.w)
      /\ \A h \in Int : AtEnd(w) /\ InOrder(w, h) => UpTo(q.w.file, h)
      /\ wmode # "append" /\ q.w.faults = w.faults => q.ok /\ q.w.file = Content(w)
  BY ClearCacheOutcome
<1>3. CASE q.ok
  <2> DEFINE n == Len(q.w.file)
             v == [q.w EXCEPT !.hp = n]
  <2>1. q.w \in Archive /\ n \in Nat
    <3>1. q.w \in Archive
      BY <1>2 DEF Outcome
    <3>2. q.w.file \in Seq(Int)
      BY <3>1 DEF Archive
    <3> QED
      BY <3>1, <3>2
  <2>2. r.w = v /\ r.ok = TRUE
    BY <1>1, <1>3 DEF Done
  <2> HIDE DEF n
  <2>3. v \in Archive /\ v.file = q.w.file /\ v.hp = n /\ v.buf = q.w.buf /\ v.faults = q.w.faults
    BY <2>1, SetHp
  <2> HIDE DEF v
  <2> QED
    BY <1>2, <2>2, <2>3 DEF Outcome, Grown, AtEnd, n
<1>4. CASE ~q.ok
  BY <1>1, <1>2, <1>4
<1> QED
  BY <1>3, <1>4

(***************************************************************************)
(* Appending to the buffer, which both puts do when there is room.         *)
(***************************************************************************)
Buffered(w, s, r) ==
  /\ Outcome(w, r) /\ r.ok
  /\ AtEnd(w) => AtEnd(r.w)
  /\ \A h, g \in Int : InOrder(w, h) /\ Between(s, h, g) /\ h <= g => InOrder(r.w, g)
  /\ Content(r.w) = Overlay(Content(w), Tell(w), s)
  /\ Tell(r.w) = Tell(w) + Len(s)

\* The bytes go behind those in the buffer.
LEMMA BufferedPut ==
  ASSUME NEW w \in Archive, NEW s \in Seq(Int), Len(w.buf) + Len(s) <= BufSize,
         NEW r, r = Done([w EXCEPT !.buf = w.buf \o s])
  PROVE  Buffered(w, s, r)
<1>t. w.file \in Seq(Int) /\ w.hp \in Nat /\ w.buf \in Seq(Int) /\ w.faults \in Nat
  BY DEF Archive
<1> DEFINE t == w.buf \o s
           v == [w EXCEPT !.buf = t]
<1>1. t \in Seq(Int) /\ Len(t) = Len(w.buf) + Len(s)
  BY <1>t, ConcatProperties
<1>2. r.w = v /\ r.ok = TRUE
  BY DEF Done
<1> HIDE DEF t
<1>3. v \in Archive /\ v.file = w.file /\ v.hp = w.hp /\ v.buf = t /\ v.faults = w.faults
  BY <1>1, SetBuf
<1> HIDE DEF v
<1>4. Outcome(w, r)
  <2>1. Grown(w, r.w)
    BY <1>2, <1>3, PrefixOfItself DEF Grown
  <2>2. Len(r.w.buf) <= BufSize
    BY <1>1, <1>2, <1>3
  <2>3. w.faults <= r.w.faults
    BY <1>t, <1>2, <1>3
  <2> QED
    BY <1>2, <1>3, <2>1, <2>2, <2>3 DEF Outcome
<1>5. AtEnd(w) => AtEnd(r.w)
  BY <1>2, <1>3 DEF AtEnd
<1>6. ASSUME NEW h \in Int, NEW g \in Int, InOrder(w, h), Between(s, h, g), h <= g
      PROVE  InOrder(r.w, g)
  <2>1. PICK m \in Int : m <= h /\ UpTo(w.file, m) /\ Between(w.buf, m, h)
    BY <1>6 DEF InOrder
  <2>2. Between(t, m, g)
    BY <1>6, <2>1, <1>t, BetweenConcat DEF t
  <2>3. m <= g
    BY <1>6, <2>1
  <2> QED
    BY <1>2, <1>3, <2>1, <2>2, <2>3 DEF InOrder
<1>7. Overlay(w.file, w.hp, t) = Overlay(Overlay(w.file, w.hp, w.buf), w.hp + Len(w.buf), s)
  BY <1>t, OverlayTwice, SMTT(30) DEF t
<1>8. w.hp + Len(t) = w.hp + Len(w.buf) + Len(s)
  BY <1>1, <1>t
<1> QED
  BY <1>2, <1>3, <1>4, <1>5, <1>6, <1>7, <1>8 DEF Content, Tell, Buffered

\* Three sequences, one behind the other.
Joined(s, t, u) == (s \o t) \o u

\* What a remainder is.
LEMMA ModFacts ==
  ASSUME NEW d \in Nat \ {0}, NEW x \in Nat
  PROVE  x % d \in Nat /\ x % d <= x /\ x % d < d
OBVIOUS

(***************************************************************************)
(* The pieces of a put that does not fit: what fills the buffer, whole     *)
(* buffers, and what is kept.  Put together they are all of it.            *)
(***************************************************************************)
Pieces(b, s, unused, whole) ==
  /\ unused \in Nat /\ whole \in Nat /\ unused + whole <= Len(s)
  /\ Len(s) - (unused + whole) <= BufSize
  /\ SubSeq(s, 1, unused) \in Seq(Int)
  /\ SubSeq(s, unused + 1, unused + whole) \in Seq(Int)
  /\ SubSeq(s, unused + whole + 1, Len(s)) \in Seq(Int)
  /\ Len(SubSeq(s, unused + whole + 1, Len(s))) = Len(s) - (unused + whole)
  /\ whole = 0 => SubSeq(s, unused + 1, unused + whole) = << >>
  /\ Joined(b \o SubSeq(s, 1, unused), SubSeq(s, unused + 1, unused + whole),
            SubSeq(s, unused + whole + 1, Len(s))) = b \o s

\* The pieces, in order and put together.
LEMMA PutPieces ==
  ASSUME NEW b \in Seq(Int), NEW s \in Seq(Int), Len(b) <= BufSize,
         ~(Len(s) <= BufSize - Len(b)),
         NEW unused, unused = BufSize - Len(b),
         NEW rest, rest = Len(s) - unused,
         NEW whole, whole = rest - (rest % BufSize)
  PROVE  Pieces(b, s, unused, whole)
<1>n. BufSize \in Nat \ {0} /\ Len(b) \in Nat /\ Len(s) \in Nat
  BY WriteClientAssumption DEF WriteSizesAssumption
<1>1. unused \in Nat /\ rest \in Nat /\ unused + rest = Len(s)
  BY <1>n
<1>2. rest % BufSize \in Nat /\ rest % BufSize <= rest /\ rest % BufSize < BufSize
  BY <1>1, <1>n, ModFacts
<1>3. whole \in Nat /\ whole <= rest /\ rest - whole <= BufSize
  <2> DEFINE k == rest % BufSize
  <2>1. k \in Nat /\ k <= rest /\ k < BufSize /\ whole = rest - k
    BY <1>2
  <2> HIDE DEF k
  <2> QED
    BY ONLY <1>1, <1>n, <2>1
<1>4. unused + whole \in Nat /\ unused + whole <= Len(s) /\ Len(s) - (unused + whole) <= BufSize
  BY ONLY <1>1, <1>3, <1>n
<1> DEFINE c == unused + whole
           s1 == SubSeq(s, 1, unused)
           s2 == SubSeq(s, unused + 1, c)
           s3 == SubSeq(s, c + 1, Len(s))
<1>5. s1 \in Seq(Int) /\ s2 \in Seq(Int) /\ s3 \in Seq(Int) /\ Len(s3) = Len(s) - c
  <2>1. c \in Nat /\ c <= Len(s) /\ unused <= c
    BY <1>1, <1>3, <1>4
  <2> HIDE DEF c
  <2>2. \A i \in 1..Len(s) : s[i] \in Int
    OBVIOUS
  <2>3. s1 \in Seq(Int)
    BY <1>1, <2>1, <2>2, <1>n, SubSeqProperties
  <2>4. s2 \in Seq(Int)
    BY <1>1, <2>1, <2>2, <1>n, SubSeqProperties
  <2>5. s3 \in Seq(Int) /\ Len(s3) = Len(s) - c
    BY <1>1, <2>1, <2>2, <1>n, SubSeqProperties
  <2> QED
    BY <2>3, <2>4, <2>5
<1>6. whole = 0 => s2 = << >>
  <2>1. whole = 0 => c < unused + 1
    BY ONLY <1>1 DEF c
  <2>2. c \in Int /\ unused + 1 \in Int
    BY ONLY <1>1, <1>3 DEF c
  <2> QED
    BY <2>1, <2>2, SubSeqEmpty
<1>7. s1 \o s2 = SubSeq(s, 1, c)
  <2>1. unused \in 0..Len(s) /\ c \in unused..Len(s) /\ 1 \in 1..(Len(s) + 1)
    BY ONLY <1>n, <1>1, <1>3, <1>4 DEF c
  <2>2. unused \in (1 - 1)..Len(s)
    BY <2>1
  <2> QED
    BY <2>1, <2>2, ConcatAdjacentSubSeq
<1>8. SubSeq(s, 1, c) \o s3 = s
  <2>1. c \in 0..Len(s) /\ Len(s) \in c..Len(s) /\ 1 \in 1..(Len(s) + 1)
    BY <1>n, <1>4
  <2>2. c \in (1 - 1)..Len(s)
    BY <2>1
  <2> HIDE DEF c
  <2>3. SubSeq(s, 1, c) \o SubSeq(s, c + 1, Len(s)) = SubSeq(s, 1, Len(s))
    BY <2>1, <2>2, ConcatAdjacentSubSeq
  <2>4. SubSeq(s, 1, Len(s)) = s
    BY SubSeqFull
  <2> QED
    BY <2>3, <2>4
<1> HIDE DEF s1, s2, s3, c
<1>9. ((b \o s1) \o s2) \o s3 = b \o s
  <2>1. s1 \in Seq(Int) /\ s2 \in Seq(Int) /\ s3 \in Seq(Int) /\ b \in Seq(Int)
    BY <1>5
  <2>2. s1 \o s2 \in Seq(Int) /\ b \o s1 \in Seq(Int)
    BY <2>1, ConcatProperties
  <2>3. (b \o s1) \o s2 = b \o (s1 \o s2)
    BY ONLY <2>1
  <2> DEFINE s12 == s1 \o s2
  <2>4. s12 \in Seq(Int)
    BY <2>2
  <2> HIDE DEF s12
  <2>5. (b \o s12) \o s3 = b \o (s12 \o s3)
    BY ONLY <2>1, <2>4, SMTT(30)
  <2> QED
    BY <2>3, <2>5, <1>7, <1>8 DEF s12
<1> QED
  BY <1>1, <1>3, <1>4, <1>5, <1>6, <1>9 DEF s1, s2, s3, c, Joined, Pieces

(***************************************************************************)
(* All a write does to an archive, or no write at all.                     *)
(***************************************************************************)
PutOutcome(w, s, r) ==
  /\ r.w \in Archive /\ r.ok \in BOOLEAN /\ r.w.buf = w.buf
  /\ w.faults <= r.w.faults
  /\ Grown(w, r.w)
  /\ AtEnd(w) => AtEnd(r.w)
  /\ \A m, h \in Int :
       AtEnd(w) /\ UpTo(w.file, m) /\ Between(s, m, h) /\ m <= h => UpTo(r.w.file, h)
  /\ wmode # "append" /\ r.w.faults = w.faults =>
       r.ok /\ r.w.file = Overlay(w.file, w.hp, s) /\ r.w.hp = w.hp + Len(s)

\* A write of nothing that is not made.
LEMMA NoPutOutcome ==
  ASSUME NEW w \in Archive
  PROVE  PutOutcome(w, << >>, Done(w))
<1>t. w.file \in Seq(Int) /\ w.hp \in Nat /\ w.faults \in Nat
  BY DEF Archive
<1>1. Done(w).w = w /\ Done(w).ok = TRUE
  BY DEF Done
<1>2. Overlay(w.file, w.hp, << >>) = w.file /\ w.hp + Len(<< >>) = w.hp
  BY <1>t DEF Overlay
<1>3. ASSUME NEW m \in Int, NEW h \in Int, UpTo(w.file, m), m <= h PROVE UpTo(w.file, h)
  <2>1. \A i \in 1..Len(w.file) : w.file[i] \in Int
    BY <1>t
  <2> QED
    BY <1>3, <2>1 DEF UpTo
<1>4. Grown(w, w)
  BY PrefixOfItself DEF Grown
<1>5. w.faults <= w.faults
  BY <1>t
<1> HIDE DEF Done
<1> QED
  BY <1>1, <1>2, <1>3, <1>4, <1>5 DEF PutOutcome

\* Three sequences laid behind one another are the three joined.
LaidAsOne(f, p, s, t, u) ==
  /\ Overlay(Overlay(Overlay(f, p, s), p + Len(s), t), p + Len(s) + Len(t), u)
       = Overlay(f, p, Joined(s, t, u))
  /\ p + Len(s) + Len(t) + Len(u) = p + Len(Joined(s, t, u))

\* The same of the three pieces of a put.
LEMMA OverlayThrice ==
  ASSUME NEW f \in Seq(Int), NEW p \in Nat, NEW s \in Seq(Int), NEW t \in Seq(Int), NEW u \in Seq(Int)
  PROVE  LaidAsOne(f, p, s, t, u)
<1> DEFINE st == s \o t
<1>1. st \in Seq(Int) /\ Len(st) = Len(s) + Len(t) /\ Len(s) \in Nat /\ Len(t) \in Nat /\ Len(u) \in Nat
  BY ConcatProperties
<1>2. Overlay(Overlay(f, p, s), p + Len(s), t) = Overlay(f, p, st)
  BY OverlayTwice
<1> HIDE DEF st
<1>3. p + Len(s) + Len(t) = p + Len(st)
  BY <1>1
<1>4. Overlay(Overlay(f, p, st), p + Len(st), u) = Overlay(f, p, st \o u)
  <2>1. st \in Seq(Int)
    BY <1>1
  <2> QED
    BY ONLY <2>1, OverlayTwice
<1>5. Len(st \o u) = Len(st) + Len(u)
  BY <1>1, ConcatProperties
<1>6. p + Len(st) + Len(u) = p + Len(st \o u)
  BY <1>1, <1>5
<1> QED
  BY <1>2, <1>3, <1>4, <1>6 DEF st, Joined, LaidAsOne

(***************************************************************************)
(* What a put of s must do, as far as the three properties go: the file    *)
(* may only grow in append mode; numbers in order stay in order if the put *)
(* returns; and s lands at the client's position if no write comes up      *)
(* short.                                                                  *)
(***************************************************************************)
PutAll(w, s, r) ==
  /\ Outcome(w, r)
  /\ AtEnd(w) => AtEnd(r.w)
  /\ \A a \in Int, n \in Nat :
       s = Run(a, n) /\ AtEnd(w) /\ InOrder(w, a) /\ r.ok => InOrder(r.w, a + n)
  /\ wmode # "append" /\ r.w.faults = w.faults =>
       /\ r.ok
       /\ Content(r.w) = Overlay(Content(w), Tell(w), s)
       /\ Tell(r.w) = Tell(w) + Len(s)

\* A put that fills the buffer, writes it and the whole buffers behind it,
\* and keeps the rest; any of the three writes may come up short.
LEMMA PutThroughOutcome ==
  ASSUME NEW w \in Archive, Len(w.buf) <= BufSize, NEW s \in Seq(Int),
         ~(Len(s) <= BufSize - Len(w.buf)), NEW r \in PutThrough(w, s)
  PROVE  PutAll(w, s, r)
<1>t. w.file \in Seq(Int) /\ w.hp \in Nat /\ w.buf \in Seq(Int) /\ w.faults \in Nat
  BY DEF Archive
<1> DEFINE unused == BufSize - Len(w.buf)
           rest == Len(s) - unused
           whole == rest - (rest % BufSize)
           s1 == SubSeq(s, 1, unused)
           filled == w.buf \o s1
           direct == SubSeq(s, unused + 1, unused + whole)
           kept == SubSeq(s, unused + whole + 1, Len(s))
<1>1. PICK r1 \in HandlePut(w, filled) :
        IF r1.ok
        THEN \E r2 \in IF whole = 0 THEN {Done(r1.w)} ELSE HandlePut(r1.w, direct) :
               IF r2.ok THEN r = Done([r2.w EXCEPT !.buf = kept]) ELSE r = r2
        ELSE r = r1
  <2> DEFINE Kept(u) == {Done([u EXCEPT !.buf = kept])}
             Direct(v) == AndThen(IF whole = 0 THEN {Done(v)} ELSE HandlePut(v, direct), LAMBDA u : Kept(u))
  <2>1. r \in AndThen(HandlePut(w, filled), LAMBDA v : Direct(v))
    BY DEF PutThrough
  <2> HIDE DEF Direct
  <2>2. PICK r1 \in HandlePut(w, filled) : IF r1.ok THEN r \in Direct(r1.w) ELSE r = r1
    BY <2>1 DEF AndThen
  <2>3. ASSUME r \in Direct(r1.w)
        PROVE  \E r2 \in IF whole = 0 THEN {Done(r1.w)} ELSE HandlePut(r1.w, direct) :
                 IF r2.ok THEN r = Done([r2.w EXCEPT !.buf = kept]) ELSE r = r2
    <3> HIDE DEF Kept, whole, direct, kept
    <3>1. \E r2 \in IF whole = 0 THEN {Done(r1.w)} ELSE HandlePut(r1.w, direct) :
            IF r2.ok THEN r \in Kept(r2.w) ELSE r = r2
      BY <2>3 DEF Direct, AndThen
    <3> QED
      BY <3>1 DEF Kept
  <2> HIDE DEF whole, direct, kept, filled
  <2> QED
    BY <2>2, <2>3
<1>2. /\ unused \in Nat /\ whole \in Nat /\ unused + whole <= Len(s)
      /\ Len(s) - (unused + whole) <= BufSize
      /\ s1 \in Seq(Int) /\ direct \in Seq(Int) /\ kept \in Seq(Int)
      /\ Len(kept) = Len(s) - (unused + whole)
      /\ whole = 0 => direct = << >>
      /\ Joined(filled, direct, kept) = w.buf \o s
  <2>1. unused = BufSize - Len(w.buf) /\ rest = Len(s) - unused /\ whole = rest - (rest % BufSize)
    OBVIOUS
  <2> HIDE DEF unused, rest, whole
  <2>2. w.buf \in Seq(Int) /\ ~(Len(s) <= BufSize - Len(w.buf)) /\ Len(w.buf) <= BufSize
    BY <1>t
  <2> DEFINE b == w.buf
  <2>3. b \in Seq(Int) /\ ~(Len(s) <= BufSize - Len(b)) /\ Len(b) <= BufSize /\ unused = BufSize - Len(b)
    BY <2>1, <2>2
  <2> HIDE DEF b
  <2>4. Pieces(b, s, unused, whole)
    BY ONLY <2>1, <2>3, s \in Seq(Int), PutPieces
  <2> QED
    BY <2>4 DEF b, Pieces, s1, direct, kept, filled
<1>3. \A a \in Int, n \in Nat : s = Run(a, n) =>
        /\ Len(s) = n
        /\ Between(s1, a, a + unused)
        /\ Between(direct, a + unused, a + unused + whole)
        /\ Between(kept, a + unused + whole, a + n)
  <2> HIDE DEF unused, whole
  <2> TAKE a \in Int, n \in Nat
  <2> HAVE s = Run(a, n)
  <2>1. Len(s) = n /\ unused \in Nat /\ whole \in Nat /\ unused + whole <= n
    <3>1. 1 \in 1..(n + 1) /\ n \in (1 - 1)..n
      OBVIOUS
    <3> QED
      BY <3>1, <1>2, RunPart
  <2>2. 1 \in 1..(n + 1) /\ unused \in (1 - 1)..n /\ a + 1 - 1 = a
    BY <2>1
  <2>3. Between(s1, a, a + unused)
    BY <2>2, RunPart
  <2>4. /\ unused + 1 \in 1..(n + 1) /\ unused + whole \in ((unused + 1) - 1)..n
        /\ a + (unused + 1) - 1 = a + unused /\ a + (unused + whole) = a + unused + whole
    BY <2>1
  <2>5. Between(SubSeq(s, unused + 1, unused + whole), a + (unused + 1) - 1, a + (unused + whole))
    BY ONLY <2>4, s = Run(a, n), a \in Int, n \in Nat, RunPart
  <2>6. /\ unused + whole + 1 \in 1..(n + 1) /\ n \in ((unused + whole + 1) - 1)..n
        /\ a + (unused + whole + 1) - 1 = a + unused + whole
    BY <2>1
  <2>7. Between(SubSeq(s, unused + whole + 1, n), a + (unused + whole + 1) - 1, a + n)
    BY ONLY <2>6, s = Run(a, n), a \in Int, n \in Nat, RunPart
  <2> QED
    BY <2>1, <2>3, <2>4, <2>5, <2>6, <2>7
<1>4. filled \in Seq(Int) /\ Len(filled) = Len(w.buf) + Len(s1)
  BY <1>t, <1>2, ConcatProperties
<1> HIDE DEF unused, rest, whole, s1, direct, kept
<1>n. unused \in Nat /\ whole \in Nat /\ unused + whole <= Len(s) /\ Len(s) \in Nat
  BY <1>2
<1>q. s1 \in Seq(Int) /\ direct \in Seq(Int) /\ kept \in Seq(Int)
  BY <1>2
<1>k. Len(kept) <= BufSize /\ (whole = 0 => direct = << >>) /\ Joined(filled, direct, kept) = w.buf \o s
  BY <1>2
<1> HIDE DEF filled
<1>5. PutOutcome(w, filled, r1)
  BY <1>4, HandlePutProperties DEF PutOutcome
<1>6. /\ r1.w \in Archive /\ r1.w.file \in Seq(Int) /\ r1.w.hp \in Nat /\ r1.w.faults \in Nat
      /\ r1.ok \in BOOLEAN
  BY <1>5 DEF PutOutcome, Archive
<1>7. CASE ~r1.ok
  <2>1. r = r1
    BY <1>1, <1>7
  <2>2. Outcome(w, r)
    BY <1>5, <2>1 DEF PutOutcome, Outcome
  <2> QED
    BY <1>5, <1>7, <2>1, <2>2 DEF PutOutcome, PutAll
<1>8. CASE r1.ok
  <2>1. PICK r2 \in IF whole = 0 THEN {Done(r1.w)} ELSE HandlePut(r1.w, direct) :
          IF r2.ok THEN r = Done([r2.w EXCEPT !.buf = kept]) ELSE r = r2
    BY <1>1, <1>8
  <2>2. PutOutcome(r1.w, direct, r2)
    <3>1. CASE whole = 0
      BY <2>1, <3>1, <1>k, <1>6, NoPutOutcome
    <3>2. CASE whole # 0
      BY <2>1, <3>2, <1>q, <1>6, HandlePutProperties DEF PutOutcome
    <3> QED
      BY <3>1, <3>2
  <2>3. /\ r2.w \in Archive /\ r2.w.file \in Seq(Int) /\ r2.w.hp \in Nat /\ r2.w.faults \in Nat
        /\ r2.ok \in BOOLEAN
    BY <2>2 DEF PutOutcome, Archive
  <2>4. /\ w.faults <= r1.w.faults /\ r1.w.faults <= r2.w.faults
        /\ r1.w.buf = w.buf /\ r2.w.buf = w.buf
        /\ (AtEnd(w) => AtEnd(r1.w)) /\ (AtEnd(r1.w) => AtEnd(r2.w))
    BY <1>5, <2>2 DEF PutOutcome
  <2>5. Grown(w, r2.w)
    BY <1>5, <1>6, <2>2, <2>3, GrownTransitive DEF PutOutcome
  <2>6. w.faults <= r2.w.faults /\ (r2.w.faults = w.faults => r1.w.faults = w.faults)
    BY <1>t, <1>6, <2>3, <2>4
  <2>7. wmode # "append" /\ r2.w.faults = w.faults =>
          /\ r2.ok
          /\ r1.w.file = Overlay(w.file, w.hp, filled) /\ r1.w.hp = w.hp + Len(filled)
          /\ r2.w.file = Overlay(r1.w.file, r1.w.hp, direct) /\ r2.w.hp = r1.w.hp + Len(direct)
    BY <2>2, <2>6, <1>5 DEF PutOutcome
  <2>8. CASE ~r2.ok
    <3>1. r = r2
      BY <2>1, <2>8
    <3>2. Outcome(w, r)
      BY <2>3, <2>4, <2>5, <2>6, <3>1 DEF Outcome
    <3> QED
      BY <2>4, <2>7, <2>8, <3>1, <3>2 DEF PutAll
  <2>9. CASE r2.ok
    <3> DEFINE v == [r2.w EXCEPT !.buf = kept]
    <3>1. r.w = v /\ r.ok = TRUE
      BY <2>1, <2>9 DEF Done
    <3>2. v \in Archive /\ v.file = r2.w.file /\ v.hp = r2.w.hp /\ v.buf = kept /\ v.faults = r2.w.faults
      <4>1. r2.w \in Archive /\ kept \in Seq(Int)
        BY <2>3, <1>q
      <4> QED
        BY ONLY <4>1, SetBuf DEF v
    <3> HIDE DEF v
    <3>3. Outcome(w, r)
      <4>1. Len(r.w.buf) <= BufSize
        BY <3>1, <3>2, <1>k
      <4> QED
        BY <3>1, <3>2, <4>1, <2>5, <2>6 DEF Outcome, Grown
    <3>4. AtEnd(w) => AtEnd(r.w)
      BY <3>1, <3>2, <2>4 DEF AtEnd
    <3>5. ASSUME NEW a \in Int, NEW n \in Nat, s = Run(a, n), AtEnd(w), InOrder(w, a)
          PROVE  InOrder(r.w, a + n)
      <4>1. PICK m \in Int : m <= a /\ UpTo(w.file, m) /\ Between(w.buf, m, a)
        BY <3>5 DEF InOrder
      <4>2. /\ Len(s) = n
            /\ Between(s1, a, a + unused)
            /\ Between(direct, a + unused, a + unused + whole)
            /\ Between(kept, a + unused + whole, a + n)
        BY <3>5, <1>3
      <4>3. /\ a + unused \in Int /\ a + unused + whole \in Int /\ a <= a + unused /\ m <= a + unused
            /\ a + unused <= a + unused + whole /\ a + unused + whole <= a + n
        BY <1>n, <4>1, <4>2
      <4>4. Between(filled, m, a + unused)
        BY <1>t, <1>q, <4>1, <4>2, <4>3, BetweenConcat DEF filled
      <4>5. UpTo(r1.w.file, a + unused)
        BY <1>5, <3>5, <4>1, <4>3, <4>4 DEF PutOutcome
      <4>6. UpTo(r2.w.file, a + unused + whole)
        BY <2>2, <2>4, <3>5, <4>2, <4>3, <4>5 DEF PutOutcome
      <4> QED
        BY <3>1, <3>2, <4>2, <4>3, <4>6 DEF InOrder
    <3>6. ASSUME wmode # "append", r.w.faults = w.faults
          PROVE  /\ Content(r.w) = Overlay(Content(w), Tell(w), s)
                 /\ Tell(r.w) = Tell(w) + Len(s)
      <4>1. /\ r1.w.file = Overlay(w.file, w.hp, filled) /\ r1.w.hp = w.hp + Len(filled)
            /\ r2.w.file = Overlay(r1.w.file, r1.w.hp, direct) /\ r2.w.hp = r1.w.hp + Len(direct)
        BY <3>6, <3>1, <3>2, <2>7
      <4>2. /\ r2.w.file = Overlay(Overlay(w.file, w.hp, filled), w.hp + Len(filled), direct)
            /\ r2.w.hp = w.hp + Len(filled) + Len(direct)
        BY <4>1
      <4>3. /\ Content(r.w) = Overlay(r2.w.file, r2.w.hp, kept)
            /\ Tell(r.w) = r2.w.hp + Len(kept)
        BY <3>1, <3>2 DEF Content, Tell
      <4>4. filled \in Seq(Int) /\ direct \in Seq(Int) /\ kept \in Seq(Int) /\ w.file \in Seq(Int) /\ w.hp \in Nat
        BY <1>4, <1>q, <1>t
      <4>5. /\ Content(r.w) = Overlay(w.file, w.hp, Joined(filled, direct, kept))
            /\ Tell(r.w) = w.hp + Len(Joined(filled, direct, kept))
        <5> DEFINE f == w.file
                   p == w.hp
        <5>1. f \in Seq(Int) /\ p \in Nat
          BY <4>4
        <5> HIDE DEF f, p
        <5>2. LaidAsOne(f, p, filled, direct, kept)
          BY ONLY <5>1, <4>4, OverlayThrice
        <5> QED
          BY <5>2, <4>2, <4>3 DEF f, p, LaidAsOne
      <4>6. Overlay(Content(w), Tell(w), s) = Overlay(w.file, w.hp, w.buf \o s)
        BY <1>t, OverlayTwice DEF Content, Tell
      <4>8. Len(w.buf \o s) = Len(w.buf) + Len(s)
        BY <1>t, ConcatProperties
      <4> QED
        BY <1>k, <1>t, <1>n, <4>5, <4>6, <4>8 DEF Tell
    <3> QED
      BY <3>1, <3>3, <3>4, <3>5, <3>6 DEF PutAll
  <2> QED
    BY <2>3, <2>8, <2>9
<1> QED
  <2>1. CASE r1.ok
    BY <1>8, <2>1 DEF PutAll
  <2>2. CASE ~r1.ok
    BY <1>7, <2>2 DEF PutAll
  <2> QED
    BY <2>1, <2>2

\* The next n numbers.
LEMMA RunType ==
  ASSUME NEW a \in Int, NEW n \in Nat
  PROVE  Run(a, n) \in Seq(Int) /\ Len(Run(a, n)) = n /\ Between(Run(a, n), a, a + n)
<1>1. \A i \in 1..n : a + i - 1 \in Int
  OBVIOUS
<1>2. Run(a, n) \in Seq(Int) /\ Len(Run(a, n)) = n
  BY <1>1 DEF Run
<1>3. 1 \in 1..(n + 1) /\ n \in (1 - 1)..n /\ a + 1 - 1 = a
  OBVIOUS
<1>4. Between(SubSeq(Run(a, n), 1, n), a, a + n)
  BY <1>3, RunPart
<1>5. SubSeq(Run(a, n), 1, n) = Run(a, n)
  BY <1>2, SubSeqFull
<1> QED
  BY <1>2, <1>4, <1>5

\* put of bytes, into the buffer or through it.
LEMMA PutBytesOutcome ==
  ASSUME NEW w \in Archive, Len(w.buf) <= BufSize, NEW s \in Seq(Int), NEW r \in PutBytes(w, s)
  PROVE  PutAll(w, s, r)
<1>t. Len(w.buf) \in Nat /\ Len(s) \in Nat /\ BufSize \in Nat
  BY WriteClientAssumption DEF WriteSizesAssumption, Archive
<1>1. CASE Len(s) <= BufSize - Len(w.buf)
  <2>1. r = Done([w EXCEPT !.buf = w.buf \o s])
    BY <1>1 DEF PutBytes
  <2>2. Len(w.buf) + Len(s) <= BufSize
    BY <1>t, <1>1
  <2>b. Buffered(w, s, r)
    BY <2>1, <2>2, BufferedPut
  <2>3. \A h, g \in Int : InOrder(w, h) /\ Between(s, h, g) /\ h <= g => InOrder(r.w, g)
    BY <2>b DEF Buffered
  <2>4. ASSUME NEW a \in Int, NEW n \in Nat, s = Run(a, n), InOrder(w, a) PROVE InOrder(r.w, a + n)
    <3>1. a + n \in Int /\ a <= a + n
      OBVIOUS
    <3> QED
      BY <2>3, <2>4, <3>1, RunType
  <2> QED
    BY <2>b, <2>4 DEF PutAll, Buffered
<1>2. CASE ~(Len(s) <= BufSize - Len(w.buf))
  <2>1. r \in PutThrough(w, s)
    BY <1>2 DEF PutBytes
  <2> QED
    BY <1>2, <2>1, PutThroughOutcome
<1> QED
  BY <1>1, <1>2

\* put of one byte, which writes a full buffer first.
LEMMA PutCharOutcome ==
  ASSUME NEW w \in Archive, Len(w.buf) <= BufSize, NEW b \in Int, NEW r \in PutChar(w, b)
  PROVE  PutAll(w, <<b>>, r)
<1>t. w.file \in Seq(Int) /\ w.hp \in Nat /\ w.buf \in Seq(Int) /\ w.faults \in Nat
  BY DEF Archive
<1>n. Len(w.buf) \in Nat /\ <<b>> \in Seq(Int) /\ Len(<<b>>) = 1 /\ BufSize \in Nat \ {0}
  BY <1>t, WriteClientAssumption DEF WriteSizesAssumption
<1>1. CASE Len(w.buf) < BufSize
  <2>1. Append(w.buf, b) = w.buf \o <<b>>
    BY <1>t, AppendIsConcat
  <2>2. r = Done([w EXCEPT !.buf = w.buf \o <<b>>])
    BY <1>1, <2>1 DEF PutChar
  <2>3. Len(<<b>>) <= BufSize - Len(w.buf)
    BY <1>1, <1>n
  <2>4. r \in PutBytes(w, <<b>>)
    BY <2>2, <2>3 DEF PutBytes
  <2> QED
    BY <1>n, <2>4, PutBytesOutcome
<1>2. CASE ~(Len(w.buf) < BufSize)
  <2> DEFINE kept == <<b>>
  <2>1. PICK q \in HandlePut(w, w.buf) : r = IF q.ok THEN Done([q.w EXCEPT !.buf = kept]) ELSE q
    BY <1>2 DEF PutChar, AndThen
  <2>2. PutOutcome(w, w.buf, q)
    BY <1>t, HandlePutProperties DEF PutOutcome
  <2>3. q.w \in Archive /\ q.ok \in BOOLEAN /\ q.w.buf = w.buf /\ kept \in Seq(Int) /\ Len(kept) = 1
    BY <2>2, <1>n DEF PutOutcome
  <2> HIDE DEF kept
  <2>4. CASE ~q.ok
    <3>1. r = q
      BY <2>1, <2>4
    <3> QED
      BY <2>2, <2>3, <2>4, <3>1 DEF PutOutcome, PutAll, Outcome
  <2>5. CASE q.ok
    <3> DEFINE v == [q.w EXCEPT !.buf = kept]
    <3>1. r.w = v /\ r.ok = TRUE
      BY <2>1, <2>5 DEF Done
    <3>2. v \in Archive /\ v.file = q.w.file /\ v.hp = q.w.hp /\ v.buf = kept /\ v.faults = q.w.faults
      BY <2>3, SetBuf
    <3> HIDE DEF v
    <3>3. Outcome(w, r)
      <4>1. Len(r.w.buf) <= BufSize
        BY <3>1, <3>2, <2>3, <1>n
      <4> QED
        BY <3>1, <3>2, <4>1, <2>2 DEF PutOutcome, Outcome, Grown
    <3>4. AtEnd(w) => AtEnd(r.w)
      BY <3>1, <3>2, <2>2 DEF AtEnd, PutOutcome
    <3>5. ASSUME NEW a \in Int, NEW n \in Nat, kept = Run(a, n), AtEnd(w), InOrder(w, a)
          PROVE  InOrder(r.w, a + n)
      <4>1. PICK m \in Int : m <= a /\ UpTo(w.file, m) /\ Between(w.buf, m, a)
        BY <3>5 DEF InOrder
      <4>2. UpTo(q.w.file, a)
        BY <2>2, <3>5, <4>1 DEF PutOutcome
      <4>3. Between(kept, a, a + n) /\ a <= a + n
        BY <3>5, RunType
      <4> QED
        BY <3>1, <3>2, <4>2, <4>3 DEF InOrder
    <3>6. ASSUME wmode # "append", r.w.faults = w.faults
          PROVE  /\ Content(r.w) = Overlay(Content(w), Tell(w), kept)
                 /\ Tell(r.w) = Tell(w) + Len(kept)
      BY <2>2, <3>1, <3>2, <3>6 DEF PutOutcome, Content, Tell
    <3> QED
      BY <3>1, <3>3, <3>4, <3>5, <3>6 DEF PutAll, kept
  <2> QED
    BY <2>3, <2>4, <2>5
<1> QED
  BY <1>1, <1>2

(***************************************************************************)
(* reput of s, offset bytes back, where offset bytes have been put and s   *)
(* is not longer than that.                                                *)
(***************************************************************************)
LEMMA ReputBytesOutcome ==
  ASSUME NEW w \in Archive, Len(w.buf) <= BufSize, NEW s \in Seq(Int),
         NEW back \in Nat, Len(s) <= back, back <= Tell(w),
         NEW r \in ReputBytes(w, back, s)
  PROVE  /\ Outcome(w, r)
         /\ wmode # "append" /\ r.w.faults = w.faults =>
              /\ r.ok
              /\ Content(r.w) = Overlay(Content(w), Tell(w) - back, s)
              /\ Tell(r.w) = Tell(w)
<1>t. w.file \in Seq(Int) /\ w.hp \in Nat /\ w.buf \in Seq(Int) /\ w.faults \in Nat
  BY DEF Archive
<1>n. Len(w.buf) \in Nat /\ Len(s) \in Nat /\ Tell(w) \in Nat /\ Tell(w) - back \in Nat
  BY <1>t, SMTT(30) DEF Tell
<1>1. CASE back <= Len(w.buf)
  <2> DEFINE k == Len(w.buf) - back
             b == w.buf
             f == w.file
             p == w.hp
             x == Overlay(b, k, s)
             v == [w EXCEPT !.buf = x]
  <2>1. k \in Nat /\ k + Len(s) <= Len(b) /\ b \in Seq(Int) /\ f \in Seq(Int) /\ p \in Nat
    BY <1>1, <1>n, <1>t
  <2>2. r.w = v /\ r.ok = TRUE
    BY <1>1 DEF ReputBytes, Done
  <2>p. p + k = Tell(w) - back
    BY <1>t, <1>n DEF Tell
  <2>c. Content(w) = Overlay(f, p, b)
    BY DEF Content
  <2> HIDE DEF k, b, f, p
  <2>3. x \in Seq(Int)
    BY <2>1, OverlayType
  <2>4. Len(x) = Len(b) /\ Overlay(f, p, x) = Overlay(Overlay(f, p, b), p + k, s)
    BY ONLY <2>1, s \in Seq(Int), OverlayWithin DEF x
  <2> HIDE DEF x
  <2>5. v \in Archive /\ v.file = w.file /\ v.hp = w.hp /\ v.buf = x /\ v.faults = w.faults
    BY <2>3, SetBuf
  <2> HIDE DEF v
  <2>6. Grown(w, r.w)
    BY <2>2, <2>5, PrefixOfItself DEF Grown
  <2>7. w.faults <= r.w.faults /\ Len(r.w.buf) <= BufSize
    BY <1>t, <2>2, <2>4, <2>5 DEF b
  <2>8. Content(r.w) = Overlay(f, p, x)
    BY <2>2, <2>5 DEF Content, f, p
  <2>9. Tell(r.w) = Tell(w)
    BY <2>2, <2>4, <2>5 DEF Tell, b
  <2> QED
    BY <2>2, <2>5, <2>6, <2>7, <2>8, <2>4, <2>9, <2>p, <2>c DEF Outcome
<1>2. CASE ~(back <= Len(w.buf))
  <2> DEFINE At0 == Tell(w) - back
             Back(u) == SeekTo(u, Tell(w))
             Over(v) == AndThen(PutBytes(v, s), LAMBDA u : Back(u))
  <2>1. r \in AndThen(SeekTo(w, At0), LAMBDA v : Over(v))
    BY <1>2 DEF ReputBytes
  <2> HIDE DEF Over
  <2>2. PICK r1 \in SeekTo(w, At0) : IF r1.ok THEN r \in Over(r1.w) ELSE r = r1
    BY <2>1 DEF AndThen
  <2>3. At0 \in Nat
    BY <1>n
  <2> HIDE DEF At0
  <2>4. /\ Outcome(w, r1) /\ r1.w.buf = << >>
        /\ wmode # "append" /\ r1.w.faults = w.faults =>
             r1.ok /\ r1.w.file = Content(w) /\ r1.w.hp = At0
    BY <2>2, <2>3, SeekToOutcome
  <2>5. CASE ~r1.ok
    BY <2>2, <2>4, <2>5
  <2>6. CASE r1.ok
    <3> HIDE DEF Back
    <3>1. PICK r2 \in PutBytes(r1.w, s) : IF r2.ok THEN r \in Back(r2.w) ELSE r = r2
      BY <2>2, <2>6 DEF Over, AndThen
    <3>t. r1.w \in Archive /\ Len(r1.w.buf) <= BufSize
      BY <2>4 DEF Outcome
    <3>2. PutAll(r1.w, s, r2)
      BY <3>1, <3>t, PutBytesOutcome
    <3>3. r2.w \in Archive /\ r2.ok \in BOOLEAN /\ Grown(r1.w, r2.w) /\ r1.w.faults <= r2.w.faults
          /\ Len(r2.w.buf) <= BufSize
      BY <3>2 DEF PutAll, Outcome
    <3>4. Grown(w, r2.w)
      BY <2>4, <3>t, <3>3, GrownTransitive DEF Outcome
    <3>5. r1.w.faults \in Nat /\ r2.w.faults \in Nat /\ w.faults <= r1.w.faults
      BY <2>4, <3>t, <3>3 DEF Outcome, Archive
    <3>6. CASE ~r2.ok
      <4>1. r = r2
        BY <3>1, <3>6
      <4>2. r2.w.faults # r1.w.faults \/ wmode = "append"
        BY <3>2, <3>6 DEF PutAll
      <4>3. w.faults <= r2.w.faults /\ (r2.w.faults = w.faults => r2.w.faults = r1.w.faults)
        BY <1>t, <3>3, <3>5
      <4> QED
        BY <3>3, <3>4, <4>1, <4>2, <4>3 DEF Outcome
    <3>7. CASE r2.ok
      <4>1. r \in SeekTo(r2.w, Tell(w))
        BY <3>1, <3>7 DEF Back
      <4>2. /\ Outcome(r2.w, r) /\ r.w.buf = << >>
            /\ wmode # "append" /\ r.w.faults = r2.w.faults =>
                 r.ok /\ r.w.file = Content(r2.w) /\ r.w.hp = Tell(w)
        BY <4>1, <3>3, <1>n, SeekToOutcome
      <4>3. r.w \in Archive /\ r.w.faults \in Nat /\ r2.w.faults <= r.w.faults
            /\ r.w.file \in Seq(Int) /\ r.w.hp \in Nat
        BY <4>2 DEF Outcome, Archive
      <4>4. Grown(w, r.w)
        BY <4>2, <4>3, <3>3, <3>4, GrownTransitive DEF Outcome
      <4>5. /\ w.faults <= r.w.faults
            /\ r.w.faults = w.faults => r.w.faults = r2.w.faults /\ r2.w.faults = r1.w.faults
                                       /\ r1.w.faults = w.faults
        BY <1>t, <3>3, <3>5, <4>3, SMTT(30)
      <4>6. ASSUME wmode # "append", r.w.faults = w.faults
            PROVE  r.ok /\ Content(r.w) = Overlay(Content(w), At0, s) /\ Tell(r.w) = Tell(w)
        <5>1. r.ok /\ r.w.file = Content(r2.w) /\ r.w.hp = Tell(w)
          BY <4>2, <4>5, <4>6
        <5>2. Content(r2.w) = Overlay(Content(r1.w), Tell(r1.w), s)
          BY <3>2, <4>5, <4>6 DEF PutAll
        <5>3. r1.w.file = Content(w) /\ r1.w.hp = At0
          BY <2>4, <4>5, <4>6
        <5>4. Content(r1.w) = r1.w.file /\ Tell(r1.w) = r1.w.hp
          BY <2>4, <2>3, <5>3 DEF Content, Overlay, Tell
        <5>5. Content(r.w) = r.w.file /\ Tell(r.w) = r.w.hp
          BY <4>2, <4>3 DEF Content, Overlay, Tell
        <5> QED
          BY <5>1, <5>2, <5>3, <5>4, <5>5
      <4> QED
        BY <4>2, <4>4, <4>5, <4>6 DEF Outcome, At0
    <3> QED
      BY <3>3, <3>6, <3>7
  <2> QED
    BY <2>4, <2>5, <2>6 DEF Outcome
<1> QED
  BY <1>1, <1>2
-----------------------------------------------------------------------------
(***************************************************************************)
(* The inductive invariant.                                                *)
(***************************************************************************)
WTypeOK ==
  /\ wr \in Archive /\ Len(wr.buf) <= BufSize
  /\ wmode \in {"write", "append"}
  /\ good \in BOOLEAN /\ throws \in BOOLEAN /\ thrown \in BOOLEAN
  /\ next \in Nat \ {0} /\ replaced \in BOOLEAN

Sized(w) == Tell(w) <= MaxSize /\ Len(Content(w)) <= MaxSize

\* Every byte is on the disk or in the buffer, in order, and the next one is
\* behind them all; nothing waits in the buffer of a closed file, which is
\* opened at another position; the descriptor is where a byte it writes comes
\* last; and what no write came up short on fits the bound on files.
IInv ==
  /\ WTypeOK
  /\ ~good => wr.buf = << >>
  /\ ~replaced => AtEnd(wr)
  /\ ~thrown /\ ~replaced => InOrder(wr, next)
  /\ wr.faults = 0 /\ wmode = "write" => Sized(wr)

\* A step that leaves what a file opened to append held, and that the
\* abstract stream can take.
Keeps == wmode' = "append" => IsPrefix(wr.file, wr'.file)
Streams == Stream!Next \/ UNCHANGED Stream!svars
Right == IInv' /\ Keeps /\ Streams

Intact == wr.faults = 0 /\ wmode = "write"

\* The file is new, or holds what it held and is appended to.
LEMMA InitIInv == Init => IInv
<1> SUFFICES ASSUME Init PROVE IInv
  OBVIOUS
<1>1. BufSize \in Nat /\ MaxSize \in Nat /\ OldContent \in Seq(Int) /\ WriteModes \subseteq {"write", "append"}
  BY WriteClientAssumption DEF WriteSizesAssumption
<1>2. /\ wr.file = IF wmode = "append" THEN OldContent ELSE << >>
      /\ wr.hp = 0 /\ wr.buf = << >> /\ wr.faults = 0 /\ wr \in Archive
  BY <1>1 DEF Init, WInit, Fresh, Archive
<1>3. WTypeOK
  <2>1. Len(wr.buf) <= BufSize
    BY <1>1, <1>2
  <2>2. wmode \in {"write", "append"}
    BY <1>1 DEF Init, WInit
  <2>3. next \in Nat \ {0}
    BY DEF Init
  <2>4. good \in BOOLEAN /\ throws \in BOOLEAN /\ thrown \in BOOLEAN /\ replaced \in BOOLEAN
    BY DEF Init, WInit
  <2> QED
    BY <1>2, <2>1, <2>2, <2>3, <2>4 DEF WTypeOK
<1>4. AtEnd(wr)
  BY <1>2, <1>3 DEF AtEnd, WTypeOK
<1>5. UpTo(wr.file, 1)
  <2>1. UpTo(OldContent, 1)
    BY WriteClientAssumption DEF UpTo
  <2>2. UpTo(<< >>, 1)
    BY DEF UpTo, Increasing
  <2> QED
    BY <1>2, <2>1, <2>2
<1>6. InOrder(wr, 1)
  BY <1>2, <1>5, EmptyInOrder
<1>7. wmode = "write" => Sized(wr)
  BY <1>1, <1>2 DEF Sized, Tell, Content, Overlay
<1> QED
  BY <1>2, <1>3, <1>4, <1>6, <1>7 DEF Init, WInit, IInv

(***************************************************************************)
(* Steps of the abstract stream, for an archive no write of which came up  *)
(* short.                                                                  *)
(***************************************************************************)
LEMMA StreamDefinitions ==
  /\ \A f, p, s : Stream!Overlay(f, p, s) = Overlay(f, p, s)
  /\ \A a, n : Stream!Run(a, n) = Run(a, n)
BY DEF Stream!Overlay, Overlay, Stream!Run, Run

\* Once a write came up short the stream promises nothing.
LEMMA StreamShort ==
  ASSUME ~Intact'
  PROVE  Streams
BY DEF Streams, Stream!Next, Intact

\* n numbers put at the position.
LEMMA StreamPut ==
  ASSUME Intact, Intact', NEW n \in 0..MaxPut, next' = next + n,
         Content(wr)' = Overlay(Content(wr), Tell(wr), Run(next, n)),
         Tell(wr)' = Tell(wr) + n
  PROVE  Streams
<1>1. Stream!Put(n)
  BY StreamDefinitions DEF Stream!Put, Content
<1>2. (wr.faults = 0 /\ wmode = "write")' = (wr.faults = 0 /\ wmode = "write")
  BY DEF Intact
<1> QED
  BY <1>1, <1>2 DEF Streams, Stream!Next

\* n numbers put over earlier ones.
LEMMA StreamReput ==
  ASSUME Intact, Intact', NEW back \in 1..MaxSize, NEW n \in 0..MaxPut, next' = next + n,
         n <= back, back <= Tell(wr),
         Content(wr)' = Overlay(Content(wr), Tell(wr) - back, Run(next, n)),
         Tell(wr)' = Tell(wr)
  PROVE  Streams
<1>1. Stream!Reput(back, n)
  BY StreamDefinitions DEF Stream!Reput, Content
<1>2. (wr.faults = 0 /\ wmode = "write")' = (wr.faults = 0 /\ wmode = "write")
  BY DEF Intact
<1> QED
  BY <1>1, <1>2 DEF Streams, Stream!Next

\* The position moves, and no byte does.
LEMMA StreamSeek ==
  ASSUME Intact, Intact', NEW p \in 0..MaxSize, next' = next,
         Content(wr)' = Content(wr), Tell(wr)' = p
  PROVE  Streams
<1>1. Stream!Seek(p)
  BY DEF Stream!Seek, Content
<1>2. (wr.faults = 0 /\ wmode = "write")' = (wr.faults = 0 /\ wmode = "write")
  BY DEF Intact
<1> QED
  BY <1>1, <1>2 DEF Streams, Stream!Next

\* Nothing a client sees changes.
LEMMA StreamStays ==
  ASSUME Intact, Intact', next' = next, Content(wr)' = Content(wr), Tell(wr)' = Tell(wr)
  PROVE  Streams
<1>1. (wr.faults = 0 /\ wmode = "write")' = (wr.faults = 0 /\ wmode = "write")
  BY DEF Intact
<1> QED
  BY <1>1 DEF Streams, Stream!svars, Content

\* A file opened to be written again is empty.
LEMMA StreamTruncate ==
  ASSUME next' = next, Content(wr)' = << >>, Tell(wr)' = 0
  PROVE  Streams
BY DEF Streams, Stream!Next, Stream!Truncate, Content

(***************************************************************************)
(* A call that returns or throws with the archive r.w: what it must leave  *)
(* for the invariant.                                                      *)
(***************************************************************************)
LEMMA CallKeeps ==
  ASSUME IInv, NEW r, Outcome(wr, r), wr' = r.w, UNCHANGED <<wmode, throws>>,
         good' \in BOOLEAN, thrown' \in BOOLEAN, replaced' \in BOOLEAN, next' \in Nat \ {0},
         ~good' => r.w.buf = << >>,
         ~replaced' => AtEnd(r.w),
         ~thrown' /\ ~replaced' => InOrder(r.w, next'),
         r.w.faults = 0 /\ wmode = "write" => Sized(r.w)
  PROVE  IInv' /\ Keeps
<1>1. WTypeOK'
  BY DEF IInv, WTypeOK, Outcome
<1>2. AtEnd(r.w) => AtEnd(wr)'
  BY DEF AtEnd
<1>3. InOrder(r.w, next') => InOrder(wr, next)'
  BY DEF InOrder
<1>4. Sized(r.w) => Sized(wr)'
  BY DEF Sized, Tell, Content
<1>5. Keeps
  BY DEF Keeps, Outcome, Grown
<1> QED
  BY <1>1, <1>2, <1>3, <1>4, <1>5 DEF IInv

\* Where nothing came up short before either, the call did all it was to do.
LEMMA FaultsKept ==
  ASSUME IInv, NEW r, Outcome(wr, r), r.w.faults = 0
  PROVE  wr.faults = 0
<1>1. wr.faults \in Nat /\ wr.faults <= 0
  BY DEF IInv, WTypeOK, Archive, Outcome
<1> QED
  BY <1>1

\* An overlay within a bound is as long as that bound allows.
LEMMA OverlayLen ==
  ASSUME NEW f \in Seq(Int), NEW p \in Nat, NEW s \in Seq(Int), NEW m \in Nat,
         Len(f) <= m, p + Len(s) <= m
  PROVE  Len(Overlay(f, p, s)) <= m
<1>1. CASE s = << >>
  BY <1>1 DEF Overlay
<1>2. CASE s # << >>
  <2>1. Len(Overlay(f, p, s)) = IF p + Len(s) > Len(f) THEN p + Len(s) ELSE Len(f)
    BY <1>2, OverlayProperties
  <2> QED
    BY <2>1
<1> QED
  BY <1>1, <1>2

\* The fields of an archive.
LEMMA ArchiveFacts ==
  ASSUME NEW w \in Archive
  PROVE  /\ w.file \in Seq(Int) /\ w.hp \in Nat /\ w.buf \in Seq(Int) /\ w.faults \in Nat
         /\ Content(w) \in Seq(Int) /\ Tell(w) \in Nat
<1>1. w.file \in Seq(Int) /\ w.hp \in Nat /\ w.buf \in Seq(Int) /\ w.faults \in Nat
  BY DEF Archive
<1>2. Tell(w) \in Nat
  BY <1>1 DEF Tell
<1> QED
  BY <1>1, <1>2, OverlayType DEF Content

\* Any put of the next n numbers.
LEMMA PutAllStep ==
  ASSUME IInv, NEW n \in 0..MaxPut, NEW r, PutAll(wr, Run(next, n), r), FitsFile(n),
         wr' = r.w, thrown' = (thrown \/ ~r.ok), next' = next + n,
         UNCHANGED <<wmode, good, throws, replaced>>, good
  PROVE  Right
<1> DEFINE s == Run(next, n)
<1>n. n \in Nat /\ MaxSize \in Nat /\ next \in Nat \ {0} /\ next \in Int
  BY WriteClientAssumption DEF WriteSizesAssumption, IInv, WTypeOK
<1>s. s \in Seq(Int) /\ Len(s) = n
  BY <1>n, RunType
<1>w. wr \in Archive /\ good' = TRUE /\ good \in BOOLEAN /\ thrown \in BOOLEAN
  BY DEF IInv, WTypeOK
<1>f. /\ wr.file \in Seq(Int) /\ wr.hp \in Nat /\ wr.buf \in Seq(Int) /\ wr.faults \in Nat
      /\ Content(wr) \in Seq(Int) /\ Tell(wr) \in Nat
  BY <1>w, ArchiveFacts
<1>1. Outcome(wr, r)
  BY DEF PutAll
<1>2. next' \in Nat \ {0}
  BY <1>n
<1>3. ~replaced' => AtEnd(r.w)
  BY DEF PutAll, IInv
<1>4. ASSUME ~thrown', ~replaced' PROVE InOrder(r.w, next')
  <2>1. ~thrown /\ r.ok /\ ~replaced
    BY <1>4
  <2>2. AtEnd(wr) /\ InOrder(wr, next)
    BY <2>1 DEF IInv
  <2> QED
    BY <1>n, <2>1, <2>2 DEF PutAll
<1>5. ASSUME r.w.faults = 0, wmode = "write"
      PROVE  /\ Intact /\ Sized(r.w)
             /\ Content(r.w) = Overlay(Content(wr), Tell(wr), s)
             /\ Tell(r.w) = Tell(wr) + n
  <2>1. wr.faults = 0
    BY <1>1, <1>5, FaultsKept
  <2>2. /\ Content(r.w) = Overlay(Content(wr), Tell(wr), s)
        /\ Tell(r.w) = Tell(wr) + n
    BY <1>5, <2>1, <1>s DEF PutAll
  <2>3. Tell(wr) + n <= MaxSize /\ Len(Content(wr)) <= MaxSize
    BY <1>5, <2>1 DEF FitsFile, IInv, Sized
  <2> HIDE DEF s
  <2>4. Len(Overlay(Content(wr), Tell(wr), s)) <= MaxSize
    BY <1>f, <1>n, <1>s, <2>3, OverlayLen
  <2> QED
    BY <1>5, <2>1, <2>2, <2>3, <2>4 DEF Intact, Sized
<1>6. IInv' /\ Keeps
  <2>1. thrown' \in BOOLEAN /\ replaced' \in BOOLEAN
    BY DEF IInv, WTypeOK
  <2> QED
    BY <1>1, <1>2, <1>3, <1>4, <1>5, <1>w, <2>1, CallKeeps
<1>7. Streams
  <2>1. CASE ~Intact'
    BY <2>1, StreamShort
  <2>2. CASE Intact'
    <3>1. r.w.faults = 0 /\ wmode = "write"
      BY <2>2 DEF Intact
    <3>2. Content(wr)' = Content(r.w) /\ Tell(wr)' = Tell(r.w)
      BY DEF Content, Tell
    <3> QED
      BY <1>5, <2>2, <3>1, <3>2, StreamPut
  <2> QED
    BY <2>1, <2>2
<1> QED
  BY <1>6, <1>7 DEF Right

\* put of n numbers.
LEMMA PutStep ==
  ASSUME IInv, NEW n \in 0..MaxPut, Uses(n), Put(Run(next, n)), UNCHANGED replaced
  PROVE  Right
<1> DEFINE s == Run(next, n)
<1>1. next \in Int /\ n \in Nat /\ wr \in Archive /\ Len(wr.buf) <= BufSize
  BY WriteClientAssumption DEF IInv, WTypeOK
<1>2. s \in Seq(Int) /\ Len(s) = n
  BY <1>1, RunType
<1>3. PICK r \in PutBytes(wr, s) : wr' = r.w /\ thrown' = (thrown \/ (TRUE /\ ~r.ok))
  BY DEF Put, Ends
<1>4. FitsFile(n) /\ good /\ UNCHANGED <<wmode, good, throws, replaced>> /\ next' = next + n
  BY <1>2 DEF Put, Ends, Uses
<1> HIDE DEF s
<1>5. PutAll(wr, s, r)
  BY <1>1, <1>2, PutBytesOutcome
<1>6. thrown' = (thrown \/ ~r.ok)
  BY <1>3
<1> QED
  BY <1>3, <1>4, <1>5, <1>6, PutAllStep DEF s

\* put of one number.
LEMMA PutOneStep ==
  ASSUME IInv, Uses(1), PutOne(next), UNCHANGED replaced
  PROVE  Right
<1>1. next \in Int /\ wr \in Archive /\ Len(wr.buf) <= BufSize /\ 1 \in 0..MaxPut
  BY WriteClientAssumption DEF IInv, WTypeOK
<1>2. <<next>> = Run(next, 1)
  <2> DEFINE s == Run(next, 1)
             t == <<next>>
  <2>1. s \in Seq(Int) /\ Len(s) = 1
    BY <1>1, RunType
  <2>2. s[1] = next
    BY <1>1 DEF Run
  <2>3. t \in Seq(Int) /\ Len(t) = 1 /\ t[1] = next
    BY <1>1
  <2> HIDE DEF s, t
  <2>4. \A i \in 1..Len(t) : t[i] = s[i]
    BY <2>1, <2>2, <2>3
  <2>5. t = s
    BY <2>1, <2>3, <2>4, SeqEqual
  <2> QED
    BY <2>5 DEF s, t
<1>3. PICK r \in PutChar(wr, next) : wr' = r.w /\ thrown' = (thrown \/ (TRUE /\ ~r.ok))
  BY DEF PutOne, Ends
<1>4. FitsFile(1) /\ good /\ UNCHANGED <<wmode, good, throws, replaced>> /\ next' = next + 1
  BY DEF PutOne, Ends, Uses
<1>5. PutAll(wr, <<next>>, r)
  BY <1>1, PutCharOutcome
<1>6. PutAll(wr, Run(next, 1), r)
  BY <1>2, <1>5
<1>7. thrown' = (thrown \/ ~r.ok)
  BY <1>3
<1> QED
  BY <1>1, <1>3, <1>4, <1>6, <1>7, PutAllStep

\* reput of n numbers.
LEMMA ReputStep ==
  ASSUME IInv, NEW back \in 1..MaxSize, NEW n \in 0..MaxPut, Uses(n),
         Reput(back, Run(next, n)), replaced' = TRUE
  PROVE  Right
<1> DEFINE s == Run(next, n)
<1>1. /\ next \in Int /\ n \in Nat /\ wr \in Archive /\ Len(wr.buf) <= BufSize
      /\ MaxSize \in Nat /\ back \in Nat
  BY WriteClientAssumption DEF WriteSizesAssumption, IInv, WTypeOK
<1>2. s \in Seq(Int) /\ Len(s) = n
  BY <1>1, RunType
<1>3. PICK r \in ReputBytes(wr, back, s) : wr' = r.w /\ thrown' = (thrown \/ (TRUE /\ ~r.ok))
  BY DEF Reput, Ends
<1>4. /\ n <= back /\ back <= Tell(wr)
      /\ good /\ UNCHANGED <<wmode, good, throws>> /\ next' = next + n
  BY <1>2 DEF Reput, Ends, Uses
<1>f. /\ wr.file \in Seq(Int) /\ wr.hp \in Nat /\ wr.buf \in Seq(Int) /\ wr.faults \in Nat
      /\ Content(wr) \in Seq(Int) /\ Tell(wr) \in Nat
  BY <1>1, ArchiveFacts
<1> HIDE DEF s
<1>5. /\ Outcome(wr, r)
      /\ wmode # "append" /\ r.w.faults = wr.faults =>
           /\ r.ok
           /\ Content(r.w) = Overlay(Content(wr), Tell(wr) - back, s)
           /\ Tell(r.w) = Tell(wr)
  BY <1>1, <1>2, <1>4, ReputBytesOutcome
<1>6. ASSUME r.w.faults = 0, wmode = "write"
      PROVE  /\ Intact /\ Sized(r.w)
             /\ Content(r.w) = Overlay(Content(wr), Tell(wr) - back, s)
             /\ Tell(r.w) = Tell(wr)
  <2>1. wr.faults = 0
    BY <1>5, <1>6, FaultsKept
  <2>2. /\ Content(r.w) = Overlay(Content(wr), Tell(wr) - back, s)
        /\ Tell(r.w) = Tell(wr)
    BY <1>5, <1>6, <2>1
  <2>3. Tell(wr) <= MaxSize /\ Len(Content(wr)) <= MaxSize
    BY <1>6, <2>1 DEF IInv, Sized
  <2>4. Tell(wr) - back \in Nat /\ Tell(wr) - back + Len(s) <= MaxSize
    BY <1>1, <1>2, <1>4, <1>f, <2>3
  <2>5. Len(Overlay(Content(wr), Tell(wr) - back, s)) <= MaxSize
    BY <1>1, <1>2, <1>f, <2>3, <2>4, OverlayLen
  <2> QED
    BY <1>6, <2>1, <2>2, <2>3, <2>5 DEF Intact, Sized
<1>7. IInv' /\ Keeps
  <2>1. thrown' \in BOOLEAN /\ replaced' = TRUE /\ good' = TRUE
    BY <1>3, <1>4 DEF IInv, WTypeOK
  <2>2. next' \in Nat \ {0}
    BY <1>1, <1>4 DEF IInv, WTypeOK
  <2> QED
    BY <1>3, <1>4, <1>5, <1>6, <2>1, <2>2, CallKeeps
<1>8. Streams
  <2>1. CASE ~Intact'
    BY <2>1, StreamShort
  <2>2. CASE Intact'
    <3>1. r.w.faults = 0 /\ wmode = "write"
      BY <1>3, <1>4, <2>2 DEF Intact
    <3>2. Content(wr)' = Content(r.w) /\ Tell(wr)' = Tell(r.w)
      BY <1>3 DEF Content, Tell
    <3> QED
      BY <1>4, <1>6, <2>2, <3>1, <3>2, StreamReput DEF s
  <2> QED
    BY <2>1, <2>2
<1> QED
  BY <1>7, <1>8 DEF Right

(***************************************************************************)
(* The calls that leave nothing buffered.                                  *)
(***************************************************************************)
LEMMA ClearStep ==
  ASSUME IInv, NEW r, Outcome(wr, r), r.w.buf = << >>, wr' = r.w,
         UNCHANGED <<next, thrown, wmode, throws>>,
         good' \in BOOLEAN, replaced' \in BOOLEAN, replaced => replaced',
         ~replaced' => AtEnd(r.w),
         \A h \in Int : AtEnd(wr) /\ InOrder(wr, h) => UpTo(r.w.file, h),
         wmode # "append" /\ r.w.faults = wr.faults => r.w.file = Content(wr),
         Intact /\ r.w.faults = 0 => r.w.hp <= MaxSize
  PROVE  Right
<1>1. r.w \in Archive /\ MaxSize \in Nat /\ next \in Nat \ {0} /\ next \in Int /\ thrown \in BOOLEAN
  BY WriteClientAssumption DEF WriteSizesAssumption, Outcome, IInv, WTypeOK
<1>2. r.w.file \in Seq(Int) /\ r.w.hp \in Nat
  BY <1>1 DEF Archive
<1>3. Content(r.w) = r.w.file /\ Tell(r.w) = r.w.hp
  BY <1>2 DEF Content, Overlay, Tell
<1>4. ASSUME ~thrown', ~replaced' PROVE InOrder(r.w, next')
  <2>1. AtEnd(wr) /\ InOrder(wr, next)
    BY <1>4 DEF IInv
  <2>2. UpTo(r.w.file, next)
    BY <1>1, <2>1
  <2> QED
    BY <1>1, <2>2, EmptyInOrder
<1>5. ASSUME r.w.faults = 0, wmode = "write"
      PROVE  Intact /\ Sized(r.w) /\ Content(r.w) = Content(wr) /\ Tell(r.w) \in 0..MaxSize
  <2>1. wr.faults = 0
    BY <1>5, FaultsKept
  <2>2. Intact
    BY <1>5, <2>1 DEF Intact
  <2>3. Len(Content(wr)) <= MaxSize
    BY <1>5, <2>1 DEF IInv, Sized
  <2>4. r.w.file = Content(wr) /\ r.w.hp <= MaxSize
    BY <1>5, <2>1, <2>2
  <2> QED
    BY <1>1, <1>2, <1>3, <2>2, <2>3, <2>4 DEF Sized
<1>6. IInv' /\ Keeps
  <2>1. thrown' \in BOOLEAN /\ next' \in Nat \ {0}
    BY <1>1
  <2> QED
    BY <1>4, <1>5, <2>1, CallKeeps
<1>7. Streams
  <2>1. CASE ~Intact'
    BY <2>1, StreamShort
  <2>2. CASE Intact'
    <3>1. r.w.faults = 0 /\ wmode = "write"
      BY <2>2 DEF Intact
    <3>2. Content(wr)' = Content(r.w) /\ Tell(wr)' = Tell(r.w)
      BY DEF Content, Tell
    <3> QED
      BY <1>5, <2>2, <3>1, <3>2, StreamSeek
  <2> QED
    BY <2>1, <2>2
<1> QED
  BY <1>6, <1>7 DEF Right

\* The descriptor stays within the bound on files.
LEMMA ClearCacheFits ==
  ASSUME IInv, NEW r \in ClearCache(wr), Intact, r.w.faults = 0
  PROVE  r.w.hp <= MaxSize
<1>1. wr \in Archive /\ wr.faults = 0 /\ Tell(wr) <= MaxSize /\ wmode # "append"
  BY DEF IInv, WTypeOK, Intact, Sized
<1> QED
  BY <1>1, ClearCacheOutcome

\* flush.
LEMMA FlushStep ==
  ASSUME IInv, Flush, UNCHANGED <<next, replaced>>
  PROVE  Right
<1>1. PICK r \in ClearCache(wr) : wr' = r.w /\ thrown' = (thrown \/ (FALSE /\ ~r.ok))
  BY DEF Flush, Ends
<1>2. UNCHANGED <<wmode, good, throws>>
  BY DEF Flush, Ends
<1>3. wr \in Archive /\ good \in BOOLEAN /\ replaced \in BOOLEAN /\ (~replaced => AtEnd(wr))
  BY DEF IInv, WTypeOK
<1>4. thrown' = thrown
  BY <1>1 DEF IInv, WTypeOK
<1>5. Intact /\ r.w.faults = 0 => r.w.hp <= MaxSize
  BY ClearCacheFits
<1>6. /\ Outcome(wr, r) /\ r.w.buf = << >> /\ (AtEnd(wr) => AtEnd(r.w))
      /\ \A h \in Int : AtEnd(wr) /\ InOrder(wr, h) => UpTo(r.w.file, h)
      /\ wmode # "append" /\ r.w.faults = wr.faults => r.w.file = Content(wr)
  BY <1>3, ClearCacheOutcome
<1> QED
  BY <1>1, <1>2, <1>3, <1>4, <1>5, <1>6, ClearStep

\* seek, after which later bytes may go over earlier ones.
LEMMA SeekStep ==
  ASSUME IInv, NEW p \in 0..MaxSize, Seek(p), replaced' = (replaced \/ wmode = "write"),
         UNCHANGED next
  PROVE  Right
<1>1. PICK r \in SeekTo(wr, p) : wr' = r.w /\ thrown' = (thrown \/ (FALSE /\ ~r.ok))
  BY DEF Seek, Ends
<1>2. UNCHANGED <<wmode, good, throws>>
  BY DEF Seek, Ends
<1>3. wr \in Archive /\ good \in BOOLEAN /\ p \in Nat /\ p <= MaxSize
  BY WriteClientAssumption DEF WriteSizesAssumption, IInv, WTypeOK
<1>4. thrown' = thrown
  BY <1>1 DEF IInv, WTypeOK
<1>5. replaced' \in BOOLEAN /\ (replaced => replaced') /\ (~replaced' => wmode = "append")
  BY DEF IInv, WTypeOK
<1>6. /\ Outcome(wr, r) /\ r.w.buf = << >>
      /\ \A h \in Int : AtEnd(wr) /\ InOrder(wr, h) => UpTo(r.w.file, h)
      /\ wmode # "append" /\ r.w.faults = wr.faults => r.w.file = Content(wr) /\ r.w.hp = p
  BY <1>3, SeekToOutcome
<1>7. Intact /\ r.w.faults = 0 => r.w.hp <= MaxSize
  BY <1>3, <1>6 DEF Intact
<1>8. ~replaced' => AtEnd(r.w)
  BY <1>5 DEF AtEnd
<1> QED
  BY <1>1, <1>2, <1>3, <1>4, <1>5, <1>6, <1>7, <1>8, ClearStep

\* seekToEnd.
LEMMA SeekEndStep ==
  ASSUME IInv, SeekEnd, UNCHANGED <<next, replaced>>
  PROVE  Right
<1>1. PICK r \in SeekToEnd(wr) : wr' = r.w /\ thrown' = (thrown \/ (FALSE /\ ~r.ok))
  BY DEF SeekEnd, Ends
<1>2. UNCHANGED <<wmode, good, throws>>
  BY DEF SeekEnd, Ends
<1>3. wr \in Archive /\ good \in BOOLEAN /\ replaced \in BOOLEAN /\ (~replaced => AtEnd(wr))
  BY DEF IInv, WTypeOK
<1>4. thrown' = thrown
  BY <1>1 DEF IInv, WTypeOK
<1>6. /\ Outcome(wr, r) /\ r.w.buf = << >> /\ (AtEnd(wr) => AtEnd(r.w))
      /\ \A h \in Int : AtEnd(wr) /\ InOrder(wr, h) => UpTo(r.w.file, h)
      /\ wmode # "append" /\ r.w.faults = wr.faults => r.w.file = Content(wr) /\ r.w.hp = Len(r.w.file)
  BY <1>3, SeekToEndOutcome
<1>7. Intact /\ r.w.faults = 0 => r.w.hp <= MaxSize
  BY <1>6 DEF Intact, IInv, Sized
<1> QED
  BY <1>1, <1>2, <1>3, <1>4, <1>6, <1>7, ClearStep

\* close.
LEMMA CloseStep ==
  ASSUME IInv, Close, UNCHANGED <<next, replaced>>
  PROVE  Right
<1>1. PICK r \in ClearCache(wr) : wr' = r.w /\ good' = ~r.ok
  BY DEF Close
<1>2. UNCHANGED <<wmode, throws, thrown>> /\ good' \in BOOLEAN
  BY <1>1 DEF Close
<1>3. wr \in Archive /\ replaced \in BOOLEAN /\ (~replaced => AtEnd(wr))
  BY DEF IInv, WTypeOK
<1>5. Intact /\ r.w.faults = 0 => r.w.hp <= MaxSize
  BY ClearCacheFits
<1>6. /\ Outcome(wr, r) /\ r.w.buf = << >> /\ (AtEnd(wr) => AtEnd(r.w))
      /\ \A h \in Int : AtEnd(wr) /\ InOrder(wr, h) => UpTo(r.w.file, h)
      /\ wmode # "append" /\ r.w.faults = wr.faults => r.w.file = Content(wr)
  BY <1>3, ClearCacheOutcome
<1> QED
  BY <1>1, <1>2, <1>3, <1>5, <1>6, ClearStep

\* The destructor, which swallows what the stream throws.
LEMMA DestroyStep ==
  ASSUME IInv, Destroy, UNCHANGED <<next, replaced>>
  PROVE  Right
<1> DEFINE e == << >>
<1>1. PICK r \in ClearCache(wr) : wr' = [r.w EXCEPT !.buf = e]
  BY DEF Destroy
<1>2. UNCHANGED <<wmode, throws, thrown>> /\ good' = FALSE
  BY DEF Destroy
<1>3. wr \in Archive /\ replaced \in BOOLEAN /\ (~replaced => AtEnd(wr))
  BY DEF IInv, WTypeOK
<1>5. Intact /\ r.w.faults = 0 => r.w.hp <= MaxSize
  BY ClearCacheFits
<1>6. /\ Outcome(wr, r) /\ r.w.buf = << >> /\ (AtEnd(wr) => AtEnd(r.w))
      /\ \A h \in Int : AtEnd(wr) /\ InOrder(wr, h) => UpTo(r.w.file, h)
      /\ wmode # "append" /\ r.w.faults = wr.faults => r.w.file = Content(wr)
  BY <1>3, ClearCacheOutcome
<1>7. wr' = r.w
  <2>1. r.w \in Archive /\ r.w.buf = e
    BY <1>6 DEF Outcome
  <2> HIDE DEF e
  <2> QED
    BY <1>1, <2>1 DEF Archive
<1> QED
  BY <1>2, <1>3, <1>5, <1>6, <1>7, ClearStep

(***************************************************************************)
(* Opening a closed file, whose buffer is empty: truncated, or as it was.  *)
(***************************************************************************)
LEMMA OpenStep ==
  ASSUME IInv, NEW m \in WriteModes, Open(m), UNCHANGED <<next, replaced>>
  PROVE  Right
<1>1. /\ ~good /\ good' = TRUE /\ wmode' = m /\ UNCHANGED <<throws, thrown>>
      /\ m \in {"write", "append"} /\ MaxSize \in Nat
  BY WriteClientAssumption DEF WriteSizesAssumption, Open
<1>2. wr \in Archive /\ wr.buf = << >> /\ next \in Nat \ {0} /\ next \in Int
  BY <1>1 DEF IInv, WTypeOK
<1>f. /\ wr.file \in Seq(Int) /\ wr.hp \in Nat /\ wr.buf \in Seq(Int) /\ wr.faults \in Nat
  BY <1>2, ArchiveFacts
<1> DEFINE f == IF m = "append" THEN wr.file ELSE << >>
           u == [wr EXCEPT !.hp = 0]
<1>3. wr' = [u EXCEPT !.file = f]
  BY Zenon DEF Open
<1>4. f \in Seq(Int)
  BY <1>f
<1> HIDE DEF f
<1>5. u \in Archive /\ u.file = wr.file /\ u.hp = 0 /\ u.buf = wr.buf /\ u.faults = wr.faults
  BY <1>2, SetHp
<1> HIDE DEF u
<1>6. wr' \in Archive /\ wr'.file = f /\ wr'.hp = 0 /\ wr'.buf = << >> /\ wr'.faults = wr.faults
  BY <1>2, <1>3, <1>4, <1>5, SetFile
<1>7. m = "write" => f = << >>
  BY DEF f
<1>8. m = "append" => f = wr.file
  BY DEF f
<1>9. (Content(wr)' = f) /\ Tell(wr)' = 0
  BY <1>6 DEF Content, Overlay, Tell
<1>10. AtEnd(wr)'
  BY <1>1, <1>6, <1>7 DEF AtEnd
<1>11. ASSUME ~thrown', ~replaced' PROVE InOrder(wr, next)'
  <2>1. InOrder(wr, next)
    BY <1>1, <1>11 DEF IInv
  <2>2. PICK k \in Int : k <= next /\ UpTo(wr.file, k)
    BY <2>1 DEF InOrder
  <2>3. \A i \in 1..Len(wr.file) : wr.file[i] \in Int
    BY <1>f
  <2>4. UpTo(wr.file, next)
    BY <1>2, <2>2, <2>3 DEF UpTo
  <2>5. UpTo(<< >>, next)
    BY DEF UpTo, Increasing
  <2>6. UpTo(f, next)
    BY <1>1, <1>7, <1>8, <2>4, <2>5
  <2>7. Between(<< >>, next, next)
    BY <1>2, EmptyBetween
  <2>8. UpTo(wr'.file, next') /\ Between(wr'.buf, next', next') /\ next' \in Int /\ next' <= next'
    BY <1>2, <1>6, <2>6, <2>7
  <2> QED
    BY <2>8 DEF InOrder
<1>12. wmode' = "write" => Sized(wr)'
  BY <1>1, <1>6, <1>7, <1>9 DEF Sized
<1>13. WTypeOK'
  <2>1. Len(wr'.buf) <= BufSize
    BY <1>6, WriteClientAssumption DEF WriteSizesAssumption
  <2> QED
    BY <1>1, <1>6, <2>1 DEF IInv, WTypeOK
<1>14. IInv'
  BY <1>1, <1>10, <1>11, <1>12, <1>13 DEF IInv
<1>15. Keeps
  BY <1>1, <1>6, <1>8, PrefixOfItself DEF Keeps
<1>16. Streams
  <2>1. CASE m = "append"
    <3>1. ~Intact'
      BY <1>1, <2>1 DEF Intact
    <3> QED
      BY <3>1, StreamShort
  <2>2. CASE m = "write"
    BY <1>7, <1>9, <2>2, StreamTruncate
  <2> QED
    BY <1>1, <2>1, <2>2
<1> QED
  BY <1>14, <1>15, <1>16 DEF Right

\* Every step keeps the invariant, the content of a file appended to, and the
\* stream.
LEMMA NextRight == IInv /\ Next => Right
<1> SUFFICES ASSUME IInv, Next PROVE Right
  OBVIOUS
<1>1. CASE \E n \in 0..MaxPut : Uses(n) /\ Put(Run(next, n)) /\ UNCHANGED replaced
  BY <1>1, PutStep
<1>2. CASE Uses(1) /\ PutOne(next) /\ UNCHANGED replaced
  BY <1>2, PutOneStep
<1>3. CASE \E back \in 1..MaxSize, n \in 0..MaxPut :
             Uses(n) /\ Reput(back, Run(next, n)) /\ replaced' = TRUE
  BY <1>3, ReputStep
<1>4. CASE \E p \in 0..MaxSize :
             Seek(p) /\ replaced' = (replaced \/ wmode = "write") /\ UNCHANGED next
  BY <1>4, SeekStep
<1>5. CASE Flush /\ UNCHANGED <<next, replaced>>
  BY <1>5, FlushStep
<1>6. CASE SeekEnd /\ UNCHANGED <<next, replaced>>
  BY <1>6, SeekEndStep
<1>7. CASE Close /\ UNCHANGED <<next, replaced>>
  BY <1>7, CloseStep
<1>8. CASE Destroy /\ UNCHANGED <<next, replaced>>
  BY <1>8, DestroyStep
<1>9. CASE (\E m \in WriteModes : Open(m)) /\ UNCHANGED <<next, replaced>>
  BY <1>9, OpenStep
<1> QED
  BY <1>1, <1>2, <1>3, <1>4, <1>5, <1>6, <1>7, <1>8, <1>9 DEF Next

\* So does a step that changes nothing.
LEMMA StutterRight == IInv /\ UNCHANGED vars => Right
<1> SUFFICES ASSUME IInv, UNCHANGED vars PROVE Right
  OBVIOUS
<1> USE DEF vars, wvars
<1>1. IInv'
  <2>1. WTypeOK'
    BY DEF IInv, WTypeOK
  <2>2. (AtEnd(wr) => AtEnd(wr)') /\ (InOrder(wr, next) => InOrder(wr, next)') /\ (Sized(wr) => Sized(wr)')
    BY DEF AtEnd, InOrder, Sized, Tell, Content
  <2> QED
    BY <2>1, <2>2 DEF IInv
<1>2. Keeps
  BY PrefixOfItself DEF Keeps
<1>3. Streams
  <2>1. (wr.faults = 0 /\ wmode = "write")' = (wr.faults = 0 /\ wmode = "write")
    OBVIOUS
  <2> QED
    BY <2>1 DEF Streams, Stream!svars, Tell
<1> QED
  BY <1>1, <1>2, <1>3 DEF Right
-----------------------------------------------------------------------------
(***************************************************************************)
(* The invariant holds of every archive, over a descriptor or a stream.    *)
(***************************************************************************)
THEOREM WriteInvariance == Spec => []IInv
<1>1. IInv /\ [Next]_vars => IInv'
  BY NextRight, StutterRight DEF Right
<1> QED
  BY <1>1, InitIInv, PTL DEF Spec

(***************************************************************************)
(* As long as no put has thrown and nothing went over earlier bytes, no    *)
(* byte reaches the file twice or out of order, whatever writes came up    *)
(* short, in put, in a flush, in close and in the destructor.              *)
(***************************************************************************)
THEOREM OrderCorrect == Spec => []InOrderOnce
<1>1. IInv => InOrderOnce
  <2> SUFFICES ASSUME IInv, ~thrown, ~replaced PROVE Increasing(wr.file \o wr.buf)
    BY DEF InOrderOnce
  <2>1. wr \in Archive /\ next \in Int
    BY DEF IInv, WTypeOK
  <2>2. wr.file \in Seq(Int) /\ wr.buf \in Seq(Int)
    BY <2>1, ArchiveFacts
  <2>3. PICK m \in Int : m <= next /\ UpTo(wr.file, m) /\ Between(wr.buf, m, next)
    BY DEF IInv, InOrder
  <2>4. UpTo(wr.file \o wr.buf, next)
    BY <2>1, <2>2, <2>3, UpToConcat
  <2> QED
    BY <2>4 DEF UpTo
<1> QED
  BY <1>1, WriteInvariance, PTL

(***************************************************************************)
(* A file opened to append keeps what it held, through every seek, reput   *)
(* and write that comes up short.                                          *)
(***************************************************************************)
THEOREM AppendCorrect == Spec => AppendKeepsContent
<1>1. IInv /\ [Next]_vars => [wmode' = "append" => IsPrefix(wr.file, wr'.file)]_wvars
  BY NextRight, StutterRight DEF Right, Keeps
<1> QED
  BY <1>1, WriteInvariance, PTL DEF Spec, AppendKeepsContent

(***************************************************************************)
(* While no write comes up short the buffered archive implements the       *)
(* unbuffered stream: the file with the buffer laid over it is what the    *)
(* stream's file would be, and tell() is its position.                     *)
(***************************************************************************)
THEOREM WriteRefinement == Spec => ImplementsWriteStream
<1>1. Init => Stream!Init
  <2> SUFFICES ASSUME Init PROVE Stream!Init
    OBVIOUS
  <2>1. wr.hp = 0 /\ wr.buf = << >> /\ (wmode = "write" => wr.file = << >>) /\ next = 1
    BY DEF Init, WInit, Fresh
  <2> QED
    BY <2>1 DEF Stream!Init, Overlay, Tell
<1>2. IInv /\ [Next]_vars => [Stream!Next]_(Stream!svars)
  BY NextRight, StutterRight DEF Right, Streams
<1> QED
  BY <1>1, <1>2, WriteInvariance, PTL DEF Spec, ImplementsWriteStream, Stream!Spec
-----------------------------------------------------------------------------
(***************************************************************************)
(* The writer of records: no write comes up short under it, so the count   *)
(* of those that did stays what it was through every call.                 *)
(***************************************************************************)
LEMMA WholePut ==
  ASSUME MaxShort = 0, NEW w \in Archive, NEW s \in Seq(Int), NEW r \in HandlePut(w, s)
  PROVE  r.w.faults = w.faults
<1>1. w.faults \in Nat
  BY DEF Archive
<1>2. ~(w.faults < MaxShort)
  BY <1>1
<1>3. r = Done(Written(w, s))
  BY <1>2, Zenon DEF HandlePut
<1>4. r.w = Written(w, s)
  BY <1>3 DEF Done
<1> DEFINE f == Overlay(w.file, At(w), s)
           h == At(w) + Len(s)
           u == [w EXCEPT !.file = f]
<1>5. f \in Seq(Int) /\ h \in Nat
  BY OverlayType DEF Archive, At
<1>6. r.w = [u EXCEPT !.hp = h]
  BY <1>4, Zenon DEF Written, At
<1> HIDE DEF f, h
<1>7. u \in Archive /\ u.faults = w.faults
  BY <1>5, SetFile
<1> HIDE DEF u
<1> QED
  BY ONLY <1>5, <1>6, <1>7, SetHp

\* What clearing the buffer writes is written whole.
LEMMA WholeClear ==
  ASSUME MaxShort = 0, NEW w \in Archive, NEW r \in ClearCache(w)
  PROVE  r.w.faults = w.faults
<1> DEFINE v == [w EXCEPT !.buf = << >>]
<1>b. << >> \in Seq(Int) /\ w.buf \in Seq(Int)
  BY DEF Archive
<1>1. v \in Archive /\ v.faults = w.faults
  BY <1>b DEF Archive
<1>2. CASE w.buf = << >>
  BY <1>2 DEF ClearCache, Done
<1>3. CASE w.buf # << >>
  <2>1. r \in HandlePut(v, w.buf)
    BY <1>3 DEF ClearCache
  <2> HIDE DEF v
  <2> QED
    BY <1>b, <1>1, <2>1, WholePut
<1> QED
  BY <1>2, <1>3

\* So is what a seek writes.
LEMMA WholeSeek ==
  ASSUME MaxShort = 0, NEW w \in Archive, NEW p \in Nat, NEW r \in SeekTo(w, p)
  PROVE  r.w.faults = w.faults
<1>1. PICK q \in ClearCache(w) : r = IF q.ok THEN Done([q.w EXCEPT !.hp = p]) ELSE q
  BY DEF SeekTo, AndThen
<1>2. q.w.faults = w.faults /\ q.w \in Archive
  BY WholeClear, ClearCacheOutcome DEF Outcome
<1>3. CASE q.ok
  <2>1. r.w = [q.w EXCEPT !.hp = p]
    BY <1>1, <1>3 DEF Done
  <2> QED
    BY <1>2, <2>1, SetHp
<1>4. CASE ~q.ok
  BY <1>1, <1>2, <1>4
<1> QED
  BY <1>3, <1>4

\* And a put, through the buffer or into it.
LEMMA WholePutBytes ==
  ASSUME MaxShort = 0, NEW w \in Archive, Len(w.buf) <= BufSize,
         NEW s \in Seq(Int), NEW r \in PutBytes(w, s)
  PROVE  r.w.faults = w.faults
<1>t. w.buf \in Seq(Int) /\ BufSize \in Nat \ {0} /\ Len(w.buf) \in Nat /\ Len(s) \in Nat
  BY WriteClientAssumption DEF WriteSizesAssumption, Archive
<1>1. CASE Len(s) <= BufSize - Len(w.buf)
  <2>1. r = Done([w EXCEPT !.buf = w.buf \o s]) /\ w.buf \o s \in Seq(Int)
    BY <1>t, <1>1 DEF PutBytes
  <2> DEFINE v == [w EXCEPT !.buf = w.buf \o s]
  <2>2. r.w = v
    BY <2>1 DEF Done
  <2>3. v.faults = w.faults
    BY <2>1, SetBuf
  <2> QED
    BY <2>2, <2>3
<1>2. CASE ~(Len(s) <= BufSize - Len(w.buf))
  <2> DEFINE unused == BufSize - Len(w.buf)
             rest == Len(s) - unused
             whole == rest - (rest % BufSize)
             s1 == SubSeq(s, 1, unused)
             filled == w.buf \o s1
             direct == SubSeq(s, unused + 1, unused + whole)
             kept == SubSeq(s, unused + whole + 1, Len(s))
             Kept(u) == {Done([u EXCEPT !.buf = kept])}
             Direct(v) == AndThen(IF whole = 0 THEN {Done(v)} ELSE HandlePut(v, direct), LAMBDA u : Kept(u))
  <2>1. r \in AndThen(HandlePut(w, filled), LAMBDA v : Direct(v))
    BY <1>2 DEF PutBytes, PutThrough
  <2>n. unused \in Nat /\ unused <= Len(s) /\ rest \in Nat /\ whole \in Nat /\ whole <= rest
    <3>1. unused \in Nat /\ unused <= Len(s) /\ rest \in Nat
      BY <1>t, <1>2
    <3> HIDE DEF rest
    <3>2. rest % BufSize \in Nat /\ rest % BufSize <= rest
      BY <1>t, <3>1, ModFacts
    <3> QED
      BY <3>1, <3>2
  <2>k. unused + whole <= Len(s)
    <3>1. rest = Len(s) - unused
      OBVIOUS
    <3> HIDE DEF rest, unused, whole
    <3> QED
      BY <2>n, <3>1, <1>t
  <2> HIDE DEF unused, rest, whole
  <2>s. filled \in Seq(Int) /\ direct \in Seq(Int) /\ kept \in Seq(Int)
    <3>1. s1 \in Seq(Int)
      BY <2>n, <1>t
    <3>2. direct \in Seq(Int)
      BY <2>n, <2>k, <1>t
    <3>3. kept \in Seq(Int)
      BY <2>n, <2>k, <1>t
    <3> QED
      BY <1>t, <3>1, <3>2, <3>3
  <2> HIDE DEF filled, direct, kept, Direct
  <2>2. PICK r1 \in HandlePut(w, filled) : IF r1.ok THEN r \in Direct(r1.w) ELSE r = r1
    BY <2>1 DEF AndThen
  <2>3. r1.w.faults = w.faults /\ r1.w \in Archive
    BY <2>2, <2>s, WholePut, HandlePutOutcome
  <2>4. CASE ~r1.ok
    BY <2>2, <2>3, <2>4
  <2>5. CASE r1.ok
    <3> HIDE DEF Kept
    <3>1. PICK r2 \in IF whole = 0 THEN {Done(r1.w)} ELSE HandlePut(r1.w, direct) :
            IF r2.ok THEN r \in Kept(r2.w) ELSE r = r2
      BY <2>2, <2>5 DEF Direct, AndThen
    <3>2. r2.w.faults = w.faults /\ r2.w \in Archive
      <4>1. CASE whole = 0
        BY <3>1, <4>1, <2>3 DEF Done
      <4>2. CASE whole # 0
        <5>1. r2 \in HandlePut(r1.w, direct)
          BY <3>1, <4>2
        <5> QED
          BY <5>1, <2>3, <2>s, WholePut, HandlePutOutcome
      <4> QED
        BY <4>1, <4>2
    <3>3. CASE ~r2.ok
      BY <3>1, <3>2, <3>3
    <3>4. CASE r2.ok
      <4>1. r.w = [r2.w EXCEPT !.buf = kept]
        BY <3>1, <3>4 DEF Kept, Done
      <4> QED
        BY <3>2, <4>1, <2>s, SetBuf
    <3> QED
      BY <3>3, <3>4
  <2> QED
    BY <2>4, <2>5
<1> QED
  BY <1>1, <1>2

\* A reput comes back to the end of the file, if that is where it began.
LEMMA WholeReput ==
  ASSUME MaxShort = 0, wmode # "append", NEW w \in Archive, Len(w.buf) <= BufSize,
         w.hp = Len(w.file), NEW s \in Seq(Int),
         NEW back \in Nat, Len(s) <= back, back <= Tell(w),
         NEW r \in ReputBytes(w, back, s)
  PROVE  r.w.faults = w.faults /\ r.w.hp = Len(r.w.file)
<1>t. w.file \in Seq(Int) /\ w.hp \in Nat /\ w.buf \in Seq(Int) /\ w.faults \in Nat
  BY DEF Archive
<1>m. Len(w.buf) \in Nat /\ Len(s) \in Nat /\ Tell(w) \in Nat
  <2>1. Len(w.buf) \in Nat /\ Len(s) \in Nat
    BY <1>t
  <2>2. Tell(w) \in Nat
    BY ONLY <1>t, <2>1 DEF Tell
  <2> QED
    BY <2>1, <2>2
<1>n. Len(w.buf) \in Nat /\ Len(s) \in Nat /\ Tell(w) \in Nat /\ Tell(w) - back \in Nat
  BY <1>m
<1>1. CASE back <= Len(w.buf)
  <2> DEFINE x == Overlay(w.buf, Len(w.buf) - back, s)
  <2>1. r.w = [w EXCEPT !.buf = x]
    BY <1>1 DEF ReputBytes, Done
  <2>2. Len(w.buf) - back \in Nat
    BY <1>1, <1>n
  <2>3. x \in Seq(Int)
    BY <2>2, <1>t, OverlayType
  <2> HIDE DEF x
  <2> QED
    BY <2>1, <2>3, SetBuf
<1>2. CASE ~(back <= Len(w.buf))
  <2> DEFINE Back(u) == SeekTo(u, Tell(w))
             Over(v) == AndThen(PutBytes(v, s), LAMBDA u : Back(u))
  <2>1. r \in AndThen(SeekTo(w, Tell(w) - back), LAMBDA v : Over(v))
    BY <1>2 DEF ReputBytes
  <2> HIDE DEF Over
  <2>2. PICK r1 \in SeekTo(w, Tell(w) - back) : IF r1.ok THEN r \in Over(r1.w) ELSE r = r1
    BY <2>1 DEF AndThen
  <2>3. r1.w.faults = w.faults /\ r1.w \in Archive /\ r1.ok /\ Len(r1.w.buf) <= BufSize
    BY <1>n, <2>2, WholeSeek, SeekToOutcome DEF Outcome
  <2> HIDE DEF Back
  <2>4. PICK r2 \in PutBytes(r1.w, s) : IF r2.ok THEN r \in Back(r2.w) ELSE r = r2
    BY <2>2, <2>3 DEF Over, AndThen
  <2>5. r2.w.faults = w.faults /\ r2.w \in Archive /\ r2.ok
    BY <2>3, <2>4, WholePutBytes, PutBytesOutcome DEF PutAll, Outcome
  <2>6. r \in SeekTo(r2.w, Tell(w))
    BY <2>4, <2>5 DEF Back
  <2>7. r.w.faults = w.faults /\ r.w.buf = << >> /\ r.w \in Archive /\ r.w.hp = Tell(w)
    BY <1>n, <2>5, <2>6, WholeSeek, SeekToOutcome DEF Outcome
  <2>8. Content(r.w) = Overlay(Content(w), Tell(w) - back, s)
    BY <2>7, ReputBytesOutcome
  <2>9. Content(r.w) = r.w.file
    BY <2>7 DEF Content, Overlay
  <2> DEFINE c == Content(w)
             p == Tell(w) - back
  <2>10. c \in Seq(Int) /\ Len(c) = Tell(w)
    <3>1. c = w.file \o w.buf
      BY <1>t, OverlayAtEnd DEF Content
    <3> QED
      BY <3>1, <1>t, ConcatProperties DEF Tell
  <2>11. p \in Nat /\ p + Len(s) <= Tell(w)
    BY <1>n
  <2> HIDE DEF c, p
  <2>12. Len(Overlay(c, p, s)) = Tell(w)
    <3>1. CASE s = << >>
      BY <3>1, <2>10 DEF Overlay
    <3>2. CASE s # << >>
      BY <3>2, <2>10, <2>11, <1>n, OverlayProperties
    <3> QED
      BY <3>1, <3>2
  <2> QED
    BY <2>7, <2>8, <2>9, <2>12 DEF c, p
<1> QED
  BY <1>1, <1>2
-----------------------------------------------------------------------------
(***************************************************************************)
(* What a reader finds: RecordsIn is a walk from header to header, and one *)
(* solution of its equation is the walk.                                   *)
(***************************************************************************)
\* A set that holds 0 and the successor of each of its numbers holds them all.
LEMMA SetOfAll ==
  ASSUME NEW S, 0 \in S, \A n \in Nat : n \in S => n + 1 \in S
  PROVE  Nat \subseteq S
<1> SUFFICES ASSUME Nat \ S # {} PROVE FALSE
  OBVIOUS
<1>1. \E x \in Nat \ S : \A y \in Nat \ S : ~(<<y, x>> \in OpToRel(<, Nat))
  BY NatLessThanWellFounded, WFMin
<1>2. \A x, y \in Nat : y < x => <<y, x>> \in OpToRel(<, Nat)
  BY DEF OpToRel
<1>3. \E x \in Nat \ S : \A y \in Nat \ S : ~(y < x)
  BY <1>1, <1>2, Zenon
<1>4. PICK x \in Nat \ S : \A y \in Nat \ S : ~(y < x)
  BY ONLY <1>3
<1>5. x # 0
  BY <1>4
<1>6. x - 1 \in Nat /\ x - 1 < x
  BY <1>4, <1>5
<1>7. x - 1 \in S
  BY <1>4, <1>6
<1>8. x - 1 + 1 \in S
  BY <1>6, <1>7
<1> QED
  BY <1>4, <1>8

\* The records from place p on, if f has those from every later place on.
Found(f, c, p) ==
  IF p + HeaderSize > Len(c) THEN << >>
  ELSE IF c[p + 1] = recIdEOF \/ p + HeaderSize + c[p + 2] > Len(c) THEN << >>
       ELSE <<[id |-> c[p + 1],
               data |-> SubSeq(c, p + HeaderSize + 1, p + HeaderSize + c[p + 2])]>>
              \o f[p + HeaderSize + c[p + 2]]

\* The walk is determined from its end backwards.
LEMMA WalksExist ==
  ASSUME NEW c \in Seq(Nat)
  PROVE  \E f : f = [p \in 0..Len(c) |-> Found(f, c, p)]
<1> DEFINE L == Len(c)
           Good(f, n) == DOMAIN f = 0..L /\ \A p \in 0..L : p + n > L => f[p] = Found(f, c, p)
           S == {n \in Nat : \E f : Good(f, n)}
<1>1. L \in Nat
  OBVIOUS
<1>c. \A i \in 1..L : c[i] \in Nat
  OBVIOUS
<1>2. 0 \in S
  <2>1. Good([p \in 0..L |-> << >>], 0)
    BY <1>1
  <2> QED
    BY <2>1
<1>3. ASSUME NEW n \in Nat, n \in S PROVE n + 1 \in S
  <2>1. PICK f : Good(f, n)
    BY <1>3
  <2> DEFINE g == [p \in 0..L |-> IF p + n = L THEN Found(f, c, p) ELSE f[p]]
  <2>2. ASSUME NEW p \in 0..L, p + n >= L PROVE Found(g, c, p) = Found(f, c, p)
    <3>1. CASE p + HeaderSize > L
      BY <3>1 DEF Found
    <3>2. CASE p + HeaderSize <= L /\ (c[p + 1] = recIdEOF \/ p + HeaderSize + c[p + 2] > L)
      BY <3>2 DEF Found
    <3>3. CASE p + HeaderSize <= L /\ ~(c[p + 1] = recIdEOF \/ p + HeaderSize + c[p + 2] > L)
      <4> DEFINE q == p + HeaderSize + c[p + 2]
      <4>1. c[p + 2] \in Nat
        BY <1>1, <1>c, <3>3 DEF HeaderSize
      <4>a. ~(q > L) /\ q \in Nat /\ q > p /\ p + n >= L /\ p \in Nat
        BY <2>2, <3>3, <4>1 DEF HeaderSize
      <4> HIDE DEF q, L
      <4>2. q \in 0..L /\ q + n # L
        BY <1>1, <4>a
      <4> HIDE DEF q
      <4>3. g[q] = f[q]
        BY <4>2
      <4> HIDE DEF g
      <4>4. g[p + HeaderSize + c[p + 2]] = f[p + HeaderSize + c[p + 2]]
        BY <4>3 DEF q
      <4> QED
        BY <3>3, <4>4, Zenon DEF Found
    <3>4. p + HeaderSize > L \/ p + HeaderSize <= L
      BY <1>1 DEF HeaderSize
    <3> QED
      BY <3>1, <3>2, <3>3, <3>4
  <2>3. ASSUME NEW p \in 0..L, p + (n + 1) > L PROVE g[p] = Found(g, c, p)
    <3>1. p + n >= L
      BY <1>1, <2>3
    <3>2. CASE p + n = L
      <4>1. g[p] = Found(f, c, p)
        BY <3>2
      <4> HIDE DEF g
      <4> QED
        BY <3>1, <4>1, <2>2
    <3>3. CASE p + n # L
      <4>1. g[p] = f[p] /\ p + n > L
        BY <1>1, <3>1, <3>3
      <4> HIDE DEF g
      <4> QED
        BY <3>1, <4>1, <2>1, <2>2
    <3> QED
      BY <3>2, <3>3
  <2>4. DOMAIN g = 0..L
    OBVIOUS
  <2> HIDE DEF g
  <2>5. Good(g, n + 1)
    BY <2>3, <2>4
  <2> QED
    BY <2>5
<1>4. Nat \subseteq S
  <2> HIDE DEF S
  <2> QED
    BY <1>2, <1>3, SetOfAll
<1>5. L + 1 \in S
  <2> HIDE DEF S, L
  <2> QED
    BY <1>1, <1>4
<1>6. PICK f : Good(f, L + 1)
  BY <1>5
<1> DEFINE h == [p \in 0..L |-> f[p]]
<1>7. \A p \in 0..L : f[p] = Found(f, c, p)
  BY <1>1, <1>6
<1>8. ASSUME NEW p \in 0..L PROVE Found(h, c, p) = Found(f, c, p)
  <2>1. CASE p + HeaderSize > L
    BY <2>1 DEF Found
  <2>2. CASE p + HeaderSize <= L /\ (c[p + 1] = recIdEOF \/ p + HeaderSize + c[p + 2] > L)
    BY <2>2 DEF Found
  <2>3. CASE p + HeaderSize <= L /\ ~(c[p + 1] = recIdEOF \/ p + HeaderSize + c[p + 2] > L)
    <3> DEFINE q == p + HeaderSize + c[p + 2]
    <3>1. c[p + 2] \in Nat
      BY <1>1, <1>c, <2>3 DEF HeaderSize
    <3>2. q \in 0..L
      BY <1>1, <2>3, <3>1 DEF HeaderSize
    <3> HIDE DEF q
    <3>3. h[q] = f[q]
      BY <3>2
    <3> HIDE DEF h
    <3>4. h[p + HeaderSize + c[p + 2]] = f[p + HeaderSize + c[p + 2]]
      BY <3>3 DEF q
    <3> QED
      BY <2>3, <3>4, Zenon DEF Found
  <2>4. p + HeaderSize > L \/ p + HeaderSize <= L
    BY <1>1 DEF HeaderSize
  <2> QED
    BY <2>1, <2>2, <2>3, <2>4
<1>9. \A p \in 0..L : h[p] = Found(h, c, p)
  BY <1>7, <1>8
<1>10. h = [p \in 0..L |-> h[p]]
  OBVIOUS
<1> HIDE DEF h
<1>11. h = [p \in 0..L |-> Found(h, c, p)]
  BY <1>9, <1>10
<1> QED
  BY <1>11

\* What RecordsIn reads is what such a walk finds from the beginning on.
LEMMA RecordsInWalks ==
  ASSUME NEW c \in Seq(Nat)
  PROVE  \E f : /\ \A p \in 0..Len(c) : f[p] = Found(f, c, p)
                /\ RecordsIn(c) = f[0]
<1> DEFINE from == CHOOSE f : f = [p \in 0..Len(c) |-> Found(f, c, p)]
<1>1. from = [p \in 0..Len(c) |-> Found(from, c, p)]
  BY WalksExist
<1>2. RecordsIn(c) = from[0]
  BY DEF RecordsIn, Found
<1> HIDE DEF from
<1>3. \A p \in 0..Len(c) : from[p] = Found(from, c, p)
  BY <1>1
<1> QED
  BY <1>2, <1>3
-----------------------------------------------------------------------------
(***************************************************************************)
(* Records laid one behind the other: the i-th of rs begins behind the     *)
(* first b[i] cells of c, and its data behind a header that tells its id   *)
(* and how long the data is.                                               *)
(***************************************************************************)
Entry == [id : RecId, data : Seq(Datum)]

Laid(c, rs, b) ==
  /\ b \in [1..(Len(rs) + 1) -> Nat]
  /\ b[1] = 0
  /\ \A i \in 1..Len(rs) :
       /\ b[i + 1] = b[i] + HeaderSize + Len(rs[i].data)
       /\ b[i + 1] <= Len(c)
       /\ c[b[i] + 1] = rs[i].id
       /\ c[b[i] + 2] = Len(rs[i].data)
       /\ \A j \in 1..Len(rs[i].data) : c[b[i] + HeaderSize + j] = rs[i].data[j]

\* A walk over the first cells stops behind the k-th record: nothing follows,
\* or a header that is cut short, says recIdEOF, or whose data is cut short.
Stops(d, p) ==
  \/ p + HeaderSize > Len(d)
  \/ d[p + 1] = recIdEOF
  \/ p + HeaderSize + d[p + 2] > Len(d)

\* Later records begin later.
LEMMA LaidMonotone ==
  ASSUME NEW c, NEW rs \in Seq(Entry), NEW b, Laid(c, rs, b)
  PROVE  \A n \in Nat : \A i \in 1..(Len(rs) + 1) : i + n <= Len(rs) + 1 => b[i] <= b[i + n]
<1> DEFINE P(n) == \A i \in 1..(Len(rs) + 1) : i + n <= Len(rs) + 1 => b[i] <= b[i + n]
           S == {n \in Nat : P(n)}
<1>t. Len(rs) \in Nat /\ \A i \in 1..(Len(rs) + 1) : b[i] \in Nat
  BY DEF Laid
<1>1. 0 \in S
  BY <1>t
<1>2. ASSUME NEW n \in Nat, n \in S PROVE n + 1 \in S
  <2> SUFFICES ASSUME NEW i \in 1..(Len(rs) + 1), i + (n + 1) <= Len(rs) + 1
               PROVE  b[i] <= b[i + (n + 1)]
    OBVIOUS
  <2>1. b[i] <= b[i + n]
    BY <1>2, <1>t
  <2>2. i + n \in 1..Len(rs) /\ i + n \in 1..(Len(rs) + 1) /\ (i + n) + 1 = i + (n + 1)
    BY <1>t
  <2>3. b[i + (n + 1)] = b[i + n] + HeaderSize + Len(rs[i + n].data)
    BY <2>2 DEF Laid
  <2>4. Len(rs[i + n].data) \in Nat
    <3>1. rs[i + n] \in Entry
      BY <2>2
    <3> QED
      BY <3>1 DEF Entry
  <2>5. b[i] \in Nat /\ b[i + n] \in Nat
    BY <1>t, <2>2
  <2> HIDE DEF S, P
  <2> QED
    BY <2>1, <2>3, <2>4, <2>5 DEF HeaderSize
<1>3. Nat \subseteq S
  <2> HIDE DEF S
  <2> QED
    BY <1>1, <1>2, SetOfAll
<1> QED
  BY <1>3

\* A walk over the first cells of c finds the records that lie in them, if it
\* stops behind them.
LEMMA WalkFinds ==
  ASSUME RecordAssumption,
         NEW c, NEW rs \in Seq(Entry), NEW b, Laid(c, rs, b),
         NEW d \in Seq(Nat), \A i \in 1..Len(d) : d[i] = c[i],
         NEW k \in 0..Len(rs), b[k + 1] <= Len(d), Stops(d, b[k + 1])
  PROVE  RecordsIn(d) = SubSeq(rs, 1, k)
<1>t. Len(rs) \in Nat /\ Len(d) \in Nat /\ \A i \in 1..(Len(rs) + 1) : b[i] \in Nat
  <2>1. b \in [1..(Len(rs) + 1) -> Nat]
    BY DEF Laid
  <2> QED
    BY <2>1
<1>d. \A i \in 1..Len(d) : d[i] \in Nat
  OBVIOUS
<1>1. PICK f : (\A p \in 0..Len(d) : f[p] = Found(f, d, p)) /\ RecordsIn(d) = f[0]
  BY RecordsInWalks
<1> DEFINE P(n) == n <= k => f[b[k + 1 - n]] = SubSeq(rs, k + 1 - n, k)
           S == {n \in Nat : P(n)}
<1>2. 0 \in S
  <2>1. b[k + 1] \in 0..Len(d)
    BY <1>t
  <2>2. Found(f, d, b[k + 1]) = << >>
    BY Zenon DEF Found, Stops
  <2>3. SubSeq(rs, k + 1, k) = << >>
    BY <1>t
  <2>4. f[b[k + 1]] = SubSeq(rs, k + 1, k)
    BY <1>1, <2>1, <2>2, <2>3
  <2>5. k + 1 - 0 = k + 1
    OBVIOUS
  <2> QED
    BY <2>4, <2>5
<1>3. ASSUME NEW n \in Nat, n \in S PROVE n + 1 \in S
  <2> SUFFICES ASSUME n + 1 <= k PROVE P(n + 1)
    OBVIOUS
  <2> DEFINE i == k - n
  <2>1. i \in 1..Len(rs) /\ i \in 1..k /\ i + 1 \in 1..(Len(rs) + 1)
    BY <1>t
  <2>2. k + 1 - (n + 1) = i /\ k + 1 - n = i + 1
    BY <1>t
  <2>3. f[b[i + 1]] = SubSeq(rs, i + 1, k)
    BY <1>3, <2>2
  <2>4. b[i + 1] <= b[k + 1]
    <3>1. i + 1 + n <= Len(rs) + 1 /\ i + 1 + n = k + 1
      BY <1>t
    <3> HIDE DEF i
    <3> QED
      BY <2>1, <3>1, LaidMonotone
  <2> HIDE DEF i, S, P
  <2> DEFINE e == rs[i]
             p == b[i]
             m == Len(e.data)
  <2>5. e \in Entry /\ e.data \in Seq(Datum) /\ e.id \in RecId /\ m \in Nat
    <3>1. e \in Entry
      BY <2>1
    <3> QED
      BY <3>1 DEF Entry
  <2>6. /\ b[i + 1] = p + HeaderSize + m
        /\ c[p + 1] = e.id /\ c[p + 2] = m
        /\ \A j \in 1..m : c[p + HeaderSize + j] = e.data[j]
    BY <2>1 DEF Laid
  <2>7. p \in Nat /\ b[i + 1] \in Nat /\ b[k + 1] \in Nat
    <3>1. i \in 1..(Len(rs) + 1) /\ k + 1 \in 1..(Len(rs) + 1)
      BY <2>1, <1>t
    <3> QED
      BY <2>1, <3>1, <1>t
  <2> HIDE DEF e, p, m
  <2>8. p + HeaderSize + m <= Len(d) /\ p \in 0..Len(d)
    BY <2>4, <2>5, <2>6, <2>7, <1>t DEF HeaderSize
  <2>9. d[p + 1] = e.id /\ d[p + 2] = m
    <3>1. p + 1 \in 1..Len(d) /\ p + 2 \in 1..Len(d)
      BY <2>5, <2>7, <2>8, <1>t DEF HeaderSize
    <3> QED
      BY <3>1, <2>6
  <2>10. \A j \in 1..m : d[p + HeaderSize + j] = e.data[j]
    <3>1. \A j \in 1..m : p + HeaderSize + j \in 1..Len(d)
      BY <2>5, <2>7, <2>8, <1>t DEF HeaderSize
    <3> QED
      BY <3>1, <2>6
  <2>11. SubSeq(d, p + HeaderSize + 1, p + HeaderSize + m) = e.data
    <3> DEFINE a == p + HeaderSize + 1
               z == p + HeaderSize + m
               q == SubSeq(d, a, z)
    <3>1. a \in 1..(z + 1) /\ a \in Nat /\ z \in Nat /\ z <= Len(d) /\ z - a + 1 = m
      BY <2>5, <2>7, <2>8, <1>t DEF HeaderSize
    <3>2. \A j \in 1..m : a + j - 1 = p + HeaderSize + j
      BY <2>7 DEF HeaderSize
    <3> HIDE DEF a, z
    <3>3. q \in Seq(Nat) /\ Len(q) = m /\ \A j \in 1..m : q[j] = d[a + j - 1]
      BY <3>1, <1>t, SubSeqProperties
    <3> HIDE DEF q
    <3>4. \A j \in 1..m : q[j] = e.data[j]
      BY <3>2, <3>3, <2>10
    <3>5. Len(e.data) = m
      BY DEF m
    <3>6. q = e.data
      BY <3>3, <3>4, <3>5, <2>5, SeqEqual
    <3> QED
      BY <3>6 DEF q, a, z
  <2>12. e.id # recIdEOF /\ e = [id |-> e.id, data |-> e.data]
    BY <2>5 DEF RecordAssumption, recIdEOF, Entry
  <2>13. ~(p + HeaderSize > Len(d)) /\ ~(p + HeaderSize + d[p + 2] > Len(d))
    BY <2>5, <2>7, <2>8, <2>9, <1>t DEF HeaderSize
  <2>14. Found(f, d, p) = <<e>> \o f[p + HeaderSize + m]
    BY <2>9, <2>11, <2>12, <2>13, Zenon DEF Found
  <2>15. f[p] = <<e>> \o SubSeq(rs, i + 1, k)
    BY <1>1, <2>3, <2>6, <2>8, <2>14
  <2>16. <<e>> \o SubSeq(rs, i + 1, k) = SubSeq(rs, i, k)
    <3> DEFINE x == <<e>> \o SubSeq(rs, i + 1, k)
               y == SubSeq(rs, i, k)
    <3>1. k \in Nat /\ k <= Len(rs) /\ i \in Nat /\ 1 <= i /\ i <= k
      BY <2>1, <1>t
    <3>2. /\ y \in Seq(Entry) /\ Len(y) = k - i + 1
          /\ \A j \in 1..(k - i + 1) : y[j] = rs[i + j - 1]
      BY <3>1, SubSeqProperties
    <3>3. /\ SubSeq(rs, i + 1, k) \in Seq(Entry) /\ Len(SubSeq(rs, i + 1, k)) = k - i
          /\ \A j \in 1..(k - i) : SubSeq(rs, i + 1, k)[j] = rs[i + j]
      BY <3>1, SubSeqProperties
    <3>4. /\ x \in Seq(Entry) /\ Len(x) = 1 + (k - i) /\ x[1] = e
          /\ \A j \in 1..(k - i) : x[1 + j] = SubSeq(rs, i + 1, k)[j]
      BY <2>5, <3>1, <3>3
    <3> HIDE DEF x, y
    <3>5. \A j \in 1..(k - i + 1) : x[j] = y[j]
      <4> SUFFICES ASSUME NEW j \in 1..(k - i + 1) PROVE x[j] = y[j]
        OBVIOUS
      <4>1. CASE j = 1
        BY <3>1, <3>2, <3>4, <4>1 DEF e
      <4>2. CASE j # 1
        <5>1. j - 1 \in 1..(k - i) /\ 1 + (j - 1) = j /\ i + (j - 1) = i + j - 1
          BY <3>1, <4>2
        <5>2. x[1 + (j - 1)] = SubSeq(rs, i + 1, k)[j - 1]
          BY <5>1, <3>4
        <5>3. SubSeq(rs, i + 1, k)[j - 1] = rs[i + (j - 1)]
          BY <5>1, <3>3
        <5>4. y[j] = rs[i + j - 1]
          BY <3>2
        <5> QED
          BY ONLY <5>1, <5>2, <5>3, <5>4
      <4> QED
        BY <4>1, <4>2
    <3>6. Len(x) = Len(y) /\ Len(y) = k - i + 1
      BY <3>1, <3>2, <3>4
    <3> QED
      BY <3>2, <3>4, <3>5, <3>6, SeqEqual DEF x, y
  <2> QED
    BY <2>2, <2>15, <2>16 DEF P, p
<1>4. k \in S
  <2> HIDE DEF S
  <2>1. Nat \subseteq S
    BY <1>2, <1>3, SetOfAll
  <2> QED
    BY <2>1, <1>t
<1>5. k + 1 - k = 1 /\ b[1] = 0
  BY <1>t DEF Laid
<1>6. f[b[k + 1 - k]] = SubSeq(rs, k + 1 - k, k)
  BY <1>4, <1>t
<1> QED
  BY <1>1, <1>5, <1>6
\* A reader of the first cells of c finds the first of its records, and all of
\* them if it has all cells.
LEMMA PrefixRead ==
  ASSUME RecordAssumption,
         NEW c \in Seq(Nat), NEW rs \in Seq(Entry), NEW b, Laid(c, rs, b),
         Len(c) = b[Len(rs) + 1] \/ c[b[Len(rs) + 1] + 1] = recIdEOF,
         NEW d \in Seq(Nat), Len(d) <= Len(c), \A i \in 1..Len(d) : d[i] = c[i]
  PROVE  \E k \in 0..Len(rs) : /\ RecordsIn(d) = SubSeq(rs, 1, k)
                               /\ Len(d) = Len(c) => k = Len(rs)
<1> DEFINE L == Len(rs)
           Largest(k) == b[k + 1] <= Len(d) /\ (k < L => b[k + 2] > Len(d))
           P(n) == n <= L => \E k \in 0..n : b[k + 1] <= Len(d) /\ (k < n => b[k + 2] > Len(d))
           S == {n \in Nat : P(n)}
<1>t. L \in Nat /\ Len(d) \in Nat /\ Len(c) \in Nat /\ \A i \in 1..(L + 1) : b[i] \in Nat
  <2>1. b \in [1..(L + 1) -> Nat]
    BY DEF Laid
  <2>2. L \in Nat /\ Len(d) \in Nat /\ Len(c) \in Nat
    OBVIOUS
  <2> HIDE DEF L
  <2> QED
    BY <2>1, <2>2
<1>1. 0 \in S
  <2>1. b[0 + 1] = 0 /\ 0 \in 0..0 /\ ~(0 < 0)
    BY DEF Laid
  <2>2. b[0 + 1] <= Len(d)
    BY <2>1, <1>t
  <2> HIDE DEF L
  <2>3. P(0)
    BY ONLY <2>1, <2>2
  <2> QED
    BY <2>3
<1>2. ASSUME NEW n \in Nat, n \in S PROVE n + 1 \in S
  <2> SUFFICES ASSUME n + 1 <= L
               PROVE  \E k \in 0..(n + 1) : b[k + 1] <= Len(d) /\ (k < n + 1 => b[k + 2] > Len(d))
    <3> HIDE DEF L
    <3>1. P(n + 1)
      OBVIOUS
    <3> QED
      BY <3>1
  <2>1. PICK k \in 0..n : b[k + 1] <= Len(d) /\ (k < n => b[k + 2] > Len(d))
    BY <1>2, <1>t
  <2> HIDE DEF S, P, L
  <2>2. CASE b[(n + 1) + 1] <= Len(d)
    <3>1. n + 1 \in 0..(n + 1) /\ ~(n + 1 < n + 1)
      OBVIOUS
    <3> QED
      BY <2>2, <3>1
  <2>3. CASE ~(b[(n + 1) + 1] <= Len(d))
    <3>1. n + 2 \in 1..(L + 1) /\ (n + 1) + 1 = n + 2
      BY <1>t
    <3>2. b[n + 2] > Len(d)
      BY <1>t, <2>3, <3>1
    <3>3. k \in 0..(n + 1) /\ (k < n \/ k = n)
      OBVIOUS
    <3> QED
      BY <2>1, <3>2, <3>3
  <2> QED
    BY <2>2, <2>3
<1>3. P(L)
  <2>1. L \in S
    <3> HIDE DEF S
    <3>1. Nat \subseteq S
      BY <1>1, <1>2, SetOfAll
    <3> QED
      BY <3>1, <1>t
  <2> QED
    BY <2>1
<1>4. PICK k \in 0..L : Largest(k)
  <2>1. L <= L
    BY <1>t
  <2> HIDE DEF L
  <2> QED
    BY <1>3, <2>1
<1>5. Stops(d, b[k + 1])
  <2>1. CASE k < L
    <3> DEFINE e == rs[k + 1]
               p == b[k + 1]
               m == Len(e.data)
    <3>1. k + 1 \in 1..L /\ (k + 1) + 1 = k + 2 /\ k + 1 \in 1..(L + 1)
      BY <2>1, <1>t
    <3>2. b[k + 2] = p + HeaderSize + m /\ c[p + 2] = m
      BY <3>1 DEF Laid
    <3>3. m \in Nat
      <4>1. e \in Entry
        BY <3>1
      <4> QED
        BY <4>1 DEF Entry
    <3>4. p \in Nat /\ p + HeaderSize + m > Len(d)
      BY <1>t, <1>4, <2>1, <3>1, <3>2
    <3> HIDE DEF e, p, m
    <3>5. CASE p + HeaderSize > Len(d)
      BY <3>5 DEF Stops, p
    <3>6. CASE ~(p + HeaderSize > Len(d))
      <4>1. p + 2 \in 1..Len(d)
        BY <1>t, <3>4, <3>6 DEF HeaderSize
      <4>2. d[p + 2] = m
        BY <4>1, <3>2
      <4> QED
        BY <3>4, <4>2 DEF Stops, p
    <3> QED
      BY <3>5, <3>6
  <2>2. CASE ~(k < L)
    <3> DEFINE p == b[k + 1]
    <3>1. k = L /\ k + 1 \in 1..(L + 1)
      BY <2>2, <1>t
    <3>2. p \in Nat /\ (Len(c) = p \/ c[p + 1] = recIdEOF)
      BY <3>1, <1>t
    <3> HIDE DEF p, L
    <3>3. CASE p + HeaderSize > Len(d)
      BY <3>3 DEF Stops, p
    <3>4. CASE ~(p + HeaderSize > Len(d))
      <4>1. p + 1 \in 1..Len(d) /\ Len(c) # p
        BY <1>t, <3>2, <3>4 DEF HeaderSize
      <4>2. d[p + 1] = recIdEOF
        BY <4>1, <3>2
      <4> QED
        BY <4>2 DEF Stops, p
    <3> QED
      BY <3>3, <3>4
  <2> QED
    BY <2>1, <2>2
<1>6. RecordsIn(d) = SubSeq(rs, 1, k)
  BY <1>4, <1>5, WalkFinds
<1>7. ASSUME Len(d) = Len(c), k < L PROVE FALSE
  <2>1. k + 1 \in 1..L /\ (k + 1) + 1 = k + 2 /\ k + 2 \in 1..(L + 1)
    BY <1>7, <1>t
  <2>2. b[k + 2] <= Len(c)
    BY <2>1 DEF Laid
  <2> QED
    BY <1>4, <1>7, <1>t, <2>1, <2>2
<1>8. Len(d) = Len(c) => k = L
  BY <1>7, <1>t
<1> QED
  BY <1>6, <1>8

\* Cells behind the records leave them what they are.
LEMMA LaidKept ==
  ASSUME NEW c, NEW rs \in Seq(Entry), NEW b, Laid(c, rs, b),
         NEW d, Len(c) \in Nat, Len(d) \in Nat, b[Len(rs) + 1] <= Len(d),
         \A i \in 1..b[Len(rs) + 1] : d[i] = c[i]
  PROVE  Laid(d, rs, b)
<1> DEFINE L == Len(rs)
<1>t. L \in Nat /\ \A i \in 1..(L + 1) : b[i] \in Nat
  <2>1. b \in [1..(L + 1) -> Nat]
    BY DEF Laid
  <2> QED
    BY <2>1
<1>1. ASSUME NEW i \in 1..L
      PROVE  /\ b[i + 1] <= Len(d)
             /\ d[b[i] + 1] = rs[i].id
             /\ d[b[i] + 2] = Len(rs[i].data)
             /\ \A j \in 1..Len(rs[i].data) : d[b[i] + HeaderSize + j] = rs[i].data[j]
  <2> DEFINE p == b[i]
             m == Len(rs[i].data)
             z == b[L + 1]
  <2>1. /\ b[i + 1] = p + HeaderSize + m
        /\ c[p + 1] = rs[i].id /\ c[p + 2] = m
        /\ \A j \in 1..m : c[p + HeaderSize + j] = rs[i].data[j]
    BY DEF Laid
  <2>2. b[i + 1] <= z
    <3>1. i + 1 \in 1..(L + 1) /\ L - i \in Nat /\ (i + 1) + (L - i) <= L + 1 /\ (i + 1) + (L - i) = L + 1
      BY <1>t
    <3> QED
      BY <3>1, LaidMonotone
  <2>3. m \in Nat /\ p \in Nat /\ z \in Nat
    <3>1. rs[i] \in Entry
      OBVIOUS
    <3>2. m \in Nat
      BY <3>1 DEF Entry
    <3> QED
      BY <3>2, <1>t
  <2>4. z <= Len(d) /\ \A j \in 1..z : d[j] = c[j]
    OBVIOUS
  <2> HIDE DEF p, m, z, L
  <2>5. p + 1 \in 1..z /\ p + 2 \in 1..z /\ \A j \in 1..m : p + HeaderSize + j \in 1..z
    BY <2>1, <2>2, <2>3 DEF HeaderSize
  <2>6. b[i + 1] <= Len(d)
    BY <2>1, <2>2, <2>3, <2>4 DEF HeaderSize
  <2>7. d[p + 1] = c[p + 1] /\ d[p + 2] = c[p + 2]
        /\ \A j \in 1..m : d[p + HeaderSize + j] = c[p + HeaderSize + j]
    BY <2>4, <2>5
  <2> QED
    BY <2>1, <2>6, <2>7 DEF p, m
<1> QED
  BY <1>1 DEF Laid

\* One more record behind them.
LEMMA LaidMore ==
  ASSUME NEW c, Len(c) \in Nat, NEW rs \in Seq(Entry), NEW b, Laid(c, rs, b),
         NEW e \in Entry, NEW p, p = b[Len(rs) + 1],
         p + HeaderSize + Len(e.data) = Len(c),
         c[p + 1] = e.id, c[p + 2] = Len(e.data),
         \A j \in 1..Len(e.data) : c[p + HeaderSize + j] = e.data[j]
  PROVE  \E a : Laid(c, Append(rs, e), a) /\ a[Len(Append(rs, e)) + 1] = Len(c)
<1> DEFINE L == Len(rs)
           a == [i \in 1..(L + 2) |-> IF i = L + 2 THEN Len(c) ELSE b[i]]
           more == Append(rs, e)
<1>t. L \in Nat /\ \A i \in 1..(L + 1) : b[i] \in Nat
  <2>1. b \in [1..(L + 1) -> Nat]
    BY DEF Laid
  <2> QED
    BY <2>1
<1>1. /\ more \in Seq(Entry) /\ Len(more) = L + 1
      /\ \A i \in 1..L : more[i] = rs[i]
      /\ more[L + 1] = e
  OBVIOUS
<1>2. a \in [1..((L + 1) + 1) -> Nat]
  <2>1. (L + 1) + 1 = L + 2
    BY <1>t
  <2> HIDE DEF L
  <2> QED
    BY <1>t, <2>1
<1>3. \A i \in 1..(L + 1) : a[i] = b[i]
  <2> HIDE DEF L
  <2> QED
    BY <1>t
<1>4. a[L + 2] = Len(c)
  BY <1>t
<1> HIDE DEF a, more, L
<1>5. a[1] = 0
  BY <1>3, <1>t DEF Laid
<1>6. ASSUME NEW i \in 1..(L + 1)
      PROVE  /\ a[i + 1] = a[i] + HeaderSize + Len(more[i].data)
             /\ a[i + 1] <= Len(c)
             /\ c[a[i] + 1] = more[i].id
             /\ c[a[i] + 2] = Len(more[i].data)
             /\ \A j \in 1..Len(more[i].data) : c[a[i] + HeaderSize + j] = more[i].data[j]
  <2>1. CASE i = L + 1
    <3>1. i + 1 = L + 2 /\ a[i] = p /\ more[i] = e
      BY <1>1, <1>3, <1>t, <2>1 DEF L
    <3> QED
      BY <3>1, <1>4
  <2>2. CASE i # L + 1
    <3>1. i \in 1..L /\ i + 1 \in 1..(L + 1)
      BY <1>t, <2>2
    <3>2. a[i] = b[i] /\ a[i + 1] = b[i + 1] /\ more[i] = rs[i]
      BY <3>1, <1>1, <1>3
    <3> QED
      BY <3>1, <3>2 DEF Laid, L
  <2> QED
    BY <2>1, <2>2
<1>7. Laid(c, more, a)
  BY <1>1, <1>2, <1>5, <1>6 DEF Laid
<1>8. a[Len(more) + 1] = Len(c)
  BY <1>1, <1>4, <1>t
<1> QED
  BY <1>7, <1>8 DEF more
-----------------------------------------------------------------------------
(***************************************************************************)
(* The inductive invariant: the descriptor is at the end of the file, so   *)
(* that the content is the file and the buffer behind it; the records      *)
(* ended are laid out in it one behind the other; and behind them there is *)
(* nothing, or the header of the open record, which says recIdEOF until    *)
(* the record is ended, and its data.                                      *)
(***************************************************************************)
RTypeOK ==
  /\ wr \in Archive /\ Len(wr.buf) <= BufSize /\ wr.faults = 0
  /\ wr.hp = Len(wr.file) /\ wmode = "write"
  /\ Content(wr) \in Seq(Nat)
  /\ recId \in RecId \cup {recIdEOF} /\ offset \in Nat
  /\ records \in Seq(Entry) /\ data \in Seq(Datum)

LaidOut(c, b) ==
  /\ Laid(c, records, b)
  /\ IF recId = recIdEOF
     THEN Len(c) = b[Len(records) + 1]
     ELSE /\ offset = b[Len(records) + 1] + HeaderSize
          /\ Len(c) = offset + Len(data)
          /\ c[b[Len(records) + 1] + 1] = recIdEOF
          /\ \A j \in 1..Len(data) : c[offset + j] = data[j]

RInv == RTypeOK /\ \E b : LaidOut(Content(wr), b)

\* With the descriptor at the end the content is the file and then the buffer.
LEMMA ContentAtEnd ==
  ASSUME NEW w \in Archive, w.hp = Len(w.file)
  PROVE  /\ Content(w) = w.file \o w.buf
         /\ Content(w) \in Seq(Int) /\ Len(Content(w)) = Tell(w)
         /\ w.file \in Seq(Int) /\ Len(w.file) <= Len(Content(w))
         /\ \A i \in 1..Len(w.file) : Content(w)[i] = w.file[i]
<1>t. w.file \in Seq(Int) /\ w.buf \in Seq(Int)
  BY DEF Archive
<1>1. Content(w) = w.file \o w.buf
  BY <1>t, OverlayAtEnd DEF Content
<1> DEFINE f == w.file
           g == w.buf
           h == w.hp
           c == Content(w)
<1>2. f \in Seq(Int) /\ g \in Seq(Int) /\ c = f \o g /\ h = Len(f) /\ Tell(w) = h + Len(g)
  BY <1>t, <1>1 DEF Tell
<1> HIDE DEF f, g, h, c
<1>3. /\ f \o g \in Seq(Int) /\ Len(f \o g) = Len(f) + Len(g)
      /\ \A i \in 1..(Len(f) + Len(g)) : (f \o g)[i] = IF i <= Len(f) THEN f[i] ELSE g[i - Len(f)]
  BY <1>2, ConcatProperties
<1>4. Len(f) \in Nat /\ Len(g) \in Nat
  BY <1>2
<1>5. /\ c \in Seq(Int) /\ Len(c) = Tell(w) /\ Len(f) <= Len(c)
      /\ \A i \in 1..Len(f) : c[i] = f[i]
  BY ONLY <1>2, <1>3, <1>4
<1> QED
  BY <1>1, <1>2, <1>5 DEF f, g, h, c

\* A put appends to the content.
LEMMA RecordPut ==
  ASSUME MaxShort = 0, wmode = "write", NEW w \in Archive, Len(w.buf) <= BufSize,
         w.hp = Len(w.file), NEW s \in Seq(Int), NEW r \in PutBytes(w, s)
  PROVE  /\ r.w \in Archive /\ Len(r.w.buf) <= BufSize /\ r.w.faults = w.faults
         /\ r.w.hp = Len(r.w.file)
         /\ Content(r.w) = Content(w) \o s
<1>1. PutAll(w, s, r)
  BY PutBytesOutcome
<1>2. r.w.faults = w.faults
  BY WholePutBytes
<1>3. r.w \in Archive /\ Len(r.w.buf) <= BufSize /\ r.w.hp = Len(r.w.file)
      /\ Content(r.w) = Overlay(Content(w), Tell(w), s)
  BY <1>1, <1>2 DEF PutAll, Outcome, AtEnd
<1>4. Content(w) \in Seq(Int) /\ Len(Content(w)) = Tell(w)
  BY ContentAtEnd
<1>5. Overlay(Content(w), Len(Content(w)), s) = Content(w) \o s
  BY <1>4, OverlayAtEnd
<1> QED
  BY <1>2, <1>3, <1>4, <1>5

\* A flush leaves it what it is.
LEMMA RecordFlush ==
  ASSUME MaxShort = 0, wmode = "write", NEW w \in Archive, Len(w.buf) <= BufSize,
         w.hp = Len(w.file), NEW r \in ClearCache(w)
  PROVE  /\ r.w \in Archive /\ Len(r.w.buf) <= BufSize /\ r.w.faults = w.faults
         /\ r.w.hp = Len(r.w.file)
         /\ Content(r.w) = Content(w)
<1>1. r.w.faults = w.faults
  BY WholeClear
<1>2. /\ r.w \in Archive /\ Len(r.w.buf) <= BufSize /\ r.w.buf = << >>
      /\ r.w.hp = Len(r.w.file) /\ r.w.file = Content(w)
  BY <1>1, ClearCacheOutcome DEF Outcome, AtEnd
<1>3. Content(r.w) = r.w.file
  BY <1>2 DEF Content, Overlay
<1> QED
  BY <1>1, <1>2, <1>3

\* What a call leaves is in wr.
LEMMA EndsWith ==
  ASSUME NEW outcomes, NEW isPut, Ends(outcomes, isPut)
  PROVE  wmode' = wmode /\ \E r \in outcomes : wr' = r.w
BY DEF Ends

\* The file is new.
LEMMA RInitRInv == ASSUME RecordAssumption PROVE RInit => RInv
<1> SUFFICES ASSUME RInit PROVE RInv
  OBVIOUS
<1>1. wmode = "write"
  BY WriteClientAssumption DEF RInit, WInit, CanOpen, WriteSizesAssumption
<1>2. wr = [file |-> << >>, hp |-> 0, buf |-> << >>, faults |-> 0]
  BY <1>1 DEF RInit, WInit, Fresh
<1>3. wr \in Archive /\ Len(wr.buf) <= BufSize /\ wr.faults = 0 /\ wr.hp = Len(wr.file)
  BY <1>2, WriteClientAssumption DEF Archive, WriteSizesAssumption
<1>4. Content(wr) = << >>
  BY <1>2 DEF Content, Overlay
<1>5. RTypeOK
  BY <1>1, <1>3, <1>4 DEF RTypeOK, RInit, recIdEOF
<1> DEFINE b == [i \in 1..1 |-> 0]
<1>6. records = << >> /\ Len(records) = 0 /\ recId = recIdEOF
  BY DEF RInit
<1>7. b \in [1..(0 + 1) -> Nat] /\ b[1] = 0
  OBVIOUS
<1> HIDE DEF b
<1>8. Laid(<< >>, records, b)
  BY <1>6, <1>7 DEF Laid
<1>9. LaidOut(Content(wr), b)
  BY <1>4, <1>6, <1>7, <1>8 DEF LaidOut
<1> QED
  BY <1>5, <1>9 DEF RInv

\* Numbers behind numbers.
LEMMA ConcatCells ==
  ASSUME NEW c \in Seq(Nat), NEW s \in Seq(Nat)
  PROVE  /\ c \o s \in Seq(Nat) /\ Len(c \o s) = Len(c) + Len(s)
         /\ \A i \in 1..Len(c) : (c \o s)[i] = c[i]
         /\ \A i \in 1..Len(s) : (c \o s)[Len(c) + i] = s[i]
<1>1. /\ c \o s \in Seq(Nat) /\ Len(c \o s) = Len(c) + Len(s)
      /\ \A i \in 1..(Len(c) + Len(s)) : (c \o s)[i] = IF i <= Len(c) THEN c[i] ELSE s[i - Len(c)]
  BY ConcatProperties
<1>2. Len(c) \in Nat /\ Len(s) \in Nat
  OBVIOUS
<1> QED
  BY <1>1, <1>2

\* Where the records end, cells behind them leave them what they are.
LEMMA LaidBehind ==
  ASSUME NEW c \in Seq(Nat), NEW rs \in Seq(Entry), NEW b, Laid(c, rs, b), NEW s \in Seq(Nat),
         b[Len(rs) + 1] <= Len(c)
  PROVE  Laid(c \o s, rs, b)
<1>1. Len(c) \in Nat /\ Len(s) \in Nat /\ Len(c \o s) = Len(c) + Len(s)
      /\ \A i \in 1..Len(c) : (c \o s)[i] = c[i]
  BY ConcatCells
<1>2. b[Len(rs) + 1] \in Nat
  <2>1. b \in [1..(Len(rs) + 1) -> Nat]
    BY DEF Laid
  <2>2. Len(rs) + 1 \in 1..(Len(rs) + 1)
    OBVIOUS
  <2> QED
    BY <2>1, <2>2
<1>3. Len(c \o s) \in Nat /\ b[Len(rs) + 1] <= Len(c \o s)
      /\ \A i \in 1..b[Len(rs) + 1] : (c \o s)[i] = c[i]
  BY <1>1, <1>2
<1> QED
  BY <1>1, <1>3, LaidKept
\* The numbers the writer is given.
LEMMA CellsAreNumbers ==
  ASSUME RecordAssumption
  PROVE  /\ Datum \subseteq Nat /\ RecId \subseteq Nat \ {0}
         /\ Seq(Datum) \subseteq Seq(Nat) /\ Seq(Nat) \subseteq Seq(Int)
<1>1. Datum \subseteq Nat /\ RecId \subseteq Nat \ {0}
  BY DEF RecordAssumption
<1>2. Seq(Datum) \subseteq Seq(Nat)
  <2> SUFFICES ASSUME NEW s \in Seq(Datum) PROVE s \in Seq(Nat)
    OBVIOUS
  <2>1. \A i \in 1..Len(s) : s[i] \in Datum
    OBVIOUS
  <2>2. \A i \in 1..Len(s) : s[i] \in Nat
    BY <1>1, <2>1
  <2> QED
    BY <2>2
<1>3. Seq(Nat) \subseteq Seq(Int)
  OBVIOUS
<1> QED
  BY <1>1, <1>2, <1>3

\* The end of the records is at most the end of the content.
LEMMA RecordsEnd ==
  ASSUME RTypeOK, NEW c \in Seq(Nat), NEW b, LaidOut(c, b)
  PROVE  b[Len(records) + 1] \in Nat /\ b[Len(records) + 1] <= Len(c)
<1>1. b[Len(records) + 1] \in Nat
  <2>1. b \in [1..(Len(records) + 1) -> Nat]
    BY DEF LaidOut, Laid
  <2>2. Len(records) + 1 \in 1..(Len(records) + 1)
    BY DEF RTypeOK
  <2> QED
    BY <2>1, <2>2
<1>2. Len(data) \in Nat /\ Len(c) \in Nat
  BY DEF RTypeOK
<1>3. CASE recId = recIdEOF
  BY <1>1, <1>2, <1>3 DEF LaidOut
<1>4. CASE recId # recIdEOF
  <2>1. Len(c) = b[Len(records) + 1] + HeaderSize + Len(data)
    BY <1>4 DEF LaidOut
  <2> QED
    BY <1>1, <1>2, <2>1 DEF HeaderSize
<1> QED
  BY <1>1, <1>3, <1>4

\* begin_record puts a header that says there is no record yet.
LEMMA BeginRecordStep ==
  ASSUME RecordAssumption, RInv, NEW id \in RecId, BeginRecord(id)
  PROVE  RInv'
<1> DEFINE c == Content(wr)
           s == Header(recIdEOF, 0)
           d == Content(wr')
<1>t. RTypeOK /\ c \in Seq(Nat) /\ MaxShort = 0
  BY DEF RInv, RTypeOK, RecordAssumption
<1>s. s \in Seq(Nat) /\ s \in Seq(Int) /\ Len(s) = 2 /\ s[1] = 0 /\ s[2] = 0
  BY DEF Header, recIdEOF
<1>1. recId = recIdEOF /\ recId' = id /\ offset' = Tell(wr') /\ data' = << >> /\ records' = records
  BY DEF BeginRecord
<1>2. wmode' = wmode /\ \E r \in PutBytes(wr, s) : wr' = r.w
  BY EndsWith DEF BeginRecord
<1> HIDE DEF s
<1>3. /\ wr' \in Archive /\ Len(wr'.buf) <= BufSize /\ wr'.faults = 0
      /\ wr'.hp = Len(wr'.file) /\ d = c \o s
  BY <1>t, <1>s, <1>2, RecordPut DEF RTypeOK
<1>4. Len(d) = Tell(wr')
  BY <1>3, ContentAtEnd
<1> HIDE DEF c, d
<1>5. /\ d \in Seq(Nat) /\ Len(d) = Len(c) + 2
      /\ d[Len(c) + 1] = 0
  <2>1. d \in Seq(Nat) /\ Len(d) = Len(c) + Len(s) /\ \A i \in 1..Len(s) : d[Len(c) + i] = s[i]
    BY <1>t, <1>s, <1>3, ConcatCells
  <2>2. 1 \in 1..Len(s)
    BY <1>s
  <2> QED
    BY <1>s, <2>1, <2>2
<1>6. PICK b : LaidOut(c, b)
  BY DEF RInv, c
<1> DEFINE z == b[Len(records) + 1]
<1>7. z = Len(c) /\ Laid(c, records, b) /\ Len(c) \in Nat
  BY <1>1, <1>6, <1>t DEF LaidOut
<1>8. Laid(d, records, b)
  <2>1. z <= Len(c)
    BY <1>7
  <2> QED
    BY <1>3, <1>7, <1>s, <1>t, <2>1, LaidBehind DEF RTypeOK
<1>9. offset' \in Nat /\ offset' = z + HeaderSize /\ Len(d) = offset' + Len(data') /\ d[z + 1] = recIdEOF
  BY <1>1, <1>4, <1>5, <1>7 DEF HeaderSize, recIdEOF
<1>10. RTypeOK'
  <2>1. recId' \in RecId \cup {recIdEOF} /\ records' \in Seq(Entry) /\ data' \in Seq(Datum)
    BY <1>1, <1>t DEF RTypeOK
  <2>2. Content(wr)' \in Seq(Nat)
    BY <1>5 DEF d
  <2> QED
    BY <1>t, <1>2, <1>3, <1>9, <2>1, <2>2 DEF RTypeOK
<1>11. LaidOut(Content(wr), b)'
  <2>1. recId' # recIdEOF
    BY <1>1, CellsAreNumbers DEF recIdEOF
  <2>2. \A j \in 1..Len(data') : d[offset' + j] = data'[j]
    BY <1>1
  <2> QED
    BY <1>1, <1>8, <1>9, <2>1, <2>2 DEF LaidOut, z, d
<1> QED
  BY <1>10, <1>11 DEF RInv

\* put appends to the data of the open record.
LEMMA PutDataStep ==
  ASSUME RecordAssumption, RInv, NEW s \in Seq(Datum), PutData(s)
  PROVE  RInv'
<1> DEFINE c == Content(wr)
           d == Content(wr')
<1>t. RTypeOK /\ c \in Seq(Nat) /\ MaxShort = 0
  BY DEF RInv, RTypeOK, RecordAssumption
<1>s. s \in Seq(Nat) /\ s \in Seq(Int)
  BY CellsAreNumbers
<1>1. recId # recIdEOF /\ recId' = recId /\ offset' = offset /\ data' = data \o s /\ records' = records
  BY DEF PutData
<1>2. wmode' = wmode /\ \E r \in PutBytes(wr, s) : wr' = r.w
  BY EndsWith DEF PutData
<1>3. /\ wr' \in Archive /\ Len(wr'.buf) <= BufSize /\ wr'.faults = 0
      /\ wr'.hp = Len(wr'.file) /\ d = c \o s
  BY <1>t, <1>s, <1>2, RecordPut DEF RTypeOK
<1> HIDE DEF c, d
<1>5. /\ d \in Seq(Nat) /\ Len(d) = Len(c) + Len(s)
      /\ \A i \in 1..Len(c) : d[i] = c[i]
      /\ \A i \in 1..Len(s) : d[Len(c) + i] = s[i]
  BY <1>t, <1>s, <1>3, ConcatCells
<1>6. PICK b : LaidOut(c, b)
  BY DEF RInv, c
<1> DEFINE z == b[Len(records) + 1]
<1>7. /\ Laid(c, records, b) /\ Len(c) \in Nat /\ offset = z + HeaderSize
      /\ Len(c) = offset + Len(data) /\ c[z + 1] = recIdEOF
      /\ \A j \in 1..Len(data) : c[offset + j] = data[j]
  BY <1>1, <1>6, <1>t DEF LaidOut
<1>8. z \in Nat /\ z <= Len(c)
  BY <1>6, <1>t, RecordsEnd
<1>9. Laid(d, records, b)
  BY <1>3, <1>7, <1>8, <1>s, <1>t, LaidBehind DEF RTypeOK
<1> HIDE DEF z
<1>10. /\ data' \in Seq(Datum) /\ Len(data') = Len(data) + Len(s)
       /\ \A j \in 1..(Len(data) + Len(s)) : data'[j] = IF j <= Len(data) THEN data[j] ELSE s[j - Len(data)]
  BY <1>1, <1>t, ConcatProperties DEF RTypeOK
<1>n. Len(data) \in Nat /\ Len(s) \in Nat /\ offset \in Nat
  BY <1>t DEF RTypeOK
<1>11. RTypeOK'
  <2>1. recId' \in RecId \cup {recIdEOF} /\ records' \in Seq(Entry) /\ offset' \in Nat
    BY <1>1, <1>t DEF RTypeOK
  <2>2. Content(wr)' \in Seq(Nat)
    BY <1>5 DEF d
  <2> QED
    BY <1>t, <1>2, <1>3, <1>10, <2>1, <2>2 DEF RTypeOK
<1>12. LaidOut(Content(wr), b)'
  <2>1. d[z + 1] = recIdEOF
    <3>1. z + 1 \in 1..Len(c)
      BY <1>7, <1>8, <1>n DEF HeaderSize
    <3> QED
      BY <3>1, <1>5, <1>7
  <2>2. Len(d) = offset' + Len(data')
    BY <1>1, <1>5, <1>7, <1>10, <1>n
  <2>3. ASSUME NEW j \in 1..Len(data') PROVE d[offset' + j] = data'[j]
    <3>1. CASE j <= Len(data)
      <4>1. j \in 1..Len(data) /\ offset + j \in 1..Len(c) /\ j \in 1..(Len(data) + Len(s))
        BY <1>7, <1>10, <1>n, <3>1
      <4> QED
        BY <1>1, <1>5, <1>7, <1>10, <3>1, <4>1
    <3>2. CASE ~(j <= Len(data))
      <4>1. j \in 1..(Len(data) + Len(s)) /\ j - Len(data) \in 1..Len(s)
            /\ Len(c) + (j - Len(data)) = offset + j
        BY <1>7, <1>10, <1>n, <3>2
      <4>2. d[Len(c) + (j - Len(data))] = s[j - Len(data)]
        BY <1>5, <4>1
      <4> QED
        BY <1>1, <1>10, <3>2, <4>1, <4>2
    <3> QED
      BY <3>1, <3>2
  <2> QED
    BY <1>1, <1>7, <1>9, <2>1, <2>2, <2>3 DEF LaidOut, z, d
<1> QED
  BY <1>11, <1>12 DEF RInv

\* d is c with a header put over two of its cells: the others stay.
HeaderPut(d, c, z, id, n) ==
  /\ d \in Seq(Nat) /\ Len(d) = Len(c)
  /\ d[z + 1] = id /\ d[z + 2] = n
  /\ \A i \in 1..Len(c) : i <= z \/ i > z + 2 => d[i] = c[i]

\* That is what is laid over the cells.
LEMMA HeaderOver ==
  ASSUME NEW c \in Seq(Nat), NEW z \in Nat, z + 2 <= Len(c), NEW id \in Nat, NEW n \in Nat,
         NEW d, d = Overlay(c, z, Header(id, n))
  PROVE  HeaderPut(d, c, z, id, n)
<1> DEFINE s == Header(id, n)
<1>d. d = Overlay(c, z, s)
  OBVIOUS
<1>1. s \in Seq(Nat) /\ s \in Seq(Int) /\ c \in Seq(Int) /\ Len(s) = 2 /\ s[1] = id /\ s[2] = n /\ s # << >>
  BY DEF Header
<1>n. Len(c) \in Nat /\ \A i \in 1..Len(c) : c[i] \in Nat
  OBVIOUS
<1> HIDE DEF s
<1>2. /\ d \in Seq(Int) /\ Len(d) = Len(c)
      /\ \A i \in 1..Len(c) : d[i] = IF i \in (z + 1)..(z + 2) THEN s[i - z]
                                     ELSE IF i <= Len(c) THEN c[i] ELSE Hole
  <2> DEFINE m == IF z + Len(s) > Len(c) THEN z + Len(s) ELSE Len(c)
  <2>1. m = Len(c) /\ z + Len(s) = z + 2
    BY <1>1, <1>n
  <2>2. /\ d \in Seq(Int) /\ Len(d) = m
        /\ \A i \in 1..m : d[i] = IF i \in (z + 1)..(z + Len(s)) THEN s[i - z]
                                  ELSE IF i <= Len(c) THEN c[i] ELSE Hole
    <3>1. c \in Seq(Int) /\ s \in Seq(Int) /\ s # << >>
      BY <1>1
    <3> QED
      BY ONLY <1>d, <3>1, z \in Nat, OverlayProperties
  <2> HIDE DEF m
  <2> QED
    BY <2>1, <2>2
<1>3. d[z + 1] = id
  <2>1. z + 1 \in 1..Len(c) /\ z + 1 \in (z + 1)..(z + 2) /\ z + 1 - z = 1
    BY <1>n
  <2>2. d[z + 1] = s[z + 1 - z]
    BY <1>2, <2>1
  <2> QED
    BY <1>1, <2>1, <2>2
<1>4. d[z + 2] = n
  <2>1. z + 2 \in 1..Len(c) /\ z + 2 \in (z + 1)..(z + 2) /\ z + 2 - z = 2
    BY <1>n
  <2>2. d[z + 2] = s[z + 2 - z]
    BY <1>2, <2>1
  <2> QED
    BY <1>1, <2>1, <2>2
<1>5. ASSUME NEW i \in 1..Len(c), i <= z \/ i > z + 2 PROVE d[i] = c[i]
  <2>1. ~(i \in (z + 1)..(z + 2)) /\ i <= Len(c)
    BY <1>5, <1>n
  <2> QED
    BY <1>2, <2>1
<1>6. \A i \in 1..Len(c) : d[i] \in Nat
  <2> SUFFICES ASSUME NEW i \in 1..Len(c) PROVE d[i] \in Nat
    OBVIOUS
  <2>1. i = z + 1 \/ i = z + 2 \/ i <= z \/ i > z + 2
    BY <1>n
  <2> QED
    BY <1>3, <1>4, <1>5, <1>n, <2>1
<1>7. d \in Seq(Nat)
  <2>1. \A i \in 1..Len(d) : d[i] \in Nat
    BY <1>2, <1>6
  <2>2. d \in Seq(Int)
    BY <1>2
  <2> QED
    BY ONLY <2>1, <2>2
<1> QED
  BY <1>2, <1>3, <1>4, <1>5, <1>7 DEF HeaderPut

\* end_record goes back to put the header that tells of the record.
LEMMA EndRecordStep ==
  ASSUME RecordAssumption, RInv, EndRecord
  PROVE  RInv'
<1> DEFINE c == Content(wr)
           d == Content(wr')
           L == Len(data)
           back == Tell(wr) - offset + HeaderSize
           s == Header(recId, Tell(wr) - offset)
<1>t. RTypeOK /\ c \in Seq(Nat) /\ MaxShort = 0
  BY DEF RInv, RTypeOK, RecordAssumption
<1>1. /\ recId # recIdEOF /\ recId' = recIdEOF /\ offset' = offset /\ data' = data
      /\ records' = Append(records, [id |-> recId, data |-> data])
  BY DEF EndRecord
<1>2. wmode' = wmode /\ \E r \in ReputBytes(wr, back, s) : wr' = r.w
  BY EndsWith DEF EndRecord
<1>3. Len(c) = Tell(wr)
  BY <1>t, ContentAtEnd DEF RTypeOK
<1> HIDE DEF c
<1>4. PICK b : LaidOut(c, b)
  BY DEF RInv, c
<1> DEFINE z == b[Len(records) + 1]
<1>5. /\ Laid(c, records, b) /\ Len(c) \in Nat /\ offset = z + HeaderSize
      /\ Len(c) = offset + L
      /\ \A j \in 1..L : c[offset + j] = data[j]
  BY <1>1, <1>4, <1>t DEF LaidOut
<1>6. z \in Nat /\ z <= Len(c)
  BY <1>4, <1>t, RecordsEnd
<1>n. L \in Nat /\ offset \in Nat /\ recId \in Nat /\ recId \in RecId /\ data \in Seq(Datum)
  BY <1>t, <1>1, CellsAreNumbers DEF RTypeOK
<1> HIDE DEF z
<1>7. back = L + 2 /\ s = Header(recId, L) /\ Tell(wr) - back = z
      /\ back \in Nat /\ back <= Tell(wr) /\ 2 <= back /\ z + 2 + L = Len(c)
  <2> HIDE DEF L
  <2>1. Tell(wr) - offset = L
    BY <1>3, <1>5, <1>n
  <2>2. back = L + 2
    BY <2>1, <1>n DEF HeaderSize
  <2>3. Tell(wr) = z + 2 + L
    BY <1>3, <1>5, <1>6, <1>n DEF HeaderSize
  <2> HIDE DEF back
  <2> QED
    BY <1>3, <1>6, <1>n, <2>1, <2>2, <2>3
<1>s. s \in Seq(Int) /\ Len(s) = 2
  <2> HIDE DEF L
  <2>1. s = <<recId, L>>
    BY <1>7 DEF Header
  <2> HIDE DEF s
  <2> QED
    BY <2>1, <1>n
<1> HIDE DEF back, s
<1>8. PICK r \in ReputBytes(wr, back, s) : wr' = r.w
  BY <1>2
<1>9. /\ wr' \in Archive /\ Len(wr'.buf) <= BufSize /\ wr'.faults = 0
      /\ wr'.hp = Len(wr'.file) /\ d = Overlay(c, z, s)
  <2>1. wr \in Archive /\ Len(wr.buf) <= BufSize /\ wr.hp = Len(wr.file) /\ wr.faults = 0
        /\ wmode # "append"
    BY <1>t DEF RTypeOK
  <2>2. Len(s) <= back
    BY <1>7, <1>s
  <2>3. r.w.faults = wr.faults /\ r.w.hp = Len(r.w.file)
    BY <1>t, <1>7, <1>8, <1>s, <2>1, <2>2, WholeReput
  <2>4. Outcome(wr, r) /\ Content(r.w) = Overlay(Content(wr), Tell(wr) - back, s)
    BY <1>7, <1>8, <1>s, <2>1, <2>2, <2>3, ReputBytesOutcome
  <2> QED
    BY <1>7, <1>8, <2>1, <2>3, <2>4 DEF Outcome, c
<1> HIDE DEF d, L
<1>10. /\ d \in Seq(Nat) /\ Len(d) = Len(c)
       /\ d[z + 1] = recId /\ d[z + 2] = L
       /\ \A i \in 1..Len(c) : i <= z \/ i > z + 2 => d[i] = c[i]
  <2>1. z + 2 <= Len(c)
    BY <1>6, <1>7, <1>n
  <2>2. d = Overlay(c, z, Header(recId, L))
    BY <1>7, <1>9
  <2>3. c \in Seq(Nat) /\ z \in Nat /\ recId \in Nat /\ L \in Nat
    BY <1>6, <1>n, <1>t
  <2>4. HeaderPut(d, c, z, recId, L)
    BY ONLY <2>1, <2>2, <2>3, HeaderOver
  <2> QED
    BY ONLY <2>4 DEF HeaderPut
<1>11. Laid(d, records, b)
  <2>1. z <= Len(d) /\ Len(d) \in Nat /\ \A i \in 1..z : d[i] = c[i]
    BY <1>5, <1>6, <1>10
  <2> QED
    BY <1>5, <1>t, <2>1, LaidKept DEF RTypeOK, z
<1> DEFINE e == [id |-> recId, data |-> data]
<1>12. e \in Entry /\ Len(e.data) = L
  BY <1>n DEF Entry, L
<1>13. \A j \in 1..L : d[z + HeaderSize + j] = data[j]
  <2> SUFFICES ASSUME NEW j \in 1..L PROVE d[z + HeaderSize + j] = data[j]
    OBVIOUS
  <2>1. offset + j \in 1..Len(c) /\ offset + j > z + 2 /\ offset + j = z + HeaderSize + j
    BY <1>5, <1>6, <1>n DEF HeaderSize
  <2>2. d[offset + j] = c[offset + j] /\ c[offset + j] = data[j]
    BY <2>1, <1>5, <1>10
  <2> QED
    BY <2>1, <2>2
<1>14. PICK a : Laid(d, Append(records, e), a) /\ a[Len(Append(records, e)) + 1] = Len(d)
  <2>1. z + HeaderSize + Len(e.data) = Len(d)
    BY <1>5, <1>10, <1>12
  <2>2. e.id = recId /\ e.data = data /\ Len(d) \in Nat
    BY <1>5, <1>10
  <2>3. d[z + 1] = e.id /\ d[z + 2] = Len(e.data)
        /\ \A j \in 1..Len(e.data) : d[z + HeaderSize + j] = e.data[j]
    BY <1>10, <1>12, <1>13, <2>2
  <2>4. records \in Seq(Entry) /\ z = b[Len(records) + 1]
    BY <1>t DEF RTypeOK, z
  <2> HIDE DEF e
  <2> QED
    BY <1>11, <1>12, <2>1, <2>2, <2>3, <2>4, LaidMore
<1>15. RTypeOK'
  <2>1. records' \in Seq(Entry)
    BY <1>1, <1>12, <1>t DEF RTypeOK
  <2>2. Content(wr)' \in Seq(Nat)
    BY <1>10 DEF d
  <2> QED
    BY <1>1, <1>2, <1>9, <1>n, <1>t, <2>1, <2>2 DEF RTypeOK
<1>16. LaidOut(Content(wr), a)'
  BY <1>1, <1>14 DEF LaidOut, d
<1> QED
  BY <1>15, <1>16 DEF RInv

\* A flush leaves the content what it is.
LEMMA RFlushStep ==
  ASSUME RecordAssumption, RInv, RFlush
  PROVE  RInv'
<1>1. UNCHANGED <<recId, offset, records, data>> /\ wmode' = wmode
      /\ \E r \in ClearCache(wr) : wr' = r.w
  BY EndsWith DEF RFlush, Flush
<1>2. MaxShort = 0 /\ RTypeOK
  BY DEF RecordAssumption, RInv
<1>3. /\ wr' \in Archive /\ Len(wr'.buf) <= BufSize /\ wr'.faults = 0
      /\ wr'.hp = Len(wr'.file) /\ Content(wr') = Content(wr)
  BY <1>1, <1>2, RecordFlush DEF RTypeOK
<1>4. RTypeOK'
  BY <1>1, <1>2, <1>3 DEF RTypeOK
<1>5. PICK b : LaidOut(Content(wr), b)
  BY DEF RInv
<1>6. LaidOut(Content(wr), b)'
  BY <1>1, <1>3, <1>5 DEF LaidOut
<1> QED
  BY <1>4, <1>6 DEF RInv

\* Every step keeps the invariant.
LEMMA RNextRInv == ASSUME RecordAssumption, RInv, [RNext]_rvars PROVE RInv'
<1>1. CASE UNCHANGED rvars
  BY <1>1 DEF rvars, wvars, RInv, RTypeOK, LaidOut
<1>2. ASSUME NEW id \in RecId, BeginRecord(id) PROVE RInv'
  BY <1>2, BeginRecordStep
<1>3. ASSUME NEW n \in 1..MaxData, NEW s \in [1..n -> Datum], PutData(s) PROVE RInv'
  <2>1. s \in Seq(Datum)
    OBVIOUS
  <2> QED
    BY <1>3, <2>1, PutDataStep
<1>4. CASE EndRecord
  BY <1>4, EndRecordStep
<1>5. CASE RFlush
  BY <1>5, RFlushStep
<1> QED
  BY <1>1, <1>2, <1>3, <1>4, <1>5 DEF RNext

(***************************************************************************)
(* The three facts about records, for every buffer, id, datum and length.  *)
(***************************************************************************)
\* RecordWriter: the records ended lie in the content one behind the other, in
\* front of at most one that says recIdEOF.
THEOREM RecordInvariance == ASSUME RecordAssumption PROVE RSpec => []RInv
<1>1. RInit => RInv
  BY RInitRInv
<1>2. RInv /\ [RNext]_rvars => RInv'
  BY RNextRInv
<1> QED
  BY <1>1, <1>2, PTL DEF RSpec

\* Of a reader of the first cells: what it finds.
LEMMA ReaderFinds ==
  ASSUME RecordAssumption, RInv, NEW d \in Seq(Nat), Len(d) <= Len(Content(wr)),
         \A i \in 1..Len(d) : d[i] = Content(wr)[i]
  PROVE  \E k \in 0..Len(records) : /\ RecordsIn(d) = SubSeq(records, 1, k)
                                    /\ Len(d) = Len(Content(wr)) => k = Len(records)
<1>1. PICK b : LaidOut(Content(wr), b)
  BY DEF RInv
<1>2. Content(wr) \in Seq(Nat) /\ records \in Seq(Entry)
  BY DEF RInv, RTypeOK
<1>3. Len(Content(wr)) = b[Len(records) + 1] \/ Content(wr)[b[Len(records) + 1] + 1] = recIdEOF
  BY <1>1 DEF LaidOut
<1>4. Laid(Content(wr), records, b)
  BY <1>1 DEF LaidOut
<1> QED
  BY <1>2, <1>3, <1>4, PrefixRead

\* RecordReader: what RecordWriter wrote is read back, the records ended and
\* nothing of an open one.
THEOREM RoundTripCorrect == ASSUME RecordAssumption PROVE RSpec => []RoundTrip
<1>1. ASSUME RInv PROVE RoundTrip
  <2> DEFINE c == Content(wr)
  <2>1. c \in Seq(Nat) /\ Len(c) <= Len(c) /\ records \in Seq(Entry)
    BY <1>1 DEF RInv, RTypeOK
  <2>2. PICK k \in 0..Len(records) : RecordsIn(c) = SubSeq(records, 1, k) /\ k = Len(records)
    BY <1>1, <2>1, ReaderFinds
  <2>3. SubSeq(records, 1, Len(records)) = records
    BY <2>1, SubSeqFull
  <2> QED
    BY <2>2, <2>3 DEF RoundTrip, Content
<1> QED
  BY <1>1, RecordInvariance, PTL

\* RecordReader: of a file whose writer lost its buffer it reads the first of
\* the records ended, each one whole.
THEOREM CrashCorrect == ASSUME RecordAssumption PROVE RSpec => []CrashLeavesPrefix
<1>1. ASSUME RInv PROVE CrashLeavesPrefix
  <2> DEFINE d == wr.file
  <2>1. wr \in Archive /\ wr.hp = Len(wr.file) /\ Content(wr) \in Seq(Nat) /\ records \in Seq(Entry)
    BY <1>1 DEF RInv, RTypeOK
  <2>2. d \in Seq(Int) /\ Len(d) <= Len(Content(wr)) /\ \A i \in 1..Len(d) : d[i] = Content(wr)[i]
    BY <2>1, ContentAtEnd
  <2> HIDE DEF d
  <2>3. d \in Seq(Nat)
    <3>1. Len(d) \in Nat /\ Len(Content(wr)) \in Nat
      BY <2>1, <2>2
    <3>2. \A i \in 1..Len(d) : d[i] \in Nat
      <4> SUFFICES ASSUME NEW i \in 1..Len(d) PROVE d[i] \in Nat
        OBVIOUS
      <4>1. i \in 1..Len(Content(wr))
        BY <2>2, <3>1
      <4> QED
        BY <2>1, <2>2, <4>1
    <3> QED
      BY <2>2, <3>2
  <2>4. PICK k \in 0..Len(records) : RecordsIn(d) = SubSeq(records, 1, k)
    BY <1>1, <2>2, <2>3, ReaderFinds
  <2>5. IsPrefix(SubSeq(records, 1, k), records)
    <3>1. k \in Nat /\ k <= Len(records) /\ Len(records) \in Nat
      BY <2>1
    <3>2. Len(SubSeq(records, 1, k)) = k
      BY <2>1, <3>1
    <3> DEFINE q == SubSeq(records, 1, k)
    <3>3. q \in Seq(Entry)
      BY <2>1, <3>1
    <3>4. SubSeq(q, 1, Len(q)) = q
      BY <3>3, SubSeqFull
    <3> QED
      BY <3>1, <3>2, <3>4 DEF IsPrefix
  <2> QED
    BY <2>4, <2>5 DEF CrashLeavesPrefix, d
<1> QED
  BY <1>1, RecordInvariance, PTL
=============================================================================
