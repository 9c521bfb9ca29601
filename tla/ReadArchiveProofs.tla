------------------------- MODULE ReadArchiveProofs -------------------------
(***************************************************************************)
(* Proofs about ReadArchive, for every length of the file, size of the     *)
(* buffer and of its rounding, and requests of any length.                 *)
(*                                                                         *)
(* The archive implements the stream of ReadStream. The inductive          *)
(* invariant says where the window may be (Sound): within what was read,   *)
(* not larger than the buffer, with the client inside it, and the buffer   *)
(* not smaller than four bytes, or unget would step back a quarter of      *)
(* nothing. A closed archive has an empty window, because open leaves the  *)
(* window as it is. It does not say that the window mirrors the file:      *)
(* after a block that came up short it does not, and the stream promises   *)
(* nothing of the bytes then (trusted).                                    *)
(*                                                                         *)
(* Bytes are compared by where they come from: a sequence shows the file   *)
(* from p on, and so do its parts and what is put together from parts that *)
(* follow each other.                                                      *)
(***************************************************************************)
EXTENDS ReadArchive, SequenceTheorems, TLAPS

FileByte == 0..FileSize

\* The archives a client that stays within the file can have.
Archive == [hp : 0..FileSize, buf : Seq(FileByte), cur : Nat, size : Nat]
Sound(a) ==
  /\ a \in Archive
  /\ a.cur <= Len(a.buf) /\ Len(a.buf) <= a.hp /\ Len(a.buf) <= a.size /\ a.size >= 4

\* s is what the file holds from p on.
Shows(s, p) == \A i \in 1..Len(s) : s[i] = p + i - 1
Mirrors(a) == Shows(a.buf, a.hp - Len(a.buf))
-----------------------------------------------------------------------------
\* A read returns bytes of the file from p on, up to its end.
LEMMA FromFileFacts ==
  ASSUME SizesAssumption, NEW p \in 0..FileSize, NEW n \in Nat
  PROVE  /\ FromFile(p, n) \in Seq(FileByte)
         /\ Len(FromFile(p, n)) = Least(n, FileSize - p)
         /\ Shows(FromFile(p, n), p)
<1> DEFINE l == Least(n, FileSize - p)
           s == [i \in 1..l |-> p + i - 1]
<1>1. FileSize \in Nat /\ FileSize - p \in Nat
  BY DEF SizesAssumption
<1>2. l \in Nat /\ l <= FileSize - p
  BY <1>1 DEF Least
<1> HIDE DEF l
<1>3. \A i \in 1..l : p + i - 1 \in FileByte
  BY <1>1, <1>2 DEF FileByte
<1>4. s \in Seq(FileByte) /\ Len(s) = l /\ \A i \in 1..l : s[i] = p + i - 1
  BY <1>2, <1>3
<1>5. FromFile(p, n) = s
  BY DEF FromFile, l
<1> QED
  BY <1>4, <1>5 DEF Shows, l

\* There is one sequence of those bytes.
LEMMA ShownIsFile ==
  ASSUME SizesAssumption, NEW p \in 0..FileSize, NEW n \in Nat, NEW s \in Seq(FileByte),
         Len(s) = Least(n, FileSize - p), Shows(s, p)
  PROVE  s = FromFile(p, n)
<1> DEFINE t == FromFile(p, n)
<1>1. t \in Seq(FileByte) /\ Len(t) = Len(s) /\ Shows(t, p)
  BY FromFileFacts
<1> HIDE DEF t
<1>2. \A i \in 1..Len(s) : s[i] = t[i]
  BY <1>1 DEF Shows
<1>3. s = t
  BY <1>1, <1>2, SeqEqual
<1> QED
  BY <1>3 DEF t

\* A part of what shows the file shows it from where it begins.
LEMMA ShowsPart ==
  ASSUME NEW s \in Seq(FileByte), NEW p \in Int, NEW i \in 1..(Len(s) + 1), NEW j \in (i - 1)..Len(s)
  PROVE  /\ SubSeq(s, i, j) \in Seq(FileByte) /\ Len(SubSeq(s, i, j)) = j - i + 1
         /\ Shows(s, p) => Shows(SubSeq(s, i, j), p + i - 1)
<1> DEFINE t == SubSeq(s, i, j)
<1>1. \A k \in i..j : s[k] \in FileByte
  OBVIOUS
<1>2. t \in Seq(FileByte) /\ Len(t) = j - i + 1 /\ \A k \in 1..(j - i + 1) : t[k] = s[i + k - 1]
  BY <1>1, SubSeqProperties
<1> HIDE DEF t
<1>3. ASSUME Shows(s, p) PROVE Shows(t, p + i - 1)
  <2> SUFFICES ASSUME NEW k \in 1..(j - i + 1) PROVE t[k] = p + i - 1 + k - 1
    BY <1>2 DEF Shows
  <2>1. i + k - 1 \in 1..Len(s)
    OBVIOUS
  <2>2. s[i + k - 1] = p + (i + k - 1) - 1
    BY <1>3, <2>1 DEF Shows
  <2> QED
    BY <1>2, <2>2
<1> QED
  BY <1>2, <1>3 DEF t

\* Bytes of the file behind one another.
LEMMA ShowsConcat ==
  ASSUME NEW s \in Seq(FileByte), NEW t \in Seq(FileByte), NEW p \in Int, NEW q \in Int,
         q = p + Len(s)
  PROVE  /\ s \o t \in Seq(FileByte) /\ Len(s \o t) = Len(s) + Len(t)
         /\ Shows(s, p) /\ Shows(t, q) => Shows(s \o t, p)
<1>1. /\ s \o t \in Seq(FileByte) /\ Len(s \o t) = Len(s) + Len(t)
      /\ \A i \in 1..(Len(s) + Len(t)) : (s \o t)[i] = IF i <= Len(s) THEN s[i] ELSE t[i - Len(s)]
  BY ConcatProperties
<1>2. ASSUME Shows(s, p), Shows(t, q), NEW i \in 1..(Len(s) + Len(t)) PROVE (s \o t)[i] = p + i - 1
  <2>1. CASE i <= Len(s)
    BY <1>1, <1>2, <2>1 DEF Shows
  <2>2. CASE ~(i <= Len(s))
    <3>1. i - Len(s) \in 1..Len(t)
      BY <2>2
    <3>2. t[i - Len(s)] = q + (i - Len(s)) - 1
      BY <1>2, <3>1 DEF Shows
    <3>3. (s \o t)[i] = t[i - Len(s)]
      BY <1>1, <2>2
    <3> QED
      BY <3>2, <3>3
  <2> QED
    BY <2>1, <2>2
<1> QED
  BY <1>1, <1>2 DEF Shows

\* No byte shows anything.
LEMMA EmptyShows ==
  ASSUME NEW p
  PROVE  Shows(<< >>, p) /\ << >> \in Seq(FileByte)
BY DEF Shows

(***************************************************************************)
(* A window mirrors the file in the words of WindowMirrorsFile.            *)
(***************************************************************************)
Window(a) ==
  /\ Len(a.buf) <= a.hp
  /\ a.buf = FromFile(a.hp - Len(a.buf), Len(a.buf))

\* The two ways to say it agree.
LEMMA MirrorsWindow ==
  ASSUME SizesAssumption, NEW a, Sound(a)
  PROVE  Window(a) <=> Mirrors(a)
<1> DEFINE p == a.hp - Len(a.buf)
           n == Len(a.buf)
           b == a.buf
<1>1. /\ p \in 0..FileSize /\ n \in Nat /\ b \in Seq(FileByte) /\ Len(b) = n
      /\ n <= a.hp /\ a.hp \in 0..FileSize /\ n <= FileSize - p
  BY DEF Sound, Archive, SizesAssumption
<1>3. Window(a) <=> b = FromFile(p, n)
  BY <1>1 DEF Window
<1>4. Mirrors(a) <=> Shows(b, p)
  BY DEF Mirrors
<1> HIDE DEF p, n, b
<1>2. Least(n, FileSize - p) = n
  <2>1. FileSize - p \in Nat
    BY <1>1 DEF SizesAssumption
  <2> QED
    BY <1>1, <2>1 DEF Least
<1>5. Shows(FromFile(p, n), p)
  BY <1>1, FromFileFacts
<1>6. Shows(b, p) => b = FromFile(p, n)
  BY <1>1, <1>2, ShownIsFile
<1> QED
  BY <1>3, <1>4, <1>5, <1>6
-----------------------------------------------------------------------------
(***************************************************************************)
(* Archives with fields changed, and with nothing in the window.           *)
(***************************************************************************)
LEMMA SetCur ==
  ASSUME NEW a \in Archive, NEW x \in Nat, NEW v, v = [a EXCEPT !.cur = x]
  PROVE  v \in Archive /\ v.hp = a.hp /\ v.buf = a.buf /\ v.cur = x /\ v.size = a.size
BY DEF Archive

\* The descriptor at another position.
LEMMA SetHp ==
  ASSUME NEW a \in Archive, NEW x \in 0..FileSize, NEW v, v = [a EXCEPT !.hp = x]
  PROVE  v \in Archive /\ v.hp = x /\ v.buf = a.buf /\ v.cur = a.cur /\ v.size = a.size
BY DEF Archive

\* Another window.
LEMMA SetBuf ==
  ASSUME NEW a \in Archive, NEW x \in Seq(FileByte), NEW v, v = [a EXCEPT !.buf = x]
  PROVE  v \in Archive /\ v.hp = a.hp /\ v.buf = x /\ v.cur = a.cur /\ v.size = a.size
BY DEF Archive

\* An empty window, which mirrors the file wherever the descriptor is.
LEMMA Cleared ==
  ASSUME SizesAssumption, NEW a, Sound(a), NEW o \in 0..FileSize,
         NEW v, v = [ClearCache(a) EXCEPT !.hp = o]
  PROVE  /\ Sound(v) /\ Tell(v) = o /\ Mirrors(v) /\ v.buf = << >>
         /\ v.hp = o /\ v.cur = 0 /\ v.size = a.size
<1> DEFINE e == << >>
           u == [a EXCEPT !.buf = e]
           c == ClearCache(a)
<1>1. a \in Archive /\ e \in Seq(FileByte) /\ a.size >= 4 /\ a.size \in Nat /\ o \in Nat
  BY EmptyShows DEF Sound, Archive, SizesAssumption
<1>2. c = [u EXCEPT !.cur = 0]
  BY Zenon DEF ClearCache
<1>e. Len(e) = 0
  OBVIOUS
<1> HIDE DEF c, e
<1>3. u \in Archive /\ u.hp = a.hp /\ u.buf = e /\ u.cur = a.cur /\ u.size = a.size
  BY <1>1, SetBuf
<1> HIDE DEF u
<1>4. c \in Archive /\ c.hp = a.hp /\ c.buf = e /\ c.cur = 0 /\ c.size = a.size
  BY <1>2, <1>3, SetCur
<1>5. v \in Archive /\ v.hp = o /\ v.buf = e /\ v.cur = 0 /\ v.size = a.size
  BY <1>4, SetHp DEF c
<1>6. Sound(v)
  BY <1>1, <1>5, <1>e DEF Sound
<1>7. Tell(v) = o
  BY <1>1, <1>5, <1>e DEF Tell, Rest
<1>8. Mirrors(v)
  BY <1>5, EmptyShows DEF Mirrors, e
<1> QED
  BY <1>5, <1>6, <1>7, <1>8 DEF e

\* What the fields are, and where the client stands.
LEMMA SoundFacts ==
  ASSUME SizesAssumption, NEW a, Sound(a)
  PROVE  /\ FileSize \in Nat /\ a.hp \in Nat /\ a.hp <= FileSize
         /\ a.buf \in Seq(FileByte) /\ Len(a.buf) \in Nat /\ Len(a.buf) <= a.hp
         /\ a.cur \in Nat /\ a.cur <= Len(a.buf)
         /\ a.size \in Nat /\ a.size >= 4 /\ Len(a.buf) <= a.size
         /\ Rest(a) \in Nat /\ Rest(a) = Len(a.buf) - a.cur
         /\ Tell(a) \in Nat /\ Tell(a) <= FileSize /\ Tell(a) = a.hp - Rest(a)
<1>1. /\ FileSize \in Nat /\ a.hp \in Nat /\ a.hp <= FileSize
      /\ a.buf \in Seq(FileByte) /\ Len(a.buf) \in Nat /\ Len(a.buf) <= a.hp
      /\ a.cur \in Nat /\ a.cur <= Len(a.buf)
      /\ a.size \in Nat /\ a.size >= 4 /\ Len(a.buf) <= a.size
  BY DEF Sound, Archive, SizesAssumption
<1>2. Rest(a) = Len(a.buf) - a.cur /\ Tell(a) = a.hp - Rest(a)
  BY DEF Rest, Tell
<1> QED
  BY <1>1, <1>2

\* The bytes ahead of the client.
LEMMA AheadFacts ==
  ASSUME SizesAssumption, NEW a, Sound(a), NEW n \in Nat, n <= Rest(a)
  PROVE  /\ Ahead(a, n) \in Seq(FileByte) /\ Len(Ahead(a, n)) = n
         /\ Mirrors(a) => Shows(Ahead(a, n), Tell(a))
<1> DEFINE s == a.buf
           p == a.hp - Len(s)
           c == a.cur
<1>1. /\ s \in Seq(FileByte) /\ p \in Nat /\ c \in Nat /\ c + n <= Len(s) /\ Len(s) \in Nat
      /\ Tell(a) = p + c
  <2>1. /\ a.hp \in Nat /\ a.buf \in Seq(FileByte) /\ Len(a.buf) \in Nat /\ Len(a.buf) <= a.hp
        /\ a.cur \in Nat /\ Rest(a) = Len(a.buf) - a.cur /\ Tell(a) = a.hp - Rest(a)
    BY SoundFacts
  <2> QED
    BY <2>1
<1>2. Mirrors(a) <=> Shows(s, p)
  BY DEF Mirrors
<1>3. Ahead(a, n) = SubSeq(s, c + 1, c + n)
  BY DEF Ahead
<1> HIDE DEF s, p, c
<1>4. c + 1 \in 1..(Len(s) + 1) /\ c + n \in ((c + 1) - 1)..Len(s)
      /\ p + (c + 1) - 1 = p + c /\ (c + n) - (c + 1) + 1 = n /\ p \in Int
  BY <1>1
<1>5. /\ SubSeq(s, c + 1, c + n) \in Seq(FileByte)
      /\ Len(SubSeq(s, c + 1, c + n)) = (c + n) - (c + 1) + 1
      /\ Shows(s, p) => Shows(SubSeq(s, c + 1, c + n), p + (c + 1) - 1)
  BY <1>1, <1>4, ShowsPart
<1> QED
  BY <1>1, <1>2, <1>3, <1>4, <1>5

\* The cursor moved within the window.
LEMMA Moved ==
  ASSUME SizesAssumption, NEW a, Sound(a), NEW c \in Nat, c <= Len(a.buf),
         NEW v, v = [a EXCEPT !.cur = c]
  PROVE  /\ Sound(v) /\ Tell(v) = a.hp - (Len(a.buf) - c) /\ (Mirrors(v) <=> Mirrors(a))
         /\ v.hp = a.hp /\ v.buf = a.buf /\ v.cur = c /\ v.size = a.size
<1>1. a \in Archive
  BY DEF Sound
<1>2. v \in Archive /\ v.hp = a.hp /\ v.buf = a.buf /\ v.cur = c /\ v.size = a.size
  BY <1>1, SetCur
<1>3. Tell(v) = a.hp - (Len(a.buf) - c)
  BY <1>2 DEF Tell, Rest
<1> QED
  BY <1>2, <1>3 DEF Sound, Mirrors

\* The cursor moved by a distance.
LEMMA MovedBy ==
  ASSUME SizesAssumption, NEW a, Sound(a), NEW d \in Int,
         NEW c, c = a.cur + d, 0 <= c, c <= Len(a.buf),
         NEW v, v = [a EXCEPT !.cur = c]
  PROVE  Sound(v) /\ Tell(v) = Tell(a) + d /\ (Mirrors(v) <=> Mirrors(a))
<1> DEFINE h == a.hp
           l == Len(a.buf)
           q == Rest(a)
           t == Tell(a)
           k == a.cur
<1>1. h \in Nat /\ l \in Nat /\ k \in Nat /\ q = l - k /\ t = h - q /\ c = k + d /\ 0 <= c
  BY SoundFacts
<1> HIDE DEF h, l, q, t, k
<1>2. c \in Nat /\ h - (l - c) = t + d
  BY <1>1
<1>3. Sound(v) /\ Tell(v) = h - (l - c) /\ (Mirrors(v) <=> Mirrors(a))
  BY <1>2, Moved DEF h, l
<1> QED
  BY <1>2, <1>3 DEF t
-----------------------------------------------------------------------------
(***************************************************************************)
(* What a read of n bytes must deliver: as many as the file has, from the  *)
(* client's position, the file's if the window mirrors it; it still does   *)
(* unless the read was cut short.                                          *)
(***************************************************************************)
Delivered(a, n, r) ==
  /\ Sound(r.ar)
  /\ r.out \in Seq(FileByte) /\ Len(r.out) = Least(n, FileSize - Tell(a))
  /\ Tell(r.ar) = Tell(a) + Len(r.out)
  /\ Mirrors(a) => Shows(r.out, Tell(a))
  /\ Mirrors(a) /\ Len(r.out) = n => Mirrors(r.ar)

\* get of bytes that are all in the window.
LEMMA BufferedGet ==
  ASSUME SizesAssumption, NEW a, Sound(a), NEW n \in Nat, n <= Rest(a),
         NEW r, r = [ar |-> [a EXCEPT !.cur = @ + n], out |-> Ahead(a, n)]
  PROVE  Delivered(a, n, r)
<1> DEFINE c == a.cur + n
           v == [a EXCEPT !.cur = c]
<1>1. r.ar = v /\ r.out = Ahead(a, n)
  BY Zenon
<1>2. c \in Nat /\ c <= Len(a.buf) /\ a.hp - (Len(a.buf) - c) = Tell(a) + n
      /\ n <= FileSize - Tell(a) /\ FileSize - Tell(a) \in Nat
  <2> DEFINE h == a.hp
             l == Len(a.buf)
             k == a.cur
             q == Rest(a)
             p == Tell(a)
  <2>1. /\ h \in Nat /\ l \in Nat /\ h <= FileSize /\ FileSize \in Nat
        /\ k \in Nat /\ k <= l /\ l <= h /\ q = l - k /\ p = h - q /\ n <= q /\ c = k + n
    BY SoundFacts
  <2> HIDE DEF h, l, k, q, p, c
  <2>2. c \in Nat /\ c <= l /\ h - (l - c) = p + n /\ n <= FileSize - p /\ FileSize - p \in Nat
    BY <2>1
  <2> QED
    BY <2>2 DEF h, l, p
<1> HIDE DEF c
<1>3. Sound(v) /\ Tell(v) = a.hp - (Len(a.buf) - c) /\ (Mirrors(v) <=> Mirrors(a))
  BY <1>2, Moved
<1> HIDE DEF v
<1>4. /\ Ahead(a, n) \in Seq(FileByte) /\ Len(Ahead(a, n)) = n
      /\ Mirrors(a) => Shows(Ahead(a, n), Tell(a))
  BY AheadFacts
<1>5. Least(n, FileSize - Tell(a)) = n
  BY <1>2 DEF Least
<1> QED
  BY <1>1, <1>2, <1>3, <1>4, <1>5 DEF Delivered

\* What a remainder is.
LEMMA ModFacts ==
  ASSUME NEW d \in Nat \ {0}, NEW x \in Nat
  PROVE  x % d \in Nat /\ x % d <= x /\ x % d < d
OBVIOUS

\* The last block of a get of one byte is that byte.
LEMMA OneModFact ==
  ASSUME NEW d \in Nat, d >= 4
  PROVE  1 % d = 1
OBVIOUS

\* get of more than the window has: whole blocks and a new window, or a block
\* that came up short, after which the old window stays.  A get of one byte
\* never asks for a whole block.
LEMMA GetBlocksDelivers ==
  ASSUME SizesAssumption, NEW a, Sound(a), NEW n \in Nat, ~(n <= Rest(a)),
         NEW r, r = GetBlocks(a, n)
  PROVE  /\ Delivered(a, n, r)
         /\ n = 1 => r.ar.cur = Len(r.out) /\ Mirrors(r.ar)
<1> DEFINE left == n - Rest(a)
           m == left % a.size
           whole == left - m
           h == a.hp
           ahead == Ahead(a, Rest(a))
           direct == FromFile(a.hp, whole)
           last == FromFile(a.hp + whole, a.size)
           k == Least(m, Len(last))
<1>f. /\ FileSize \in Nat /\ h \in Nat /\ h <= FileSize /\ a.buf \in Seq(FileByte)
      /\ Rest(a) \in Nat /\ a.size \in Nat \ {0} /\ a.size >= 4 /\ Len(a.buf) \in Nat /\ Len(a.buf) <= h
      /\ Tell(a) \in Nat /\ Tell(a) = h - Rest(a) /\ Tell(a) <= FileSize
  BY SoundFacts
<1>1. left \in Nat /\ n = Rest(a) + left /\ left # 0
  BY <1>f
<1>2. r = IF Len(direct) < whole
          THEN [ar |-> [a EXCEPT !.hp = @ + Len(direct), !.cur = Len(a.buf)], out |-> ahead \o direct]
          ELSE [ar |-> [a EXCEPT !.hp = @ + whole + Len(last), !.buf = last, !.cur = k],
                out |-> ahead \o direct \o SubSeq(last, 1, k)]
  BY DEF GetBlocks
<1> HIDE DEF left
<1>3. m \in Nat /\ m <= left /\ m < a.size
  BY <1>f, <1>1, ModFacts
<1>4. left = 1 => m = 1
  BY <1>f, OneModFact
<1> HIDE DEF m
<1>5. whole \in Nat /\ n = Rest(a) + whole + m
  BY <1>1, <1>3, <1>f
<1>6. left = 1 => whole = 0
  BY <1>4
<1> HIDE DEF whole
<1>7. /\ ahead \in Seq(FileByte) /\ Len(ahead) = Rest(a)
      /\ Mirrors(a) => Shows(ahead, Tell(a))
  BY <1>f, AheadFacts
<1>8. direct \in Seq(FileByte) /\ Len(direct) = Least(whole, FileSize - h) /\ Shows(direct, h)
  <2>1. h \in 0..FileSize /\ whole \in Nat
    BY <1>f, <1>5
  <2>2. direct = FromFile(h, whole)
    OBVIOUS
  <2> HIDE DEF direct, h
  <2> QED
    BY <2>1, <2>2, FromFileFacts
<1> HIDE DEF ahead, direct, h
<1>g. /\ FileSize \in Nat /\ h \in Nat /\ h <= FileSize /\ Rest(a) \in Nat /\ Tell(a) = h - Rest(a)
      /\ Tell(a) \in Nat /\ whole \in Nat /\ m \in Nat /\ n = Rest(a) + whole + m
  BY <1>f, <1>3, <1>5
<1>9. /\ ahead \o direct \in Seq(FileByte) /\ Len(ahead \o direct) = Rest(a) + Len(direct)
      /\ Mirrors(a) => Shows(ahead \o direct, Tell(a))
  <2>1. h = Tell(a) + Len(ahead) /\ Tell(a) \in Int /\ h \in Int
    BY <1>f, <1>7
  <2> QED
    BY <2>1, <1>7, <1>8, ShowsConcat
<1> DEFINE out1 == ahead \o direct
<1> HIDE DEF out1
<1>10. CASE Len(direct) < whole
  <2> DEFINE x == h + Len(direct)
             c == Len(a.buf)
             u == [a EXCEPT !.hp = x]
             v == [u EXCEPT !.cur = c]
             b == [a EXCEPT !.hp = @ + Len(direct), !.cur = Len(a.buf)]
  <2>a. b = v
    BY Zenon DEF h
  <2>b. r = [ar |-> b, out |-> out1]
    BY <1>2, <1>10 DEF out1
  <2> HIDE DEF b, v
  <2>1. r.ar = v /\ r.out = out1
    BY <2>a, <2>b
  <2> USE DEF v
  <2>2. Len(direct) = FileSize - h /\ FileSize - h < whole
    BY <1>8, <1>10, <1>f, <1>5 DEF Least
  <2>3. x = FileSize /\ x \in 0..FileSize /\ c \in Nat /\ c <= x
    BY <2>2, <1>f
  <2> HIDE DEF x
  <2>4. u \in Archive /\ u.hp = x /\ u.buf = a.buf /\ u.cur = a.cur /\ u.size = a.size
    <3>1. a \in Archive
      BY DEF Sound
    <3> QED
      BY <2>3, <3>1, SetHp
  <2> HIDE DEF u, c
  <2>5. v \in Archive /\ v.hp = x /\ v.buf = a.buf /\ v.cur = c /\ v.size = a.size
    BY <2>3, <2>4, SetCur
  <2> HIDE DEF v
  <2>6. c = Len(a.buf)
    BY DEF c
  <2>7. Sound(v)
    <3>1. Len(a.buf) <= a.size
      BY SoundFacts
    <3> QED
      BY <2>3, <2>5, <2>6, <3>1, <1>f DEF Sound
  <2>8. Tell(v) = FileSize
    BY <2>3, <2>5, <2>6, <1>f DEF Tell, Rest
  <2>9. /\ Len(out1) = FileSize - Tell(a) /\ Len(out1) # n
        /\ Least(n, FileSize - Tell(a)) = FileSize - Tell(a)
    <3>1. Len(out1) = Rest(a) + (FileSize - h)
      BY <1>9, <2>2 DEF out1
    <3> QED
      BY <3>1, <2>2, <1>g, SMTT(30) DEF Least
  <2>10. Delivered(a, n, r)
    BY <2>1, <2>7, <2>8, <2>9, <1>9, <1>f DEF Delivered, out1
  <2>11. n # 1
    BY <1>6, <1>1, <1>10, <1>f, <1>5, <1>9, <1>8, <2>2, SMTT(30)
  <2> QED
    BY <2>10, <2>11
<1>11. CASE ~(Len(direct) < whole)
  <2>1. Len(direct) = whole /\ whole <= FileSize - h
    BY <1>8, <1>11, <1>f, <1>5 DEF Least
  <2>2. h + whole \in 0..FileSize /\ FileSize - (h + whole) \in Nat
    BY <2>1, <1>f, <1>5
  <2>3. last \in Seq(FileByte) /\ Len(last) = Least(a.size, FileSize - (h + whole)) /\ Shows(last, h + whole)
    BY <2>2, <1>f, FromFileFacts DEF h
  <2> HIDE DEF last
  <2>4. Len(last) \in Nat /\ Len(last) <= a.size /\ h + whole + Len(last) <= FileSize
    BY <2>2, <2>3, <1>f DEF Least
  <2>5. k \in Nat /\ k <= Len(last) /\ k = Least(m, FileSize - (h + whole))
    BY <2>2, <2>3, <2>4, <1>3, <1>f, SMTT(30) DEF Least
  <2> DEFINE x == h + whole + Len(last)
             s == SubSeq(last, 1, k)
             u == [a EXCEPT !.hp = x]
             w == [u EXCEPT !.buf = last]
             v == [w EXCEPT !.cur = k]
             b == [a EXCEPT !.hp = @ + whole + Len(last), !.buf = last, !.cur = k]
  <2>a. b = v
    BY Zenon DEF h
  <2>b. r = [ar |-> b, out |-> out1 \o s]
    BY <1>2, <1>11 DEF out1
  <2> HIDE DEF b, v, k, x, s, u, w
  <2>6. r.ar = v /\ r.out = out1 \o s
    BY <2>a, <2>b
  <2> USE DEF v, k, x, s, u, w
  <2> HIDE DEF k
  <2>7. s \in Seq(FileByte) /\ Len(s) = k /\ Shows(s, h + whole)
    <3>1. 1 \in 1..(Len(last) + 1) /\ k \in (1 - 1)..Len(last) /\ h + whole \in Int
          /\ h + whole + 1 - 1 = h + whole /\ k - 1 + 1 = k
      BY <2>2, <2>4, <2>5
    <3> QED
      BY <3>1, <2>3, ShowsPart
  <2>8. x \in 0..FileSize /\ x - Len(last) = h + whole
    BY <2>2, <2>4
  <2> HIDE DEF x, s
  <2>9. u \in Archive /\ u.hp = x /\ u.buf = a.buf /\ u.cur = a.cur /\ u.size = a.size
    <3>1. a \in Archive
      BY DEF Sound
    <3> QED
      BY <2>8, <3>1, SetHp
  <2> HIDE DEF u
  <2>10. w \in Archive /\ w.hp = x /\ w.buf = last /\ w.cur = a.cur /\ w.size = a.size
    BY <2>9, <2>3, SetBuf
  <2> HIDE DEF w
  <2>11. v \in Archive /\ v.hp = x /\ v.buf = last /\ v.cur = k /\ v.size = a.size
    BY <2>10, <2>5, SetCur
  <2> HIDE DEF v
  <2>12. Sound(v)
    BY <2>11, <2>4, <2>5, <2>8, <2>2, <1>f, SMTT(30) DEF Sound
  <2>13. Tell(v) = h + whole + k
    BY <2>11, <2>4, <2>5, <2>8, <2>2 DEF Tell, Rest
  <2>14. Mirrors(v)
    BY <2>11, <2>8, <2>3 DEF Mirrors
  <2>15. /\ out1 \o s \in Seq(FileByte) /\ Len(out1 \o s) = Rest(a) + whole + k
         /\ Mirrors(a) => Shows(out1 \o s, Tell(a))
    <3>1. out1 \in Seq(FileByte) /\ Len(out1) = Rest(a) + whole /\ (Mirrors(a) => Shows(out1, Tell(a)))
      BY <1>9, <2>1 DEF out1
    <3>2. h + whole = Tell(a) + Len(out1) /\ Tell(a) \in Int /\ h + whole \in Int
      BY <3>1, <1>f, <1>5
    <3>3. /\ out1 \o s \in Seq(FileByte) /\ Len(out1 \o s) = Len(out1) + Len(s)
          /\ Shows(out1, Tell(a)) /\ Shows(s, h + whole) => Shows(out1 \o s, Tell(a))
      BY <3>1, <3>2, <2>7, ShowsConcat
    <3> QED
      BY <3>1, <3>3, <2>7
  <2>16. Least(n, FileSize - Tell(a)) = Rest(a) + whole + k
    BY <2>2, <2>5, <1>5, <1>f, <1>3, SMTT(30) DEF Least
  <2>17. Tell(a) + (Rest(a) + whole + k) = h + whole + k
    BY <1>f, <1>5, <2>5
  <2>18. Delivered(a, n, r)
    BY <2>6, <2>12, <2>13, <2>14, <2>15, <2>16, <2>17 DEF Delivered
  <2>19. n = 1 => Rest(a) = 0 /\ whole = 0
    BY <1>1, <1>6, <1>f
  <2>20. n = 1 => r.ar.cur = Len(r.out)
    BY <2>6, <2>11, <2>15, <2>19, <2>5
  <2> QED
    BY <2>6, <2>14, <2>18, <2>20
<1> QED
  BY <1>10, <1>11

\* get, from the window or beyond it.
LEMMA GetIntoDelivers ==
  ASSUME SizesAssumption, NEW a, Sound(a), NEW n \in Nat, NEW r, r = GetInto(a, n)
  PROVE  /\ Delivered(a, n, r)
         /\ n = 1 /\ Rest(a) = 0 => r.ar.cur = Len(r.out) /\ Mirrors(r.ar)
<1>1. CASE n <= Rest(a)
  <2>1. r = [ar |-> [a EXCEPT !.cur = @ + n], out |-> Ahead(a, n)]
    BY <1>1, Zenon DEF GetInto
  <2>2. Delivered(a, n, r)
    BY <1>1, <2>1, BufferedGet
  <2> QED
    BY <1>1, <2>2
<1>2. CASE ~(n <= Rest(a))
  <2>1. r = GetBlocks(a, n)
    BY <1>2 DEF GetInto
  <2> QED
    BY <1>2, <2>1, GetBlocksDelivers
<1> QED
  BY <1>1, <1>2

\* peek of one byte: the cursor goes back to it, whatever the get did.
LEMMA PeekOneDelivers ==
  ASSUME SizesAssumption, NEW a, Sound(a), NEW r, r = PeekOne(a)
  PROVE  /\ Sound(r.ar) /\ Tell(r.ar) = Tell(a)
         /\ r.out \in Seq(FileByte) /\ Len(r.out) = Least(1, FileSize - Tell(a))
         /\ Mirrors(a) => Shows(r.out, Tell(a)) /\ Mirrors(r.ar)
<1>f. /\ FileSize \in Nat /\ a.hp \in Nat /\ a.hp <= FileSize /\ Rest(a) \in Nat
      /\ Tell(a) = a.hp - Rest(a) /\ Tell(a) \in Nat
  BY SoundFacts
<1>1. CASE Rest(a) > 0
  <2>1. r.ar = a /\ r.out = Ahead(a, 1)
    BY <1>1 DEF PeekOne
  <2>2. /\ Ahead(a, 1) \in Seq(FileByte) /\ Len(Ahead(a, 1)) = 1
        /\ Mirrors(a) => Shows(Ahead(a, 1), Tell(a))
    <3>1. 1 \in Nat /\ 1 <= Rest(a)
      BY <1>1, <1>f
    <3> QED
      BY <3>1, AheadFacts
  <2>3. Least(1, FileSize - Tell(a)) = 1
    BY <1>f, <1>1 DEF Least
  <2> QED
    BY <2>1, <2>2, <2>3
<1>2. CASE ~(Rest(a) > 0)
  <2> DEFINE q == GetInto(a, 1)
  <2>0. Rest(a) = 0 /\ 1 \in Nat
    BY <1>2, <1>f
  <2>1. Delivered(a, 1, q) /\ q.ar.cur = Len(q.out) /\ Mirrors(q.ar)
    BY <2>0, GetIntoDelivers
  <2>2. r = IF q.out = << >> THEN q ELSE [q EXCEPT !.ar.cur = @ - 1]
    BY <1>2 DEF PeekOne
  <2>3. q.ar \in Archive /\ q.out \in Seq(FileByte) /\ Len(q.out) \in Nat
    BY <2>1 DEF Delivered, Sound
  <2>p. q = [ar |-> q.ar, out |-> q.out]
    BY <2>0 DEF GetInto, GetBlocks
  <2> HIDE DEF q
  <2>4. CASE q.out = << >>
    <3>1. r = q /\ Len(q.out) = 0
      BY <2>2, <2>4
    <3> QED
      BY <2>1, <3>1, <1>f DEF Delivered
  <2>5. CASE q.out # << >>
    <3> DEFINE c == q.ar.cur - 1
               v == [q.ar EXCEPT !.cur = c]
    <3>1. r.ar = v /\ r.out = q.out
      BY <2>2, <2>5, <2>p
    <3>2. Len(q.out) = 1
      <4>1. Len(q.out) # 0
        BY <2>3, <2>5
      <4>2. Len(q.out) = Least(1, FileSize - Tell(a))
        BY <2>1 DEF Delivered
      <4>3. Len(q.out) <= 1
        BY <4>2, <1>f DEF Least
      <4> DEFINE l == Len(q.out)
      <4>4. l # 0 /\ l <= 1 /\ l \in Nat
        BY <2>3, <4>1, <4>3
      <4> HIDE DEF l
      <4>5. l = 1
        BY <4>4
      <4> QED
        BY <4>5 DEF l
    <3>3. Sound(q.ar) /\ Tell(q.ar) = Tell(a) + 1 /\ q.ar.cur = 1
      BY <2>1, <3>2 DEF Delivered
    <3>4. Len(q.ar.buf) \in Nat
      BY <3>3, SoundFacts
    <3>5. -1 \in Int /\ c = q.ar.cur + (-1) /\ 0 <= c /\ c <= Len(q.ar.buf)
      BY <3>3, <3>4
    <3> HIDE DEF c
    <3>6. Sound(v) /\ Tell(v) = Tell(q.ar) + (-1) /\ (Mirrors(v) <=> Mirrors(q.ar))
      <4> DEFINE b == q.ar
      <4>1. Sound(b) /\ c = b.cur + (-1) /\ c <= Len(b.buf) /\ v = [b EXCEPT !.cur = c]
        BY <3>3, <3>5
      <4> HIDE DEF b, v
      <4>2. Sound(v) /\ Tell(v) = Tell(b) + (-1) /\ (Mirrors(v) <=> Mirrors(b))
        BY <3>5, <4>1, MovedBy
      <4> QED
        BY <4>2 DEF b
    <3>7. Tell(q.ar) + (-1) = Tell(a)
      BY <3>3, <1>f
    <3> HIDE DEF v
    <3> QED
      BY <2>1, <3>1, <3>6, <3>7 DEF Delivered
  <2> QED
    BY <2>4, <2>5
<1> QED
  BY <1>1, <1>2
-----------------------------------------------------------------------------
(***************************************************************************)
(* Positioning: what seek, skip and unget leave.                           *)
(***************************************************************************)
LEMMA SeekToSeeks ==
  ASSUME SizesAssumption, NEW a, Sound(a), NEW o \in 0..FileSize, NEW v, v = SeekTo(a, o)
  PROVE  Sound(v) /\ Tell(v) = o /\ (Mirrors(a) => Mirrors(v))
<1>f. a.hp \in Nat /\ Len(a.buf) \in Nat /\ Len(a.buf) <= a.hp /\ FileSize \in Nat
  BY SoundFacts
<1>1. CASE o <= a.hp /\ a.hp - o <= Len(a.buf)
  <2> DEFINE c == Len(a.buf) - (a.hp - o)
  <2>1. v = [a EXCEPT !.cur = c]
    BY <1>1 DEF SeekTo, SeekInWindow
  <2>2. c \in Nat /\ c <= Len(a.buf) /\ a.hp - (Len(a.buf) - c) = o
    BY <1>1, <1>f
  <2> HIDE DEF c
  <2> QED
    BY <2>1, <2>2, Moved
<1>2. CASE ~(o <= a.hp /\ a.hp - o <= Len(a.buf))
  <2>1. v = [ClearCache(a) EXCEPT !.hp = o]
    BY <1>2, Zenon DEF SeekTo, SeekAlways
  <2> QED
    BY <2>1, Cleared
<1> QED
  BY <1>1, <1>2

\* skip, within the window or beyond it.
LEMMA SkipBytesSkips ==
  ASSUME SizesAssumption, NEW a, Sound(a), NEW n \in Nat, Tell(a) + n <= FileSize,
         NEW v, v = SkipBytes(a, n)
  PROVE  Sound(v) /\ Tell(v) = Tell(a) + n /\ (Mirrors(a) => Mirrors(v))
<1>f. /\ a.hp \in Nat /\ Len(a.buf) \in Nat /\ Len(a.buf) <= a.hp /\ FileSize \in Nat
      /\ a.cur \in Nat /\ Rest(a) \in Nat /\ Rest(a) = Len(a.buf) - a.cur /\ Tell(a) = a.hp - Rest(a)
      /\ Tell(a) \in Nat
  BY SoundFacts
<1>1. CASE n <= Rest(a)
  <2> DEFINE c == a.cur + n
  <2>1. v = [a EXCEPT !.cur = c]
    BY <1>1, Zenon DEF SkipBytes
  <2>2. n \in Int /\ c = a.cur + n /\ 0 <= c /\ c <= Len(a.buf)
    BY <1>1, <1>f
  <2> HIDE DEF c
  <2> QED
    BY <2>1, <2>2, MovedBy
<1>2. CASE ~(n <= Rest(a))
  <2> DEFINE b == ClearCache(a)
             o == a.hp + n - Rest(a)
  <2>1. v = [b EXCEPT !.hp = @ + n - Rest(a)]
    BY <1>2, Zenon DEF SkipBytes
  <2>2. b.hp = a.hp
    <3>1. a \in Archive
      BY DEF Sound
    <3> QED
      BY <3>1 DEF ClearCache, Archive
  <2>3. v = [b EXCEPT !.hp = o]
    BY <2>1, <2>2
  <2>4. o \in 0..FileSize /\ o = Tell(a) + n
    BY <1>2, <1>f
  <2> HIDE DEF o
  <2>5. Sound(v) /\ Tell(v) = o /\ Mirrors(v)
    BY <2>3, <2>4, Cleared
  <2> QED
    BY <2>4, <2>5
<1> QED
  BY <1>1, <1>2

\* unget, which at the beginning of the window reads what is before it.
LEMMA UngetByteSteps ==
  ASSUME SizesAssumption, NEW a, Sound(a), NEW v, v = UngetByte(a)
  PROVE  /\ Sound(v) /\ Tell(v) = (IF Tell(a) = 0 THEN 0 ELSE Tell(a) - 1)
         /\ Mirrors(a) => Mirrors(v)
<1>f. /\ a.hp \in Nat /\ Len(a.buf) \in Nat /\ Len(a.buf) <= a.hp /\ FileSize \in Nat
      /\ a.cur \in Nat /\ Rest(a) \in Nat /\ Rest(a) = Len(a.buf) - a.cur /\ Tell(a) = a.hp - Rest(a)
      /\ Tell(a) \in Nat /\ Tell(a) <= FileSize /\ a.cur <= Len(a.buf)
      /\ a.size \in Nat /\ a.size >= 4
  BY SoundFacts
<1>1. CASE a.cur > 0
  <2> DEFINE c == a.cur - 1
  <2>1. v = [a EXCEPT !.cur = c]
    BY <1>1, Zenon DEF UngetByte
  <2>2. -1 \in Int /\ c = a.cur + (-1) /\ 0 <= c /\ c <= Len(a.buf)
    BY <1>1, <1>f
  <2> HIDE DEF c
  <2>3. Sound(v) /\ Tell(v) = Tell(a) + (-1) /\ (Mirrors(v) <=> Mirrors(a))
    BY <2>1, <2>2, MovedBy
  <2>4. Tell(v) \in Nat
    BY <2>3, SoundFacts
  <2> QED
    BY <2>3, <2>4, <1>f
<1>2. CASE ~(a.cur > 0)
  <2> DEFINE t == Tell(a)
             back == Least(a.size \div 4, t)
             p == t - back
             refill == FromFile(p, a.size)
             x == p + Len(refill)
             c == IF back = 0 THEN 0 ELSE back - 1
             u == [a EXCEPT !.hp = x]
             w == [u EXCEPT !.buf = refill]
  <2>1. v = [w EXCEPT !.cur = c]
    BY <1>2, Zenon DEF UngetByte
  <2>2. back \in Nat /\ back <= t /\ back <= a.size /\ (back = 0 <=> t = 0)
    <3> DEFINE d == a.size \div 4
    <3>1. d \in Nat /\ d >= 1 /\ d <= a.size
      BY <1>f, SMTT(30)
    <3>2. t \in Nat
      BY <1>f
    <3>3. back = IF d < t THEN d ELSE t
      BY DEF Least
    <3> DEFINE s == a.size
    <3>4. d <= s /\ s \in Nat
      BY <3>1, <1>f
    <3> HIDE DEF d, t, back, s
    <3>5. back \in Nat /\ back <= t /\ back <= s /\ (back = 0 <=> t = 0)
      BY <3>1, <3>2, <3>3, <3>4
    <3> QED
      BY <3>5 DEF s
  <2>t. t \in Nat /\ t <= FileSize
    BY <1>f
  <2> HIDE DEF back, t
  <2>3. p \in 0..FileSize /\ p + back = t /\ FileSize - p \in Nat
    BY <2>2, <2>t, <1>f
  <2> HIDE DEF p
  <2>4. refill \in Seq(FileByte) /\ Len(refill) = Least(a.size, FileSize - p) /\ Shows(refill, p)
    BY <2>3, <1>f, FromFileFacts
  <2> HIDE DEF refill
  <2>5. Len(refill) \in Nat /\ Len(refill) <= a.size /\ Len(refill) <= FileSize - p /\ back <= Len(refill)
    BY <2>2, <2>3, <2>4, <2>t, <1>f, SMTT(30) DEF Least
  <2>6. x \in 0..FileSize /\ x - Len(refill) = p /\ c \in Nat /\ c <= Len(refill)
        /\ x - (Len(refill) - c) = IF t = 0 THEN 0 ELSE t - 1
    <3> DEFINE l == Len(refill)
    <3>1. p \in Nat /\ l \in Nat /\ l <= FileSize - p /\ back <= l /\ back \in Nat /\ p + back = t
          /\ (back = 0 <=> t = 0) /\ FileSize \in Nat
      BY <2>2, <2>3, <2>5, <1>f
    <3>2. x = p + l /\ c = IF back = 0 THEN 0 ELSE back - 1
      OBVIOUS
    <3> HIDE DEF l, x, c
    <3>3. x \in 0..FileSize /\ x - l = p /\ c \in Nat /\ c <= l
          /\ x - (l - c) = IF t = 0 THEN 0 ELSE t - 1
      BY <3>1, <3>2, <2>t
    <3> QED
      BY <3>3 DEF l
  <2> HIDE DEF x, c
  <2>7. u \in Archive /\ u.hp = x /\ u.buf = a.buf /\ u.cur = a.cur /\ u.size = a.size
    <3>1. a \in Archive
      BY DEF Sound
    <3> QED
      BY <2>6, <3>1, SetHp
  <2> HIDE DEF u
  <2>8. w \in Archive /\ w.hp = x /\ w.buf = refill /\ w.cur = a.cur /\ w.size = a.size
    BY <2>7, <2>4, SetBuf
  <2> HIDE DEF w
  <2>9. v \in Archive /\ v.hp = x /\ v.buf = refill /\ v.cur = c /\ v.size = a.size
    BY <2>1, <2>8, <2>6, SetCur
  <2>10. Len(refill) <= x
    BY <2>3, <2>5, <2>6
  <2> QED
    BY <2>9, <2>10, <2>4, <2>5, <2>6, <1>f DEF Sound, Tell, Rest, Mirrors, t
<1> QED
  BY <1>1, <1>2

(***************************************************************************)
(* reget of n bytes, offset bytes back, from the window or by seeking      *)
(* there and back.                                                         *)
(***************************************************************************)
LEMMA RegetBytesDelivers ==
  ASSUME SizesAssumption, NEW a, Sound(a), NEW offset \in Nat, NEW n \in Nat,
         n <= offset, offset <= Tell(a), NEW r, r = RegetBytes(a, offset, n)
  PROVE  /\ Sound(r.ar) /\ Tell(r.ar) = Tell(a)
         /\ r.out \in Seq(FileByte) /\ Len(r.out) = n
         /\ Mirrors(a) => Shows(r.out, Tell(a) - offset) /\ Mirrors(r.ar)
<1> DEFINE t == Tell(a)
           o == t - offset
<1>f. /\ a.hp \in Nat /\ Len(a.buf) \in Nat /\ Len(a.buf) <= a.hp /\ FileSize \in Nat
      /\ a.cur \in Nat /\ Rest(a) \in Nat /\ Rest(a) = Len(a.buf) - a.cur /\ t = a.hp - Rest(a)
      /\ t \in Nat /\ t <= FileSize /\ a.cur <= Len(a.buf) /\ a.buf \in Seq(FileByte)
  BY SoundFacts
<1>o. o \in 0..FileSize /\ n <= FileSize - o /\ FileSize - o \in Nat
  <2>1. t \in Nat /\ t <= FileSize /\ offset <= t /\ FileSize \in Nat
    BY <1>f
  <2> HIDE DEF t
  <2> QED
    BY <2>1
<1>1. CASE offset <= a.cur
  <2> DEFINE c == a.cur
             s == a.buf
             l == Len(s)
             p == a.hp - l
             i == c - offset + 1
             j == c - offset + n
  <2>1. r.ar = a /\ r.out = SubSeq(s, i, j)
    BY <1>1 DEF RegetBytes
  <2>2. /\ i \in 1..(l + 1) /\ j \in (i - 1)..l /\ j - i + 1 = n /\ p + i - 1 = o /\ p \in Int
        /\ s \in Seq(FileByte)
    <3> DEFINE h == a.hp
               q == Rest(a)
    <3>1. /\ c \in Nat /\ l \in Nat /\ h \in Nat /\ offset <= c /\ c <= l
          /\ q = l - c /\ t = h - q /\ p = h - l /\ o = t - offset
      BY <1>f, <1>1
    <3>2. s \in Seq(FileByte)
      BY <1>f
    <3>3. i = c - offset + 1 /\ j = c - offset + n
      OBVIOUS
    <3> HIDE DEF c, s, l, p, i, j, h, q, t, o
    <3>4. i \in 1..(l + 1) /\ j \in (i - 1)..l /\ j - i + 1 = n /\ p + i - 1 = o /\ p \in Int
      BY <3>1, <3>3
    <3> QED
      BY <3>2, <3>4
  <2>3. Mirrors(a) <=> Shows(s, p)
    BY DEF Mirrors
  <2> HIDE DEF i, j, p, s, o
  <2>4. SubSeq(s, i, j) \in Seq(FileByte) /\ Len(SubSeq(s, i, j)) = j - i + 1
        /\ (Shows(s, p) => Shows(SubSeq(s, i, j), p + i - 1))
    BY <2>2, ShowsPart DEF l
  <2>5. Mirrors(a) => Shows(r.out, o)
    BY <2>1, <2>2, <2>3, <2>4
  <2> QED
    BY <2>1, <2>2, <2>4, <2>5 DEF o
<1>2. CASE ~(offset <= a.cur)
  <2> DEFINE b == SeekTo(a, o)
             q == GetInto(b, n)
             v == SeekTo(q.ar, t)
  <2>1. r = [q EXCEPT !.ar = SeekTo(q.ar, t)]
    BY <1>2, Zenon DEF RegetBytes
  <2>2. q = [ar |-> q.ar, out |-> q.out]
    BY DEF GetInto, GetBlocks
  <2> HIDE DEF b
  <2>3. Sound(b) /\ Tell(b) = o /\ (Mirrors(a) => Mirrors(b))
    BY <1>o, SeekToSeeks DEF b
  <2>4. Delivered(b, n, q)
    BY <2>3, GetIntoDelivers
  <2> HIDE DEF q
  <2>5. Least(n, FileSize - o) = n
    BY <1>o DEF Least
  <2>6. /\ Sound(q.ar) /\ q.out \in Seq(FileByte) /\ Len(q.out) = n
        /\ Mirrors(a) => Shows(q.out, o) /\ Mirrors(q.ar)
    BY <2>3, <2>4, <2>5 DEF Delivered
  <2>7. r.ar = v /\ r.out = q.out
    BY <2>1, <2>2
  <2>8. Sound(v) /\ Tell(v) = t /\ (Mirrors(q.ar) => Mirrors(v))
    <3>1. t \in 0..FileSize
      BY <1>f
    <3> DEFINE d == q.ar
    <3>2. Sound(d) /\ v = SeekTo(d, t)
      BY <2>6
    <3> HIDE DEF d, v, t
    <3>3. Sound(v) /\ Tell(v) = t /\ (Mirrors(d) => Mirrors(v))
      BY <3>1, <3>2, SeekToSeeks
    <3> QED
      BY <3>3 DEF d
  <2> HIDE DEF v
  <2> QED
    BY <2>6, <2>7, <2>8
<1> QED
  BY <1>1, <1>2
-----------------------------------------------------------------------------
\* The buffer that peek allocates is large enough.
LEMMA RoundUpFacts ==
  ASSUME SizesAssumption, NEW n \in Nat
  PROVE  RoundUp(n) \in Nat /\ n <= RoundUp(n)
<1> DEFINE d == RoundSize
           x == n + d - 1
           y == x \div d
<1>1. d \in Nat \ {0}
  BY DEF SizesAssumption
<1>2. RoundUp(n) = y * d
  BY DEF RoundUp
<1> HIDE DEF d
<1>3. x \in Nat
  BY <1>1
<1>4. y \in Nat /\ y * d + (x % d) = x /\ x % d \in Nat /\ x % d < d
  <2> HIDE DEF x
  <2>1. \A k \in Nat, e \in Nat \ {0} :
          k \div e \in Nat /\ (k \div e) * e + (k % e) = k /\ k % e \in Nat /\ k % e < e
    OBVIOUS
  <2> QED
    BY <1>1, <1>3, <2>1
<1>5. y * d \in Nat
  BY <1>1, <1>4
<1> DEFINE z == y * d
           m == x % d
<1>6. z \in Nat /\ m \in Nat /\ z + m = n + d - 1 /\ m < d
  BY <1>4, <1>5
<1> HIDE DEF z, m
<1>7. n <= z
  BY <1>1, <1>6
<1> QED
  BY <1>2, <1>6, <1>7 DEF z

(***************************************************************************)
(* A peek leaves the client where it was, with n bytes ahead if the file   *)
(* has them; they are the file's if memcpy does not spoil them.            *)
(***************************************************************************)
LEMMA PeekPointerPeeks ==
  ASSUME SizesAssumption, NEW a, Sound(a), NEW n \in Nat, NEW v \in PeekPointer(a, n)
  PROVE  /\ Sound(v) /\ Tell(v) = Tell(a)
         /\ n <= Rest(v) <=> Tell(a) + n <= FileSize
         /\ Mirrors(a) /\ memcpyForward => Mirrors(v)
<1> DEFINE t == Tell(a)
           h == a.hp
           q == Rest(a)
<1>f. /\ h \in Nat /\ h <= FileSize /\ FileSize \in Nat /\ q \in Nat /\ t \in Nat /\ t = h - q
      /\ q <= h
  <2>1. /\ a.hp \in Nat /\ a.hp <= FileSize /\ FileSize \in Nat /\ Rest(a) \in Nat /\ Tell(a) \in Nat
        /\ Tell(a) = a.hp - Rest(a)
    BY SoundFacts
  <2> QED
    BY <2>1
<1>1. CASE n <= Rest(a)
  <2>1. v = a
    BY <1>1 DEF PeekPointer
  <2>2. t + n <= FileSize
    <3>1. n <= q
      BY <1>1
    <3> HIDE DEF t, h, q
    <3> QED
      BY <3>1, <1>f
  <2> QED
    BY <1>1, <2>1, <2>2
<1>2. CASE ~(n <= Rest(a))
  <2> DEFINE sz == IF n > a.size THEN RoundUp(n) ELSE a.size
             more == FromFile(a.hp, sz - q)
  <2>1. PICK moved \in MovedDown(a, n) :
          v = [hp |-> h + Len(more), buf |-> moved \o more, cur |-> 0, size |-> sz]
    BY <1>2 DEF PeekPointer, FillAfterPeek
  <2>2. sz \in Nat /\ sz >= 4 /\ n <= sz /\ q <= sz
    <3> DEFINE s == a.size
               x == RoundUp(n)
    <3>1. s \in Nat /\ s >= 4 /\ q <= s
      <4> DEFINE l == Len(a.buf)
                 c == a.cur
      <4>1. s \in Nat /\ s >= 4 /\ l \in Nat /\ l <= s /\ c \in Nat /\ q = l - c
        BY SoundFacts
      <4> HIDE DEF l, c, s, q
      <4> QED
        BY <4>1
    <3>2. x \in Nat /\ n <= x
      BY RoundUpFacts
    <3>3. sz = IF n > s THEN x ELSE s
      OBVIOUS
    <3> HIDE DEF s, x, sz, q
    <3> QED
      BY <3>1, <3>2, <3>3, <1>f
  <2> HIDE DEF sz
  <2>3. /\ moved \in Seq(FileByte) /\ Len(moved) = q
        /\ Mirrors(a) /\ memcpyForward => Shows(moved, t)
    <3>1. CASE moved = Ahead(a, Rest(a))
      <4>1. Rest(a) \in Nat /\ Rest(a) <= Rest(a)
        BY <1>f
      <4> QED
        BY <3>1, <4>1, AheadFacts
    <3>2. CASE ~memcpyForward /\ moved = [i \in 1..Rest(a) |-> Junk]
      <4>1. Junk \in FileByte
        BY <1>f DEF Junk, FileByte
      <4> HIDE DEF Junk
      <4>2. q \in Nat /\ moved = [i \in 1..q |-> Junk]
        BY <3>2, <1>f
      <4> HIDE DEF q
      <4>3. moved \in Seq(FileByte) /\ Len(moved) = q
        BY <4>1, <4>2
      <4> QED
        BY <3>2, <4>3
    <3> QED
      BY <3>1, <3>2 DEF MovedDown
  <2>4. more \in Seq(FileByte) /\ Len(more) = Least(sz - q, FileSize - h) /\ Shows(more, h)
    <3>1. h \in 0..FileSize /\ sz - q \in Nat /\ more = FromFile(h, sz - q)
      BY <1>f, <2>2
    <3> HIDE DEF more, h, q
    <3> QED
      BY <3>1, FromFileFacts
  <2> HIDE DEF more, t, h, q
  <2>5. /\ moved \o more \in Seq(FileByte) /\ Len(moved \o more) = q + Len(more)
        /\ Shows(moved, t) /\ Shows(more, h) => Shows(moved \o more, t)
    <3>1. h = t + Len(moved) /\ t \in Int /\ h \in Int
      BY <1>f, <2>3
    <3> QED
      BY <3>1, <2>3, <2>4, ShowsConcat
  <2> DEFINE x == h + Len(more)
             b == moved \o more
             l == Len(b)
             k == Len(more)
  <2>6. k \in Nat /\ k = Least(sz - q, FileSize - h)
    BY <2>4
  <2>7. b \in Seq(FileByte) /\ l = q + k /\ x = h + k
    BY <2>5
  <2> HIDE DEF x, b, l, k
  <2>8. /\ x \in 0..FileSize /\ l \in Nat /\ l <= x /\ l <= sz /\ x - l = t
        /\ n <= l <=> t + n <= FileSize
    BY <2>2, <2>6, <2>7, <1>f DEF Least
  <2>9. v = [hp |-> x, buf |-> b, cur |-> 0, size |-> sz]
    BY <2>1 DEF x, b
  <2>10. v \in Archive /\ v.hp = x /\ v.buf = b /\ v.cur = 0 /\ v.size = sz
    BY <2>2, <2>7, <2>8, <2>9 DEF Archive
  <2>11. Rest(v) = l /\ Tell(v) = t
    BY <2>8, <2>10 DEF Rest, Tell, l
  <2>12. Sound(v)
    BY <2>2, <2>8, <2>10 DEF Sound, l
  <2>13. Mirrors(a) /\ memcpyForward => Mirrors(v)
    BY <2>3, <2>4, <2>5, <2>8, <2>10 DEF Mirrors, l, b
  <2> QED
    BY <2>8, <2>11, <2>12, <2>13 DEF t
<1> QED
  BY <1>1, <1>2
-----------------------------------------------------------------------------
(***************************************************************************)
(* The inductive invariant, and steps the abstract stream can take.        *)
(***************************************************************************)
IInv ==
  /\ Sound(ar)
  /\ good \in BOOLEAN /\ memcpyForward \in BOOLEAN
  /\ ~good => ar.buf = << >>

Streams == Stream!Next \/ UNCHANGED Stream!svars
Right == IInv' /\ Streams

\* The property in terms of the archive.
LEMMA WindowIsMirrors ==
  ASSUME SizesAssumption, IInv
  PROVE  WindowMirrorsFile <=> Mirrors(ar)
<1>1. Sound(ar)
  BY DEF IInv
<1>2. Window(ar) <=> Mirrors(ar)
  BY <1>1, MirrorsWindow
<1> QED
  BY <1>2 DEF Window, WindowMirrorsFile

\* A call that returns a sound archive keeps the invariant.
LEMMA ReturnsKeeps ==
  ASSUME SizesAssumption, IInv, NEW r, Returns(r), Sound(r.ar)
  PROVE  /\ IInv' /\ good /\ UNCHANGED <<good, memcpyForward>>
         /\ WindowMirrorsFile' <=> Mirrors(r.ar)
         /\ Tell(ar)' = Tell(r.ar) /\ got' = r.out
<1>1. ar' = r.ar /\ got' = r.out /\ good /\ UNCHANGED <<good, memcpyForward>>
  BY DEF Returns
<1>2. Tell(ar)' = Tell(r.ar)
  BY <1>1 DEF Tell, Rest
<1>3. Window(r.ar) <=> Mirrors(r.ar)
  BY MirrorsWindow
<1>4. WindowMirrorsFile' <=> Window(r.ar)
  BY <1>1 DEF WindowMirrorsFile, Window, FromFile, Least
<1>5. Sound(ar)'
  BY <1>1 DEF Sound
<1>6. IInv'
  BY <1>1, <1>5 DEF IInv
<1> QED
  BY <1>1, <1>2, <1>3, <1>4, <1>6

\* Bytes delivered, exact if they show the file.
LEMMA DeliverStep ==
  ASSUME SizesAssumption, NEW p \in 0..FileSize, NEW n \in Nat, NEW s, got' = s,
         s \in Seq(FileByte), Len(s) = Least(n, FileSize - p),
         NEW STATE exact, exact => Shows(s, p)
  PROVE  Stream!Deliver(p, n, exact)
<1>1. Stream!Bytes(p, n) = FromFile(p, n)
  BY DEF Stream!Bytes, FromFile, Stream!Least, Least
<1>2. exact => s = FromFile(p, n)
  BY ShownIsFile
<1>3. s \in [1..Least(n, FileSize - p) -> FileByte]
  OBVIOUS
<1>4. s \in [1..Stream!Least(n, FileSize - p) -> Stream!FileByte]
  BY <1>3 DEF Stream!Least, Least, Stream!FileByte, FileByte
<1> QED
  BY <1>1, <1>2, <1>4 DEF Stream!Deliver

\* The position after a call.
LEMMA MoveStep ==
  ASSUME NEW p, Tell(ar)' = p, UNCHANGED <<good, memcpyForward>>,
         NEW delivered \in BOOLEAN, delivered \/ got' = << >>
  PROVE  Stream!Move(p, delivered)
<1>1. WindowMirrorsFile' \in BOOLEAN
  BY DEF WindowMirrorsFile
<1> QED
  BY <1>1 DEF Stream!Move

\* get.
LEMMA GetStep ==
  ASSUME SizesAssumption, IInv, NEW n \in 0..MaxAsk, Get(n)
  PROVE  Right
<1> DEFINE r == GetInto(ar, n)
<1>1. n \in Nat /\ Sound(ar)
  BY DEF SizesAssumption, IInv
<1>2. Delivered(ar, n, r)
  BY <1>1, GetIntoDelivers
<1>3. Returns(r)
  BY DEF Get
<1> HIDE DEF r
<1>4. /\ IInv' /\ good /\ UNCHANGED <<good, memcpyForward>>
      /\ WindowMirrorsFile' <=> Mirrors(r.ar)
      /\ Tell(ar)' = Tell(r.ar) /\ got' = r.out
  BY <1>2, <1>3, ReturnsKeeps DEF Delivered
<1>5. WindowMirrorsFile <=> Mirrors(ar)
  BY WindowIsMirrors
<1>6. Stream!Deliver(Tell(ar), n, WindowMirrorsFile)
  <2>1. Tell(ar) \in 0..FileSize
    BY <1>1, SoundFacts
  <2> QED
    BY <1>1, <1>2, <1>4, <1>5, <2>1, DeliverStep DEF Delivered
<1>7. Stream!Move(Tell(ar) + Len(got'), TRUE)
  <2> DEFINE p == Tell(r.ar)
  <2>1. Tell(ar)' = p /\ p = Tell(ar) + Len(got')
    BY <1>2, <1>4 DEF Delivered
  <2> HIDE DEF p
  <2>2. Stream!Move(p, TRUE)
    BY <1>4, <2>1, MoveStep
  <2> QED
    BY <2>1, <2>2
<1>8. WindowMirrorsFile /\ Len(got') = n => WindowMirrorsFile'
  BY <1>2, <1>4, <1>5 DEF Delivered
<1>9. Stream!Fetch(n)
  BY <1>6, <1>7, <1>8 DEF Stream!Fetch
<1> QED
  BY <1>4, <1>9 DEF Right, Streams, Stream!Next

\* peek of one byte.
LEMMA PeekCharStep ==
  ASSUME SizesAssumption, IInv, PeekChar
  PROVE  Right
<1> DEFINE r == PeekOne(ar)
<1>1. Sound(ar)
  BY DEF IInv
<1>2. /\ Sound(r.ar) /\ Tell(r.ar) = Tell(ar)
      /\ r.out \in Seq(FileByte) /\ Len(r.out) = Least(1, FileSize - Tell(ar))
      /\ Mirrors(ar) => Shows(r.out, Tell(ar)) /\ Mirrors(r.ar)
  BY <1>1, PeekOneDelivers
<1>3. Returns(r)
  BY DEF PeekChar
<1> HIDE DEF r
<1>4. /\ IInv' /\ good /\ UNCHANGED <<good, memcpyForward>>
      /\ WindowMirrorsFile' <=> Mirrors(r.ar)
      /\ Tell(ar)' = Tell(r.ar) /\ got' = r.out
  BY <1>2, <1>3, ReturnsKeeps
<1>5. WindowMirrorsFile <=> Mirrors(ar)
  BY WindowIsMirrors
<1>6. Stream!Deliver(Tell(ar), 1, WindowMirrorsFile)
  <2>1. Tell(ar) \in 0..FileSize
    BY <1>1, SoundFacts
  <2> QED
    BY <1>2, <1>4, <1>5, <2>1, DeliverStep
<1>7. Stream!Move(Tell(ar), TRUE)
  BY <1>2, <1>4, MoveStep
<1>8. WindowMirrorsFile => WindowMirrorsFile'
  BY <1>2, <1>4, <1>5
<1>9. Stream!PeekChar
  BY <1>6, <1>7, <1>8 DEF Stream!PeekChar
<1> QED
  BY <1>4, <1>9 DEF Right, Streams, Stream!Next

\* reget.
LEMMA RegetStep ==
  ASSUME SizesAssumption, IInv, NEW offset \in 0..MaxAsk, NEW n \in 0..MaxAsk, Reget(offset, n)
  PROVE  Right
<1> DEFINE r == RegetBytes(ar, offset, n)
<1>1. Sound(ar) /\ n \in Nat /\ offset \in Nat /\ n <= offset /\ offset <= Tell(ar)
  BY DEF SizesAssumption, IInv, Reget
<1>2. /\ Sound(r.ar) /\ Tell(r.ar) = Tell(ar)
      /\ r.out \in Seq(FileByte) /\ Len(r.out) = n
      /\ Mirrors(ar) => Shows(r.out, Tell(ar) - offset) /\ Mirrors(r.ar)
  BY <1>1, RegetBytesDelivers
<1>3. Returns(r)
  BY DEF Reget
<1> HIDE DEF r
<1>4. /\ IInv' /\ good /\ UNCHANGED <<good, memcpyForward>>
      /\ WindowMirrorsFile' <=> Mirrors(r.ar)
      /\ Tell(ar)' = Tell(r.ar) /\ got' = r.out
  BY <1>2, <1>3, ReturnsKeeps
<1>5. WindowMirrorsFile <=> Mirrors(ar)
  BY WindowIsMirrors
<1>6. Stream!Deliver(Tell(ar) - offset, n, WindowMirrorsFile)
  <2> DEFINE o == Tell(ar) - offset
             t == Tell(ar)
  <2>1. t \in Nat /\ t <= FileSize /\ FileSize \in Nat /\ offset <= t /\ o = t - offset
    BY <1>1, SoundFacts
  <2> HIDE DEF o, t
  <2>2. o \in 0..FileSize /\ n <= FileSize - o /\ FileSize - o \in Nat
    BY <1>1, <2>1
  <2>3. Least(n, FileSize - o) = n
    BY <1>1, <2>2 DEF Least
  <2>4. WindowMirrorsFile => Shows(r.out, o)
    BY <1>2, <1>5 DEF o
  <2>5. Stream!Deliver(o, n, WindowMirrorsFile)
    BY <1>1, <1>2, <1>4, <2>2, <2>3, <2>4, DeliverStep
  <2> QED
    BY <2>5 DEF o
<1>7. Stream!Move(Tell(ar), TRUE)
  BY <1>2, <1>4, MoveStep
<1>8. WindowMirrorsFile => WindowMirrorsFile'
  BY <1>2, <1>4, <1>5
<1>9. Stream!Refetch(offset, n)
  BY <1>1, <1>6, <1>7, <1>8 DEF Stream!Refetch
<1> QED
  BY <1>4, <1>9 DEF Right, Streams, Stream!Next

(***************************************************************************)
(* The calls that deliver nothing: an archive v at the position p.         *)
(***************************************************************************)
LEMMA MovesStep ==
  ASSUME SizesAssumption, IInv, NEW v, Moves(v), Sound(v), Mirrors(ar) => Mirrors(v)
  PROVE  /\ IInv' /\ good
         /\ Stream!Move(Tell(v), FALSE)
         /\ WindowMirrorsFile => WindowMirrorsFile'
<1> DEFINE e == << >>
           r == [ar |-> v, out |-> e]
<1>1. Returns(r) /\ r.ar = v /\ r.out = << >>
  BY DEF Moves
<1> HIDE DEF r
<1>2. /\ IInv' /\ good /\ UNCHANGED <<good, memcpyForward>>
      /\ WindowMirrorsFile' <=> Mirrors(r.ar)
      /\ Tell(ar)' = Tell(r.ar) /\ got' = r.out
  BY <1>1, ReturnsKeeps
<1>3. WindowMirrorsFile <=> Mirrors(ar)
  BY WindowIsMirrors
<1>4. Stream!Move(Tell(v), FALSE)
  BY <1>1, <1>2, MoveStep
<1> QED
  BY <1>1, <1>2, <1>3, <1>4

\* seek.
LEMMA SeekStep ==
  ASSUME SizesAssumption, IInv, NEW o \in 0..FileSize, Seek(o)
  PROVE  Right
<1> DEFINE v == SeekTo(ar, o)
<1>1. Sound(v) /\ Tell(v) = o /\ (Mirrors(ar) => Mirrors(v))
  BY SeekToSeeks DEF IInv
<1>2. Moves(v)
  BY DEF Seek
<1> HIDE DEF v
<1>3. IInv' /\ good /\ Stream!Move(Tell(v), FALSE) /\ (WindowMirrorsFile => WindowMirrorsFile')
  BY <1>1, <1>2, MovesStep
<1>4. Stream!SeekTo(o)
  BY <1>1, <1>3 DEF Stream!SeekTo
<1> QED
  BY <1>3, <1>4 DEF Right, Streams, Stream!Next

\* seekToEnd.
LEMMA SeekEndStep ==
  ASSUME SizesAssumption, IInv, SeekEnd
  PROVE  Right
<1> DEFINE v == SeekAlways(ar, FileSize)
<1>0. FileSize \in 0..FileSize
  BY DEF SizesAssumption
<1>1. Sound(v) /\ Tell(v) = FileSize /\ (Mirrors(ar) => Mirrors(v))
  <2>1. v = [ClearCache(ar) EXCEPT !.hp = FileSize]
    BY Zenon DEF SeekAlways
  <2> HIDE DEF v
  <2> QED
    BY <1>0, <2>1, Cleared DEF IInv
<1>2. Moves(v)
  BY DEF SeekEnd
<1> HIDE DEF v
<1>3. IInv' /\ good /\ Stream!Move(Tell(v), FALSE) /\ (WindowMirrorsFile => WindowMirrorsFile')
  BY <1>1, <1>2, MovesStep
<1>4. Stream!SeekTo(FileSize)
  BY <1>1, <1>3 DEF Stream!SeekTo
<1> QED
  BY <1>0, <1>3, <1>4 DEF Right, Streams, Stream!Next

\* skip.
LEMMA SkipStep ==
  ASSUME SizesAssumption, IInv, NEW n \in 0..MaxAsk, Skip(n)
  PROVE  Right
<1> DEFINE v == SkipBytes(ar, n)
           p == Tell(ar) + n
<1>0. n \in Nat /\ p \in 0..FileSize /\ Sound(ar)
  <2>1. n \in Nat /\ Sound(ar)
    BY DEF SizesAssumption, IInv
  <2>2. Tell(ar) \in Nat /\ FileSize \in Nat
    BY <2>1, SoundFacts
  <2> QED
    BY <2>1, <2>2 DEF Skip
<1>1. Sound(v) /\ Tell(v) = p /\ (Mirrors(ar) => Mirrors(v))
  <2>1. Tell(ar) + n <= FileSize
    BY DEF Skip
  <2> QED
    BY <1>0, <2>1, SkipBytesSkips
<1>2. Moves(v)
  BY DEF Skip
<1> HIDE DEF v, p
<1>3. IInv' /\ good /\ Stream!Move(Tell(v), FALSE) /\ (WindowMirrorsFile => WindowMirrorsFile')
  BY <1>1, <1>2, MovesStep
<1>4. Stream!SeekTo(p)
  BY <1>1, <1>3 DEF Stream!SeekTo
<1> QED
  BY <1>0, <1>3, <1>4 DEF Right, Streams, Stream!Next

\* unget.
LEMMA UngetStep ==
  ASSUME SizesAssumption, IInv, Unget
  PROVE  Right
<1> DEFINE v == UngetByte(ar)
<1>1. /\ Sound(v) /\ Tell(v) = (IF Tell(ar) = 0 THEN 0 ELSE Tell(ar) - 1)
      /\ Mirrors(ar) => Mirrors(v)
  BY UngetByteSteps DEF IInv
<1>2. Moves(v)
  BY DEF Unget
<1> HIDE DEF v
<1>3. IInv' /\ good /\ Stream!Move(Tell(v), FALSE) /\ (WindowMirrorsFile => WindowMirrorsFile')
  BY <1>1, <1>2, MovesStep
<1>4. Stream!Unfetch
  BY <1>1, <1>3 DEF Stream!Unfetch
<1> QED
  BY <1>3, <1>4 DEF Right, Streams, Stream!Next

(***************************************************************************)
(* The calls that return a pointer into the buffer.                        *)
(***************************************************************************)
LEMMA PointerStep ==
  ASSUME SizesAssumption, IInv, NEW n \in 0..MaxAsk, NEW forward \in BOOLEAN,
         NEW a \in PeekPointer(ar, n), NEW r, Returns(r),
         n <= Rest(a) => r.out = Ahead(a, n),
         ~(n <= Rest(a)) => r.out = << >>,
         r.ar = (IF n <= Rest(a) /\ forward THEN [a EXCEPT !.cur = @ + n] ELSE a)
  PROVE  Right
<1>0. n \in Nat /\ Sound(ar)
  BY DEF SizesAssumption, IInv
<1>1. /\ Sound(a) /\ Tell(a) = Tell(ar)
      /\ n <= Rest(a) <=> Tell(ar) + n <= FileSize
      /\ Mirrors(ar) /\ memcpyForward => Mirrors(a)
  BY <1>0, PeekPointerPeeks
<1>f. /\ FileSize \in Nat /\ Tell(a) \in Nat /\ Tell(a) <= FileSize
      /\ a.cur \in Nat /\ Len(a.buf) \in Nat /\ Rest(a) = Len(a.buf) - a.cur
  BY <1>1, SoundFacts
<1>2. CASE n <= Rest(a) /\ forward
  <2> DEFINE c == a.cur + n
             v == [a EXCEPT !.cur = c]
  <2>1. r.ar = v
    BY <1>2, Zenon
  <2>2. n \in Int /\ c = a.cur + n /\ 0 <= c /\ c <= Len(a.buf)
    BY <1>0, <1>f, <1>2
  <2> HIDE DEF c
  <2>3. Sound(v) /\ Tell(v) = Tell(a) + n /\ (Mirrors(v) <=> Mirrors(a))
    BY <1>1, <2>2, MovedBy
  <2> HIDE DEF v
  <2>4. Sound(r.ar) /\ Tell(r.ar) = Tell(ar) + n /\ (Mirrors(r.ar) <=> Mirrors(a))
    BY <1>1, <2>1, <2>3
  <2> QED
    <3>1. /\ IInv' /\ good /\ UNCHANGED <<good, memcpyForward>>
          /\ WindowMirrorsFile' <=> Mirrors(r.ar)
          /\ Tell(ar)' = Tell(r.ar) /\ got' = r.out
      BY <2>4, ReturnsKeeps
    <3>2. WindowMirrorsFile <=> Mirrors(ar)
      BY WindowIsMirrors
    <3>3. Stream!Deliver(Tell(ar), n, WindowMirrorsFile /\ memcpyForward)
      <4>1. r.out \in Seq(FileByte) /\ Len(r.out) = n /\ (Mirrors(a) => Shows(r.out, Tell(a)))
        BY <1>0, <1>1, <1>2, AheadFacts
      <4>2. Tell(ar) \in 0..FileSize /\ Least(n, FileSize - Tell(ar)) = n
        <5> DEFINE t == Tell(ar)
        <5>1. t \in Nat /\ t <= FileSize /\ t + n <= FileSize
          BY <1>1, <1>2, <1>f
        <5> HIDE DEF t
        <5>2. t \in 0..FileSize /\ Least(n, FileSize - t) = n
          BY <5>1, <1>0, <1>f DEF Least
        <5> QED
          BY <5>2 DEF t
      <4> QED
        BY <1>0, <1>1, <3>1, <3>2, <4>1, <4>2, DeliverStep
    <3>4. Stream!Move(Tell(ar) + n, TRUE)
      <4> DEFINE p == Tell(ar) + n
      <4>1. Tell(ar)' = p
        BY <2>4, <3>1
      <4> HIDE DEF p
      <4>2. Stream!Move(p, TRUE)
        BY <3>1, <4>1, MoveStep
      <4> QED
        BY <4>2 DEF p
    <3>5. Stream!FetchPointer(n, forward)
      BY <1>1, <1>2, <2>4, <3>1, <3>2, <3>3, <3>4 DEF Stream!FetchPointer
    <3> QED
      BY <3>1, <3>5 DEF Right, Streams, Stream!Next
<1>3. CASE ~(n <= Rest(a) /\ forward)
  <2>1. r.ar = a
    BY <1>3
  <2>2. /\ IInv' /\ good /\ UNCHANGED <<good, memcpyForward>>
        /\ WindowMirrorsFile' <=> Mirrors(a)
        /\ Tell(ar)' = Tell(a) /\ got' = r.out
    BY <1>1, <2>1, ReturnsKeeps
  <2>3. WindowMirrorsFile <=> Mirrors(ar)
    BY WindowIsMirrors
  <2>4. Stream!Move(Tell(ar), TRUE)
    BY <1>1, <2>2, MoveStep
  <2>5. ASSUME n <= Rest(a) PROVE Stream!Deliver(Tell(ar), n, WindowMirrorsFile /\ memcpyForward)
    <4>1. r.out \in Seq(FileByte) /\ Len(r.out) = n /\ (Mirrors(a) => Shows(r.out, Tell(a)))
      BY <1>0, <1>1, <2>5, AheadFacts
    <4>2. Tell(ar) \in 0..FileSize /\ Least(n, FileSize - Tell(ar)) = n
      <5> DEFINE t == Tell(ar)
      <5>1. t \in Nat /\ t <= FileSize /\ t + n <= FileSize
        BY <1>1, <2>5, <1>f
      <5> HIDE DEF t
      <5>2. t \in 0..FileSize /\ Least(n, FileSize - t) = n
        BY <5>1, <1>0, <1>f DEF Least
      <5> QED
        BY <5>2 DEF t
    <4> QED
      BY <1>0, <1>1, <2>2, <2>3, <4>1, <4>2, DeliverStep
  <2>6. ~(n <= Rest(a)) => got' = << >>
    BY <2>2
  <2>7. Stream!FetchPointer(n, forward)
    BY <1>1, <1>3, <2>2, <2>3, <2>4, <2>5, <2>6 DEF Stream!FetchPointer
  <2> QED
    BY <2>2, <2>7 DEF Right, Streams, Stream!Next
<1> QED
  BY <1>2, <1>3

\* peek of n bytes.
LEMMA PeekStep ==
  ASSUME SizesAssumption, IInv, NEW n \in 0..MaxAsk, Peek(n)
  PROVE  Right
<1> DEFINE r(a) == [ar |-> a, out |-> IF n <= Rest(a) THEN Ahead(a, n) ELSE << >>]
<1>1. PICK a \in PeekPointer(ar, n) : Returns(r(a))
  BY DEF Peek
<1>2. /\ r(a).ar = a
      /\ n <= Rest(a) => r(a).out = Ahead(a, n)
      /\ ~(n <= Rest(a)) => r(a).out = << >>
  OBVIOUS
<1> DEFINE s == r(a)
<1>3. /\ Returns(s) /\ s.ar = a
      /\ n <= Rest(a) => s.out = Ahead(a, n)
      /\ ~(n <= Rest(a)) => s.out = << >>
  BY <1>1, <1>2
<1> HIDE DEF s, r
<1>4. s.ar = IF n <= Rest(a) /\ FALSE THEN [a EXCEPT !.cur = @ + n] ELSE a
  BY <1>3
<1> QED
  BY <1>3, <1>4, PointerStep

\* get of a pointer to n bytes.
LEMMA GetPointerStep ==
  ASSUME SizesAssumption, IInv, NEW n \in 0..MaxAsk, GetPointer(n)
  PROVE  Right
<1>1. PICK a \in PeekPointer(ar, n) :
        IF n <= Rest(a)
          THEN Returns([ar |-> [a EXCEPT !.cur = @ + n], out |-> Ahead(a, n)])
          ELSE Moves(a)
  BY DEF GetPointer
<1> DEFINE moved == [a EXCEPT !.cur = @ + n]
           empty == << >>
<1>2. CASE n <= Rest(a)
  <2> DEFINE s == [ar |-> moved, out |-> Ahead(a, n)]
  <2> HIDE DEF moved
  <2>1. Returns(s) /\ s.ar = moved /\ s.out = Ahead(a, n)
    BY <1>1, <1>2 DEF moved
  <2> HIDE DEF s
  <2>2. s.ar = IF n <= Rest(a) /\ TRUE THEN [a EXCEPT !.cur = @ + n] ELSE a
    BY <1>2, <2>1 DEF moved
  <2> QED
    BY <1>2, <2>1, <2>2, PointerStep
<1>3. CASE ~(n <= Rest(a))
  <2> DEFINE s == [ar |-> a, out |-> empty]
  <2>1. Returns(s) /\ s.ar = a /\ s.out = << >>
    BY <1>1, <1>3 DEF Moves
  <2> HIDE DEF s
  <2>2. s.ar = IF n <= Rest(a) /\ TRUE THEN [a EXCEPT !.cur = @ + n] ELSE a
    BY <1>3, <2>1
  <2> QED
    BY <1>3, <2>1, <2>2, PointerStep
<1> QED
  BY <1>2, <1>3
-----------------------------------------------------------------------------
(***************************************************************************)
(* Opening and closing.                                                    *)
(***************************************************************************)

\* A window without bytes mirrors the file.
LEMMA EmptyWindow ==
  ASSUME SizesAssumption, NEW v, ar' = v, Sound(v), Mirrors(v)
  PROVE  /\ WindowMirrorsFile' = TRUE
         /\ Tell(ar)' = Tell(v) /\ Sound(ar)'
<1>1. Window(v)
  BY MirrorsWindow
<1>2. WindowMirrorsFile' <=> Window(v)
  BY DEF WindowMirrorsFile, Window, FromFile, Least
<1>3. WindowMirrorsFile' \in BOOLEAN
  BY DEF WindowMirrorsFile
<1>4. Tell(ar)' = Tell(v) /\ Sound(ar)'
  BY DEF Tell, Rest, Sound
<1> QED
  BY <1>1, <1>2, <1>3, <1>4

\* close and detach.
LEMMA CloseStep ==
  ASSUME SizesAssumption, IInv, Close
  PROVE  Right
<1>0. Sound(ar)
  BY DEF IInv
<1>1. PICK o \in 0..FileSize : o = ar.hp
  BY <1>0 DEF Sound, Archive
<1> DEFINE v == [ClearCache(ar) EXCEPT !.hp = o]
<1>2. Sound(v) /\ Tell(v) = o /\ Mirrors(v)
  BY <1>0, Cleared
<1>3. v = ClearCache(ar)
  <2>1. ar \in [hp : 0..FileSize, buf : Seq(FileByte), cur : Nat, size : Nat]
    BY <1>0 DEF Sound, Archive
  <2> QED
    BY <1>1, <2>1 DEF ClearCache
<1>e. ClearCache(ar).buf = << >>
  <2>1. ar \in [hp : 0..FileSize, buf : Seq(FileByte), cur : Nat, size : Nat]
    BY <1>0 DEF Sound, Archive
  <2> QED
    BY <2>1 DEF ClearCache
<1>4. ar' = v /\ good /\ good' = FALSE /\ got' = << >> /\ memcpyForward' = memcpyForward
  BY <1>3 DEF Close
<1> HIDE DEF v
<1>5. WindowMirrorsFile' = TRUE /\ Tell(ar)' = o /\ Sound(ar)'
  BY <1>2, <1>4, EmptyWindow
<1>6. IInv'
  <2>1. ar'.buf = << >>
    BY <1>3, <1>4, <1>e
  <2> QED
    BY <1>4, <1>5, <2>1 DEF IInv
<1>7. Stream!Closed
  BY <1>1, <1>4, <1>5 DEF Stream!Closed
<1> QED
  BY <1>4, <1>6, <1>7 DEF Right, Streams, Stream!Next

\* attach, after which the window is empty.
LEMMA AttachStep ==
  ASSUME SizesAssumption, IInv, NEW p \in 0..FileSize, Attach(p)
  PROVE  Right
<1> DEFINE v == [ClearCache(ar) EXCEPT !.hp = p]
<1>1. Sound(v) /\ Tell(v) = p /\ Mirrors(v)
  BY Cleared DEF IInv
<1>2. ar' = v /\ good' = TRUE /\ got' = << >> /\ memcpyForward' = memcpyForward
  BY DEF Attach
<1> HIDE DEF v
<1>3. WindowMirrorsFile' = TRUE /\ Tell(ar)' = p /\ Sound(ar)'
  BY <1>1, <1>2, EmptyWindow
<1>4. IInv'
  BY <1>2, <1>3 DEF IInv
<1>5. Stream!Opened(p)
  BY <1>2, <1>3 DEF Stream!Opened
<1> QED
  BY <1>4, <1>5 DEF Right, Streams, Stream!Next

\* open leaves the window as it is: that it shows the new file is only true
\* because close has emptied it.
LEMMA OpenStep ==
  ASSUME SizesAssumption, IInv, Open
  PROVE  Right
<1> DEFINE v == [ar EXCEPT !.hp = 0]
<1>1. Sound(ar) /\ ar.buf = << >> /\ Len(ar.buf) = 0 /\ ar \in Archive
  BY DEF IInv, Open, Sound
<1>2. /\ ar.cur = 0 /\ ar.size >= 4 /\ ar.size \in Nat /\ 0 \in 0..FileSize
  BY <1>1, SoundFacts
<1>3. ar' = v /\ good' = TRUE /\ got' = << >> /\ memcpyForward' = memcpyForward
  BY DEF Open
<1> HIDE DEF v
<1>4. v \in Archive /\ v.hp = 0 /\ v.buf = ar.buf /\ v.cur = ar.cur /\ v.size = ar.size
  BY <1>1, <1>2, SetHp DEF v
<1>5. Sound(v)
  BY <1>1, <1>2, <1>4 DEF Sound
<1>6. Tell(v) = 0
  <2>1. Tell(v) = v.hp - (Len(v.buf) - v.cur)
    BY DEF Tell, Rest
  <2>2. Len(v.buf) = 0 /\ v.cur = 0
    BY <1>1, <1>2, <1>4
  <2> QED
    BY <1>4, <2>1, <2>2
<1>7. Mirrors(v)
  BY <1>1, <1>4, EmptyShows DEF Mirrors
<1>8. WindowMirrorsFile' = TRUE /\ Tell(ar)' = 0 /\ Sound(ar)'
  BY <1>3, <1>5, <1>6, <1>7, EmptyWindow
<1>9. IInv'
  BY <1>3, <1>8 DEF IInv
<1>10. Stream!Opened(0)
  BY <1>3, <1>8 DEF Stream!Opened
<1> QED
  BY <1>2, <1>9, <1>10 DEF Right, Streams, Stream!Next
-----------------------------------------------------------------------------
\* A file just opened.
LEMMA InitRight ==
  ASSUME SizesAssumption, Init
  PROVE  IInv /\ Stream!Init
<1>1. /\ ar.hp = 0 /\ ar.buf = << >> /\ ar.cur = 0 /\ ar.size = BufSize
      /\ Len(ar.buf) = 0
  BY DEF Init
<1>2. ar \in Archive
  BY EmptyShows DEF Init, SizesAssumption, Archive
<1>3. Sound(ar)
  BY <1>1, <1>2 DEF Sound, SizesAssumption
<1>4. Mirrors(ar)
  BY <1>1, EmptyShows DEF Mirrors
<1>5. IInv
  BY <1>3 DEF Init, IInv
<1>6. WindowMirrorsFile = TRUE
  <2>1. WindowMirrorsFile
    BY <1>4, <1>5, WindowIsMirrors
  <2>2. WindowMirrorsFile \in BOOLEAN
    BY DEF WindowMirrorsFile
  <2> QED
    BY <2>1, <2>2
<1>7. Tell(ar) = 0
  <2>1. Tell(ar) = ar.hp - (Len(ar.buf) - ar.cur)
    BY DEF Tell, Rest
  <2> QED
    BY <1>1, <2>1
<1> QED
  BY <1>5, <1>6, <1>7 DEF Init, Stream!Init

\* Every step keeps the invariant and is one of the stream.
LEMMA NextRight ==
  ASSUME SizesAssumption, IInv, Next
  PROVE  Right
<1>1. ASSUME NEW n \in 0..MaxAsk, Get(n) \/ GetPointer(n) \/ Peek(n) \/ Skip(n) PROVE Right
  BY <1>1, GetStep, GetPointerStep, PeekStep, SkipStep
<1>2. ASSUME NEW o \in 0..FileSize, Seek(o) \/ Attach(o) PROVE Right
  BY <1>2, SeekStep, AttachStep
<1>3. ASSUME NEW offset \in 0..MaxAsk, NEW n \in 0..MaxAsk, Reget(offset, n) PROVE Right
  BY <1>3, RegetStep
<1>4. ASSUME PeekChar \/ Unget \/ SeekEnd PROVE Right
  BY <1>4, PeekCharStep, UngetStep, SeekEndStep
<1>5. ASSUME Open \/ Close PROVE Right
  BY <1>5, OpenStep, CloseStep
<1> QED
  BY <1>1, <1>2, <1>3, <1>4, <1>5 DEF Next

\* So is a step that changes nothing.
LEMMA StutterRight ==
  ASSUME SizesAssumption, IInv, UNCHANGED vars
  PROVE  Right
<1>1. ar' = ar /\ got' = got /\ good' = good /\ memcpyForward' = memcpyForward
  BY DEF vars
<1>2. Tell(ar)' = Tell(ar)
  BY <1>1 DEF Tell, Rest
<1>3. WindowMirrorsFile' = WindowMirrorsFile
  BY <1>1 DEF WindowMirrorsFile, FromFile, Least
<1>4. IInv'
  BY <1>1 DEF IInv, Sound
<1> QED
  BY <1>1, <1>2, <1>3, <1>4 DEF Right, Streams, Stream!svars

(***************************************************************************)
(* The window stays where the descriptor and the client can rely on it,    *)
(* and a closed archive has none, whatever the calls and their order.      *)
(***************************************************************************)
THEOREM ReadInvariance ==
  ASSUME SizesAssumption
  PROVE  Spec => []IInv
<1>1. Init => IInv
  BY InitRight
<1>2. IInv /\ [Next]_vars => IInv'
  BY NextRight, StutterRight DEF Right
<1> QED
  BY <1>1, <1>2, PTL DEF Spec

(***************************************************************************)
(* Whatever the client calls, it reads the file: each call delivers what   *)
(* lies at the position tell() reports, and moves it by that much; only    *)
(* the bytes, never their number, may be wrong once a block came up short, *)
(* or in a pointer where memcpy spoils what it moves.                      *)
(***************************************************************************)
THEOREM ReadRefinement ==
  ASSUME SizesAssumption
  PROVE  Spec => ImplementsReadStream
<1>1. Init => Stream!Init
  BY InitRight
<1>2. IInv /\ [Next]_vars => [Stream!Next]_(Stream!svars)
  BY NextRight, StutterRight DEF Right, Streams
<1>3. Spec => []IInv
  BY ReadInvariance
<1> QED
  BY <1>1, <1>2, <1>3, PTL DEF Spec, ImplementsReadStream, Stream!Spec
=============================================================================
