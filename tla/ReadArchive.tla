---------------------------- MODULE ReadArchive ----------------------------
(***************************************************************************)
(* stdext/archive/ReadArchive.h over the descriptor of Posix.h: a window   *)
(* of the file is buffered, the descriptor stands at the window's end and  *)
(* the client somewhere inside it.  An archive is a record of              *)
(*   hp    the descriptor's position,                                      *)
(*   buf   the bytes from m_lpBufStart up to m_lpBufMax,                   *)
(*   cur   m_lpBufCur - m_lpBufStart,                                      *)
(*   size  m_nBufSize;                                                     *)
(* the byte of the file at offset o is the number o.  The client stays     *)
(* within the file and asks for at most MaxAsk bytes.                      *)
(***************************************************************************)
EXTENDS Naturals, Sequences

CONSTANTS
  FileSize,       \* the file's length
  BufSize,        \* cacheSize
  RoundSize,      \* roundSize
  MaxAsk          \* bound: the largest request

SizesAssumption ==
  /\ FileSize \in Nat /\ MaxAsk \in Nat
  /\ BufSize \in Nat /\ BufSize >= 4 /\ RoundSize \in Nat \ {0}

VARIABLES
  ar,     \* the archive
  got,    \* the bytes the last call delivered; none for NULL and endch
  good,   \* the handle is open
  memcpyForward   \* whether the build's memcpy gets an overlapping move down right

vars == <<ar, got, good, memcpyForward>>

Least(m, n) == IF m < n THEN m ELSE n
RoundUp(n) == ((n + RoundSize - 1) \div RoundSize) * RoundSize

\* ::read(fd, ..., n) at position p.
FromFile(p, n) == [i \in 1..Least(n, FileSize - p) |-> p + i - 1]
Junk == FileSize

Rest(a) == Len(a.buf) - a.cur
Tell(a) == a.hp - Rest(a)
Ahead(a, n) == SubSeq(a.buf, a.cur + 1, a.cur + n)
ClearCache(a) == [a EXCEPT !.buf = << >>, !.cur = 0]

Init ==
  /\ ar = [hp |-> 0, buf |-> << >>, cur |-> 0, size |-> BufSize]
  /\ got = << >>
  /\ good = TRUE
  /\ memcpyForward \in BOOLEAN
-----------------------------------------------------------------------------
(* Positioning. *)
SeekInWindow(a, o) == [a EXCEPT !.cur = Len(a.buf) - (a.hp - o)]
SeekAlways(a, o) == [ClearCache(a) EXCEPT !.hp = o]

SeekTo(a, o) ==
  IF o <= a.hp /\ a.hp - o <= Len(a.buf) THEN SeekInWindow(a, o) ELSE SeekAlways(a, o)

SkipForgetsRest(a, n) ==
  IF n <= Rest(a) THEN [a EXCEPT !.cur = @ + n] ELSE [ClearCache(a) EXCEPT !.hp = @ + n]

SkipBytes(a, n) ==
  IF n <= Rest(a)
    THEN [a EXCEPT !.cur = @ + n]
    ELSE [ClearCache(a) EXCEPT !.hp = @ + n - Rest(a)]
-----------------------------------------------------------------------------
(* do_get_: what is buffered, then whole blocks straight from the file,    *)
(* then one buffer for what is left.  A short block returns at once and    *)
(* leaves the old bytes in the window.                                     *)
GetBlocks(a, n) ==
  LET left == n - Rest(a)
      whole == left - (left % a.size)
      direct == FromFile(a.hp, whole)
      last == FromFile(a.hp + whole, a.size)
      k == Least(left % a.size, Len(last))
  IN IF Len(direct) < whole
       THEN [ar |-> [a EXCEPT !.hp = @ + Len(direct), !.cur = Len(a.buf)],
             out |-> Ahead(a, Rest(a)) \o direct]
       ELSE [ar |-> [a EXCEPT !.hp = @ + whole + Len(last), !.buf = last, !.cur = k],
             out |-> Ahead(a, Rest(a)) \o direct \o SubSeq(last, 1, k)]

GetInto(a, n) ==
  IF n <= Rest(a)
    THEN [ar |-> [a EXCEPT !.cur = @ + n], out |-> Ahead(a, n)]
    ELSE GetBlocks(a, n)

PeekOne(a) ==
  IF Rest(a) > 0
    THEN [ar |-> a, out |-> Ahead(a, 1)]
    ELSE LET r == GetInto(a, 1) IN
         IF r.out = << >> THEN r ELSE [r EXCEPT !.ar.cur = @ - 1]

RegetBytes(a, offset, n) ==
  IF offset <= a.cur
    THEN [ar |-> a, out |-> SubSeq(a.buf, a.cur - offset + 1, a.cur - offset + n)]
    ELSE LET r == GetInto(SeekTo(a, Tell(a) - offset), n) IN
         [r EXCEPT !.ar = SeekTo(r.ar, Tell(a))]

\* Steps back a byte; at the window's start it reads a quarter before.
UngetByte(a) ==
  IF a.cur > 0 THEN [a EXCEPT !.cur = @ - 1]
  ELSE LET back == Least(a.size \div 4, Tell(a))
           refill == FromFile(Tell(a) - back, a.size)
       IN [a EXCEPT !.hp = Tell(a) - back + Len(refill), !.buf = refill,
                    !.cur = IF back = 0 THEN 0 ELSE back - 1]
-----------------------------------------------------------------------------
(* do_peek_: the bytes ahead are moved to the front of the buffer, or into *)
(* a larger one, and the rest of the buffer is filled.  The move within    *)
(* the buffer is a memcpy; when its ranges overlap it may spoil the bytes. *)
Overlapping(a) == a.cur > 0 /\ Rest(a) > a.cur

MovedDown(a, n) ==
  {Ahead(a, Rest(a))} \cup
    IF n <= a.size /\ Overlapping(a) /\ ~memcpyForward
      THEN {[i \in 1..Rest(a) |-> Junk]} ELSE {}

FillAfterPeek(a, n) ==
  LET size == IF n > a.size THEN RoundUp(n) ELSE a.size
      more == FromFile(a.hp, size - Rest(a))
  IN {[hp |-> a.hp + Len(more), buf |-> moved \o more, cur |-> 0, size |-> size] :
        moved \in MovedDown(a, n)}

PeekPointer(a, n) == IF n <= Rest(a) THEN {a} ELSE FillAfterPeek(a, n)
-----------------------------------------------------------------------------
(* The operations of a client. *)
Returns(r) ==
  /\ good
  /\ ar' = r.ar /\ got' = r.out
  /\ UNCHANGED <<good, memcpyForward>>

Moves(a) == Returns([ar |-> a, out |-> << >>])

Get(n) == Returns(GetInto(ar, n))
PeekChar == Returns(PeekOne(ar))
Seek(o) == Moves(SeekTo(ar, o))
SeekEnd == Moves(SeekAlways(ar, FileSize))
Skip(n) == Tell(ar) + n <= FileSize /\ Moves(SkipBytes(ar, n))
Unget == Moves(UngetByte(ar))
Reget(offset, n) ==
  /\ n <= offset /\ offset <= Tell(ar)
  /\ Returns(RegetBytes(ar, offset, n))

Peek(n) ==
  \E a \in PeekPointer(ar, n) :
    Returns([ar |-> a, out |-> IF n <= Rest(a) THEN Ahead(a, n) ELSE << >>])

GetPointer(n) ==
  \E a \in PeekPointer(ar, n) :
    IF n <= Rest(a)
      THEN Returns([ar |-> [a EXCEPT !.cur = @ + n], out |-> Ahead(a, n)])
      ELSE Moves(a)

\* close and detach drop the window; what was read ahead of the client is
\* lost to whoever goes on with a detached descriptor.
Close ==
  /\ good
  /\ good' = FALSE
  /\ ar' = ClearCache(ar)
  /\ got' = << >>
  /\ UNCHANGED memcpyForward

\* open refuses an archive that is open; it does not touch the window.
Open ==
  /\ ~good
  /\ good' = TRUE
  /\ ar' = [ar EXCEPT !.hp = 0]
  /\ got' = << >>
  /\ UNCHANGED memcpyForward

\* attach takes a descriptor that stands wherever its owner left it.
Attach(p) ==
  /\ good' = TRUE
  /\ ar' = [ClearCache(ar) EXCEPT !.hp = p]
  /\ got' = << >>
  /\ UNCHANGED memcpyForward

Next ==
  \/ \E n \in 0..MaxAsk : Get(n) \/ GetPointer(n) \/ Peek(n) \/ Skip(n)
  \/ \E o \in 0..FileSize : Seek(o) \/ Attach(o)
  \/ \E offset, n \in 0..MaxAsk : Reget(offset, n)
  \/ PeekChar \/ Unget \/ SeekEnd
  \/ Open \/ Close

Spec == Init /\ [][Next]_vars
-----------------------------------------------------------------------------
\* The window is the part of the file that ends where the descriptor stands,
\* as seek's comment has it: "position --- m_lpBufMax".
WindowMirrorsFile ==
  /\ Len(ar.buf) <= ar.hp
  /\ ar.buf = FromFile(ar.hp - Len(ar.buf), Len(ar.buf))

\* The same where memcpy does not spoil it: what is left is the window that
\* a block which came up short leaves behind.
PositionAtWindowEnd == memcpyForward => WindowMirrorsFile

\* Every call delivers what the file holds at the position tell() reports and
\* moves by what it delivered, as long as no block came up short; after one
\* did, positions and counts still hold, the bytes behind the client may not.
\* With a memcpy that spoils overlapping moves only the calls that return
\* pointers into the buffer deliver wrong bytes.
Stream == INSTANCE ReadStream WITH
  pos <- Tell(ar), trusted <- WindowMirrorsFile, pointersExact <- memcpyForward
ImplementsReadStream == Stream!Spec
=============================================================================
