---------------------------- MODULE WriteArchive ----------------------------
(***************************************************************************)
(* stdext/archive/WriteArchive.h over a descriptor (Posix.h) or a stream   *)
(* that throws (Stream.h).  An archive is a record of                      *)
(*   file    what is on the disk,                                          *)
(*   hp      the descriptor's position,                                    *)
(*   buf     the bytes from m_lpBufStart to m_lpBufCur,                    *)
(*   faults  how many writes have come up short so far.                    *)
(* A write that comes up short keeps a prefix; a stream throws then, and a *)
(* descriptor returns the count, which the archive does not look at.       *)
(* Every call returns a set of outcomes, [w, ok]: the archive afterwards   *)
(* and whether the call returned (FALSE: it threw).                        *)
(***************************************************************************)
EXTENDS Naturals, Sequences, SequencesExt

CONSTANTS
  BufSize,     \* cacheSize
  Byte,        \* what is written
  Hole,        \* what a gap reads as
  OldContent,  \* the file open_to_append finds
  WriteModes,  \* how files are opened: a set of "write" and "append"
  MaxShort,    \* bound: writes that come up short
  MaxSize      \* bound: the largest file

WriteSizesAssumption ==
  /\ BufSize \in Nat \ {0} /\ MaxShort \in Nat /\ MaxSize \in Nat
  /\ WriteModes \subseteq {"write", "append"} /\ WriteModes # {}

VARIABLES
  wr,       \* the archive
  wmode,    \* how the file was opened
  good,     \* the handle is open
  throws,   \* whether the handle throws when a write comes up short
  thrown    \* history: a put has thrown

wvars == <<wr, wmode, good, throws, thrown>>

Fresh(m) == [file |-> IF m = "append" THEN OldContent ELSE << >>,
             hp |-> 0, buf |-> << >>, faults |-> 0]

\* Only descriptors are opened to append, and they do not throw.
CanOpen(m) == m = "append" => ~throws

WInit ==
  /\ wmode \in WriteModes
  /\ wr = Fresh(wmode)
  /\ good = TRUE /\ thrown = FALSE
  /\ throws \in BOOLEAN /\ CanOpen(wmode)

Tell(w) == w.hp + Len(w.buf)

Overlay(f, p, s) ==
  IF s = << >> THEN f
  ELSE [i \in 1..(IF p + Len(s) > Len(f) THEN p + Len(s) ELSE Len(f)) |->
          IF i \in (p + 1)..(p + Len(s)) THEN s[i - p]
          ELSE IF i <= Len(f) THEN f[i] ELSE Hole]
-----------------------------------------------------------------------------
Done(w) == [w |-> w, ok |-> TRUE]
Thrown(w) == [w |-> w, ok |-> FALSE]

\* The outcomes of doing After where a call returned; an exception passes.
AndThen(outcomes, After(_)) ==
  UNION {IF r.ok THEN After(r.w) ELSE {r} : r \in outcomes}

\* ::write with O_APPEND goes to the end of the file, wherever a seek went.
Written(w, s) ==
  LET at == IF wmode = "append" THEN Len(w.file) ELSE w.hp
  IN [w EXCEPT !.file = Overlay(@, at, s), !.hp = at + Len(s)]

ShortlyWritten(w, s, k) ==
  LET part == [Written(w, SubSeq(s, 1, k)) EXCEPT !.faults = @ + 1]
  IN IF throws THEN Thrown(part) ELSE Done(part)

HandlePut(w, s) ==
  {Done(Written(w, s))} \cup
    {ShortlyWritten(w, s, k) : k \in IF w.faults < MaxShort THEN 0..(Len(s) - 1) ELSE {}}

\* The cursor goes back before the write, so that a write that throws is not
\* repeated by the next call or the destructor.
ClearCacheAfterWrite(w) ==
  IF w.buf = << >> THEN {Done(w)}
  ELSE AndThen(HandlePut(w, w.buf), LAMBDA v : {Done([v EXCEPT !.buf = << >>])})

ClearCache(w) ==
  IF w.buf = << >> THEN {Done(w)} ELSE HandlePut([w EXCEPT !.buf = << >>], w.buf)

SeekTo(w, p) == AndThen(ClearCache(w), LAMBDA v : {Done([v EXCEPT !.hp = p])})
SeekToEnd(w) == AndThen(ClearCache(w), LAMBDA v : {Done([v EXCEPT !.hp = Len(v.file)])})

\* put: fill the buffer and write it, write whole buffers of the rest
\* directly, keep what remains.  The cursor moves only at the end.
PutThrough(w, s) ==
  LET unused == BufSize - Len(w.buf)
      rest == Len(s) - unused
      whole == rest - (rest % BufSize)
      filled == w.buf \o SubSeq(s, 1, unused)
      direct == SubSeq(s, unused + 1, unused + whole)
      kept == SubSeq(s, unused + whole + 1, Len(s))
  IN AndThen(HandlePut(w, filled),
       LAMBDA v : AndThen(IF whole = 0 THEN {Done(v)} ELSE HandlePut(v, direct),
         LAMBDA u : {Done([u EXCEPT !.buf = kept])}))

PutBytes(w, s) ==
  IF Len(s) <= BufSize - Len(w.buf)
    THEN {Done([w EXCEPT !.buf = @ \o s])}
    ELSE PutThrough(w, s)

PutChar(w, b) ==
  IF Len(w.buf) < BufSize
    THEN {Done([w EXCEPT !.buf = Append(@, b)])}
    ELSE AndThen(HandlePut(w, w.buf), LAMBDA v : {Done([v EXCEPT !.buf = <<b>>])})

\* reput: in the buffer if the bytes are still there, else there and back.
ReputBytesStays(w, offset, s) ==
  IF offset <= Len(w.buf)
    THEN {Done([w EXCEPT !.buf = Overlay(@, Len(@) - offset, s)])}
    ELSE AndThen(SeekTo(w, Tell(w) - offset), LAMBDA v : PutBytes(v, s))

ReputBytes(w, offset, s) ==
  IF offset <= Len(w.buf)
    THEN {Done([w EXCEPT !.buf = Overlay(@, Len(@) - offset, s)])}
    ELSE AndThen(SeekTo(w, Tell(w) - offset),
           LAMBDA v : AndThen(PutBytes(v, s), LAMBDA u : SeekTo(u, Tell(w))))
-----------------------------------------------------------------------------
(* The operations of a client.  put is the one whose exception leaves the  *)
(* bytes it has written in the buffer. *)
Ends(outcomes, isPut) ==
  /\ good
  /\ \E r \in outcomes :
       /\ wr' = r.w
       /\ thrown' = (thrown \/ (isPut /\ ~r.ok))
  /\ UNCHANGED <<wmode, good, throws>>

\* Bounds on the file, which in append mode grows with every write.
FitsFile(n) == Tell(wr) + n <= MaxSize
Grows(n) == wmode = "append" => Len(wr.file) + Len(wr.buf) + n <= MaxSize + Len(OldContent)

Put(s) == FitsFile(Len(s)) /\ Grows(Len(s)) /\ Ends(PutBytes(wr, s), TRUE)
PutOne(b) == FitsFile(1) /\ Grows(1) /\ Ends(PutChar(wr, b), TRUE)
Flush == Ends(ClearCache(wr), FALSE)
Seek(p) == Ends(SeekTo(wr, p), FALSE)
SeekEnd == Ends(SeekToEnd(wr), FALSE)

Reput(offset, s) ==
  /\ offset > 0 /\ Len(s) <= offset /\ offset <= Tell(wr)
  /\ Grows(Len(s))
  /\ Ends(ReputBytes(wr, offset, s), TRUE)

\* close writes what is buffered; if that throws the handle stays open.
Close ==
  /\ good
  /\ \E r \in ClearCache(wr) : wr' = r.w /\ good' = ~r.ok
  /\ UNCHANGED <<wmode, throws, thrown>>

OpenTruncates(m) ==
  /\ ~good /\ CanOpen(m)
  /\ good' = TRUE /\ wmode' = m
  /\ wr' = [wr EXCEPT !.hp = 0, !.file = << >>]
  /\ UNCHANGED <<throws, thrown>>

\* The destructor writes what is buffered and lets an exception out; the
\* buffer is gone either way, and the handle closes.
Destroy ==
  /\ good
  /\ \E r \in ClearCache(wr) : wr' = [r.w EXCEPT !.buf = << >>]
  /\ good' = FALSE
  /\ UNCHANGED <<wmode, throws, thrown>>

\* Opening the file again truncates it, or goes on at its end.
Open(m) ==
  /\ ~good /\ CanOpen(m)
  /\ good' = TRUE /\ wmode' = m
  /\ wr' = [wr EXCEPT !.hp = 0, !.file = IF m = "append" THEN @ ELSE << >>]
  /\ UNCHANGED <<throws, thrown>>

-----------------------------------------------------------------------------
\* A file opened to append keeps what it held, even across the seeks and
\* reputs that on another file would write over it.
AppendKeepsContent == [][wmode' = "append" => IsPrefix(wr.file, wr'.file)]_wvars
=============================================================================
