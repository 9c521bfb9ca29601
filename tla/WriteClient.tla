---------------------------- MODULE WriteClient ----------------------------
(***************************************************************************)
(* A client that puts the bytes 1, 2, 3, ... one after another into a      *)
(* WriteArchive, here and there after a seek or over earlier ones, and     *)
(* goes on after an exception with the bytes it has not put yet.  The      *)
(* numbers show what the file lost, got twice or got in a wrong place.     *)
(***************************************************************************)
EXTENDS Integers, WriteArchive

CONSTANTS
  MaxPut,    \* bound: the longest put
  MaxByte    \* bound: how many bytes are put

Increasing(s) == \A i, j \in 1..Len(s) : i < j => s[i] < s[j]

\* What a file already holds is numbered before the first byte put.
ASSUME WriteClientAssumption ==
  /\ WriteSizesAssumption
  /\ MaxPut \in Nat \ {0} /\ MaxByte \in Nat /\ Hole \in Int
  /\ OldContent \in Seq(Int) /\ Increasing(OldContent)
  /\ \A i \in 1..Len(OldContent) : OldContent[i] < 1

VARIABLES
  next,      \* the next byte to put
  replaced   \* history: bytes may have gone over earlier ones

vars == <<wvars, next, replaced>>

Run(a, n) == [i \in 1..n |-> a + i - 1]

Init == WInit /\ next = 1 /\ replaced = FALSE

Uses(n) == next + n - 1 <= MaxByte /\ next' = next + n

Next ==
  \/ \E n \in 0..MaxPut : Uses(n) /\ Put(Run(next, n)) /\ UNCHANGED replaced
  \/ Uses(1) /\ PutOne(next) /\ UNCHANGED replaced
  \/ \E offset \in 1..MaxSize, n \in 0..MaxPut :
       Uses(n) /\ Reput(offset, Run(next, n)) /\ replaced' = TRUE
  \/ \E p \in 0..MaxSize :
       Seek(p) /\ replaced' = (replaced \/ wmode = "write") /\ UNCHANGED next
  \/ /\ Flush \/ SeekEnd \/ Close \/ Destroy \/ \E m \in WriteModes : Open(m)
     /\ UNCHANGED <<next, replaced>>

Spec == Init /\ [][Next]_vars
-----------------------------------------------------------------------------
\* Without short writes, the file with the buffer laid over it at the
\* descriptor's position is what unbuffered writes would have made of it,
\* through every put, reput, seek and flush, and tell() is their position.
Stream == INSTANCE WriteStream WITH
  content <- Overlay(wr.file, wr.hp, wr.buf), pos <- Tell(wr),
  intact <- wr.faults = 0 /\ wmode = "write"
ImplementsWriteStream == Stream!Spec

\* As long as no put has thrown, no byte reaches the file twice or out of
\* order, whatever was lost on the way: a flush that throws forgets the bytes
\* it was writing rather than write the first of them again.
InOrderOnce == ~thrown /\ ~replaced => Increasing(wr.file \o wr.buf)

=============================================================================
