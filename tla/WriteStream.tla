---------------------------- MODULE WriteStream ----------------------------
(***************************************************************************)
(* What writing a file through a buffer must look like: the bytes put land *)
(* at the position tell() reports, in order, over what was there; reput    *)
(* replaces bytes already put and leaves the position where it was.  The   *)
(* bytes are numbered in the order they are put.  Nothing is promised of a *)
(* file that a write came up short on.                                     *)
(***************************************************************************)
EXTENDS Naturals, Sequences

CONSTANTS
  Hole,      \* what a gap left by a seek past the end reads as
  MaxSize,   \* bound: the largest file
  MaxPut     \* bound: the longest put

VARIABLES
  content,   \* the file with everything put so far
  pos,       \* where the client is
  next,      \* the next byte
  intact     \* no write came up short

svars == <<content, pos, next, intact>>

Run(a, n) == [i \in 1..n |-> a + i - 1]

Overlay(f, p, s) ==
  IF s = << >> THEN f
  ELSE [i \in 1..(IF p + Len(s) > Len(f) THEN p + Len(s) ELSE Len(f)) |->
          IF i \in (p + 1)..(p + Len(s)) THEN s[i - p]
          ELSE IF i <= Len(f) THEN f[i] ELSE Hole]

Init ==
  /\ intact => content = << >> /\ pos = 0
  /\ next = 1

Put(n) ==
  /\ content' = Overlay(content, pos, Run(next, n))
  /\ pos' = pos + n
  /\ next' = next + n

Reput(offset, n) ==
  /\ n <= offset /\ offset <= pos
  /\ content' = Overlay(content, pos - offset, Run(next, n))
  /\ next' = next + n
  /\ UNCHANGED pos

Seek(p) == pos' = p /\ UNCHANGED <<content, next>>

\* A fresh file, as open_to_write makes it.
Truncate == content' = << >> /\ pos' = 0 /\ UNCHANGED next

Next ==
  \/ ~intact'
  \/ /\ UNCHANGED intact
     /\ \/ \E n \in 0..MaxPut : Put(n)
        \/ \E offset \in 1..MaxSize, n \in 0..MaxPut : Reput(offset, n)
        \/ \E p \in 0..MaxSize : Seek(p)
  \/ Truncate

Spec == Init /\ [][Next]_svars
=============================================================================
