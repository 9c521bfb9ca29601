------------------------------- MODULE MCFiles -------------------------------
(***************************************************************************)
(* What reads and writes files, one at a time: what is not the client's    *)
(* stays as it began.                                                      *)
(*   reader: a buffer of four bytes over a file of nine: requests of       *)
(*     nothing, of a part, of exactly a buffer, of two and a bit, and past *)
(*     the end; a peek that makes the buffer grow, and one that moves      *)
(*     overlapping ranges.                                                 *)
(*   writer: a buffer of two bytes, files of up to five, five bytes put at *)
(*     most four at a time: puts that fit, that fill the buffer exactly,   *)
(*     that pass through it and leave a tail; a write that comes up short  *)
(*     in a flush, in the first and in the second write of a put, in a     *)
(*     reput, in close.  The numbers of the bytes a file already held come *)
(*     before 1.                                                           *)
(*   mapper: a file of up to two pages of two bytes that grows, one of up  *)
(*     to three that is read, requests across the page boundary, one       *)
(*     failing call of the operating system anywhere, and memory for three *)
(*     pages, so that a view of two leaves none for one of the others.     *)
(***************************************************************************)
EXTENDS MapBuffers, WriteClient

VARIABLES
  client,    \* "reader", "writer" or "mapper"
  ar, got, rgood, memcpyForward

readerVars == <<ar, got, rgood, memcpyForward>>

A == INSTANCE ReadArchive WITH
       FileSize <- 9, BufSize <- 4, RoundSize <- 4, MaxAsk <- 9, good <- rgood

\* What the writer puts, and what a file it appends to held.
MCByte == 1..5
Old == <<-2, -1, 0>>
\* A failure is NULL where the code tests for it most, in a file that grows.
MapModes == {[readOnly |-> FALSE, align |-> 1, failed |-> 0]}
              \cup [readOnly : {TRUE}, align : {1}, failed : {0, -1}]

NoFile == [size |-> 0, total |-> 0, mem |-> << >>, failed |-> 0, faults |-> 0, lost |-> {}]

ASSUME MCFilesAssumption == A!SizesAssumption

MCInit ==
  /\ client \in {"reader", "writer", "mapper"}
  /\ client = "reader" \/ memcpyForward = TRUE
  /\ client = "mapper" \/ (mode = [readOnly |-> FALSE, align |-> 1, failed |-> 0] /\ fm = NoFile)
  /\ A!Init /\ Init /\ MInit
  /\ client = "writer" \/ wmode = "append"

MCNext ==
  /\ UNCHANGED client
  /\ \/ client = "reader" /\ A!Next /\ UNCHANGED <<vars, mvars>>
     \/ client = "writer" /\ Next /\ UNCHANGED <<readerVars, mvars>>
     \/ client = "mapper" /\ MNext /\ UNCHANGED <<readerVars, vars>>

mcvars == <<client, readerVars, vars, mvars>>
MCSpec == MCInit /\ [][MCNext]_mcvars

(* The writer's and the mapper's properties are those of WriteClient and   *)
(* MapBuffers, and those of the others hold of a client at rest, too; what *)
(* the reader may do is only looked at when it is at work.                 *)

\* ReadArchive: every call delivers what the file holds where tell() says.
ImplementsReadStream == A!Stream!Init /\ [][client = "reader" => [A!Stream!Next]_(A!Stream!svars)]_mcvars
=============================================================================
