----------------------------- MODULE ReadStream -----------------------------
(***************************************************************************)
(* What reading a file through a buffer must look like to its client: the  *)
(* bytes come in file order from the position tell() reports, and a call   *)
(* that gets fewer than it asked for has met the end.  The byte at offset  *)
(* o of the file is the number o, so a wrong byte shows.                   *)
(***************************************************************************)
EXTENDS Naturals, Sequences

CONSTANTS
  FileSize,       \* the file's length
  MaxAsk          \* bound: the largest request

VARIABLES
  pos,       \* where the client is
  got,       \* the bytes the last call delivered
  trusted,   \* FALSE: the bytes behind the client may be wrong ones
  good,      \* a file is open
  pointersExact   \* whether a returned pointer always shows the file's bytes

svars == <<pos, got, trusted, good, pointersExact>>

FileByte == 0..FileSize        \* FileSize itself: no byte of the file
Least(m, n) == IF m < n THEN m ELSE n
Bytes(p, n) == [i \in 1..Least(n, FileSize - p) |-> p + i - 1]

\* n bytes from p on, which are the file's if they can be relied on.
Deliver(p, n, exact) ==
  IF exact THEN got' = Bytes(p, n) ELSE got' \in [1..Least(n, FileSize - p) -> FileByte]

Move(p, delivered) ==
  /\ pos' = p
  /\ trusted' \in BOOLEAN
  /\ UNCHANGED <<good, pointersExact>>
  /\ IF delivered THEN TRUE ELSE got' = << >>

Init ==
  /\ pos = 0 /\ got = << >> /\ trusted = TRUE /\ good = TRUE
  /\ pointersExact \in BOOLEAN

\* A read that gets all it asked for leaves what is behind it trustworthy.
Fetch(n) ==
  /\ Deliver(pos, n, trusted)
  /\ Move(pos + Len(got'), TRUE)
  /\ trusted /\ Len(got') = n => trusted'

FetchPointer(n, forward) ==
  LET enough == pos + n <= FileSize IN
  /\ IF enough THEN Deliver(pos, n, trusted /\ pointersExact) ELSE got' = << >>
  /\ Move(IF enough /\ forward THEN pos + n ELSE pos, TRUE)
  /\ trusted /\ pointersExact => trusted'

PeekChar ==
  /\ Deliver(pos, 1, trusted)
  /\ Move(pos, TRUE)
  /\ trusted => trusted'

SeekTo(p) ==
  /\ Move(p, FALSE)
  /\ trusted => trusted'

Refetch(offset, n) ==
  /\ n <= offset /\ offset <= pos
  /\ Deliver(pos - offset, n, trusted)
  /\ Move(pos, TRUE)
  /\ trusted => trusted'

Unfetch ==
  /\ Move(IF pos = 0 THEN 0 ELSE pos - 1, FALSE)
  /\ trusted => trusted'

Opened(p) ==
  /\ pos' = p /\ good' = TRUE /\ trusted' = TRUE /\ got' = << >>
  /\ UNCHANGED pointersExact

Closed ==
  /\ good' = FALSE /\ trusted' = TRUE /\ got' = << >>
  /\ UNCHANGED pointersExact
  /\ pos' \in 0..FileSize

Next ==
  \/ /\ good
     /\ \/ \E n \in 0..MaxAsk : Fetch(n)
        \/ \E n \in 0..MaxAsk, forward \in BOOLEAN : FetchPointer(n, forward)
        \/ PeekChar
        \/ \E p \in 0..FileSize : SeekTo(p)
        \/ \E offset, n \in 0..MaxAsk : Refetch(offset, n)
        \/ Unfetch
        \/ Closed
  \/ \E p \in 0..FileSize : Opened(p)

Spec == Init /\ [][Next]_svars
=============================================================================
