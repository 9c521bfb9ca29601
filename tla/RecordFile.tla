----------------------------- MODULE RecordFile -----------------------------
(***************************************************************************)
(* stdext/archive/Record.h: RecordWriter over a WriteArchive.  A record is *)
(* begun with a header that says recIdEOF and no data, and ended by going  *)
(* back to put the right header; RecordReader walks the headers.  A header *)
(* is two cells, the id and the length, and a cell of data one.            *)
(***************************************************************************)
EXTENDS WriteArchive

CONSTANTS
  RecId,      \* the ids records may have
  Datum,      \* the cells of data
  MaxData     \* bound: the longest record

\* Ids, lengths and data are numbers.  No write comes up short: what is left of
\* a record whose header or data was cut is not modelled.
RecordAssumption ==
  /\ 0 \notin RecId /\ RecId \cup Datum \cup {0} \cup 0..MaxSize \subseteq Byte
  /\ Byte \subseteq Nat
  /\ MaxShort = 0

VARIABLES
  recId,      \* m_recId: the id of the open record, or recIdEOF
  offset,     \* m_offset: where its data begins
  records,    \* history: the records ended
  data        \* history: the data of the open record

rvars == <<wvars, recId, offset, records, data>>

recIdEOF == 0
Header(id, n) == <<id, n>>
HeaderSize == 2

RInit ==
  /\ WInit /\ throws
  /\ recId = recIdEOF /\ offset = 0
  /\ records = << >> /\ data = << >>

BeginRecordWithId(id) ==
  /\ recId = recIdEOF
  /\ FitsFile(HeaderSize)
  /\ Ends(PutBytes(wr, Header(id, 0)), TRUE)
  /\ recId' = id /\ offset' = Tell(wr')
  /\ data' = << >>
  /\ UNCHANGED records

BeginRecord(id) ==
  /\ recId = recIdEOF
  /\ FitsFile(HeaderSize)
  /\ Ends(PutBytes(wr, Header(recIdEOF, 0)), TRUE)
  /\ recId' = id /\ offset' = Tell(wr')
  /\ data' = << >>
  /\ UNCHANGED records

PutData(s) ==
  /\ recId # recIdEOF
  /\ Len(data) + Len(s) <= MaxData /\ FitsFile(Len(s))
  /\ Ends(PutBytes(wr, s), TRUE)
  /\ data' = data \o s
  /\ UNCHANGED <<recId, offset, records>>

EndRecord ==
  LET cbData == Tell(wr) - offset IN
  /\ recId # recIdEOF
  /\ Ends(ReputBytes(wr, cbData + HeaderSize, Header(recId, cbData)), TRUE)
  /\ recId' = recIdEOF
  /\ records' = Append(records, [id |-> recId, data |-> data])
  /\ UNCHANGED <<offset, data>>

RFlush == Flush /\ UNCHANGED <<recId, offset, records, data>>

RNext ==
  \/ \E id \in RecId : BeginRecord(id)
  \/ \E n \in 1..MaxData : \E s \in [1..n -> Datum] : PutData(s)
  \/ EndRecord
  \/ RFlush

RSpec == RInit /\ [][RNext]_rvars
-----------------------------------------------------------------------------
\* next_record until it meets the end, recIdEOF or data that is cut short.
RecordsIn(c) ==
  LET from[p \in 0..Len(c)] ==
        IF p + HeaderSize > Len(c) THEN << >>
        ELSE LET id == c[p + 1]
                 cbData == c[p + 2]
                 begin == p + HeaderSize
             IN IF id = recIdEOF \/ begin + cbData > Len(c) THEN << >>
                ELSE <<[id |-> id, data |-> SubSeq(c, begin + 1, begin + cbData)]>>
                       \o from[begin + cbData]
  IN from[0]

\* What a reader finds once the buffer is written: the records ended, with
\* their ids and data, and nothing of the one that is open.
RoundTrip == RecordsIn(Overlay(wr.file, wr.hp, wr.buf)) = records

\* What a reader finds in the file after a crash that lost the buffer: the
\* first of the records ended, whole.
CrashLeavesPrefix == IsPrefix(RecordsIn(wr.file), records)
=============================================================================
