----------------------------- MODULE MapBuffers -----------------------------
(***************************************************************************)
(* stdext/mmap/AccessBuffer.h: three clients of one mapped file, each of   *)
(* which keeps one view of it and answers requests from that as long as    *)
(* they fall into it:                                                      *)
(*   acc   an AccessBuffer, the view being the pages last asked for,       *)
(*   seg   a SegmentAccessBuffer, one segment of mode.align pages,         *)
(*   alc   a SegmentAllocBuffer, which hands out the file's bytes.         *)
(* They reach the file through a HandleProxy each: each closes for itself. *)
(* Addresses of bytes are PageSize times a page's address, plus an offset. *)
(***************************************************************************)
EXTENDS MapFile

CONSTANTS
  Modes,      \* how the file may be opened, pages in a segment, and map's failure
  PageSize,   \* AllocationGranularity, in bytes
  MaxPages,   \* bound: pages of a file that is read
  MaxGrown,   \* bound: pages of a file that is written
  MaxAsk      \* bound: bytes of a request

ASSUME MapBuffersAssumption ==
  /\ Modes \subseteq [readOnly : BOOLEAN, align : Nat \ {0}, failed : {Null, MapFailed}]
  /\ PageSize \in Nat \ {0} /\ {MaxPages, MaxGrown} \subseteq Nat /\ MaxAsk \in Nat

VARIABLES
  mode,      \* ReadOnly, SegmentSize in pages, and what a failing map returns
  fm,        \* the mapped file
  acc,       \* m_pView, m_nBasePage and m_nNextPage
  seg,       \* m_pView and m_iSeg
  alc,       \* m_pView, m_iBasePage and m_cbFree
  saved,     \* the SegmentAllocInfo the client took before it closed alc
  misled,    \* history: a buffer answered with an address of something else
  handed,    \* history: the bytes of the file that alc handed out
  twice      \* history: one was handed out that had been before

mvars == <<mode, fm, acc, seg, alc, saved, misled, handed, twice>>

\* One way to open it: to be read by segments of two pages.
ReadModes == [readOnly : {TRUE}, align : {2}, failed : {MapFailed}]

SegmentSize == mode.align * PageSize
LongMax == MaxPages + MaxGrown + 1
NoSeg == -1
NoView == [view |-> Null, base |-> LongMax, next |-> 0]
NoSegment == [view |-> Null, seg |-> NoSeg]
NoBlock == [view |-> Null, base |-> 0, free |-> 0]

MInit ==
  /\ mode \in Modes
  /\ \E n \in 0..MaxPages :
       /\ ~mode.readOnly => n = 0
       /\ fm = [size |-> n, total |-> n, mem |-> << >>, failed |-> mode.failed, faults |-> 0, lost |-> {}]
  /\ acc = NoView /\ seg = NoSegment /\ alc = NoBlock
  /\ saved = NoBlock
  /\ misled = FALSE
  /\ handed = {} /\ twice = FALSE

Segments(f, base, n) ==
  IF mode.readOnly THEN ViewSegment(f, base, n) ELSE AccessSegment(f, base, n)

\* Mutant: a view of several pages is released as if it were of one.
UnmappedFirst(view, n) == IF view = Null THEN fm ELSE Unmap(fm, view, 1)

Unmapped(view, n) == IF view = Null THEN fm ELSE Unmap(fm, view, n)

\* At the address ptr there are the len bytes of the file from pos on.
Backed(f, ptr, pos, len) ==
  \A i \in 0..(len - 1) :
    LET page == (pos + i) \div PageSize
        a == (ptr + i) \div PageSize
    IN /\ a \in DOMAIN f.mem /\ f.mem[a] = page /\ page < f.size
       /\ (ptr + i) % PageSize = (pos + i) % PageSize

\* The bytes from pos on, answered from offset bytes into a view.  Nobody is
\* misled by a view that was not to be had, or if the mapping has lost count
\* of the file's length; that is said of them below.
Answer(view, offset, pos, len) ==
  misled' = (misled \/ (/\ view \in Addr /\ fm'.lost = {}
                       /\ ~Backed(fm', view * PageSize + offset, pos, len)))

\* A request for reading ends within the file, or begins behind it.
Asked(first, next) ==
  IF mode.readOnly THEN next <= fm.total \/ first >= fm.total ELSE next <= MaxGrown
-----------------------------------------------------------------------------
(* AccessBuffer *)
\* Mutant: only the first page of the request is looked for.
CoversFirst(first, next) == acc.next > first /\ acc.base <= first

Covers(first, next) == acc.next >= next /\ acc.base <= first

View(pos, len) ==
  LET first == pos \div PageSize
      next == (pos + len + PageSize - 1) \div PageSize
  IN
  /\ Asked(first, next)
  /\ IF Covers(first, next)
     THEN /\ UNCHANGED <<fm, acc>>
          /\ Answer(acc.view, pos - acc.base * PageSize, pos, len)
     ELSE \E m \in Segments(Unmapped(acc.view, acc.next - acc.base), first, next - first) :
            /\ fm' = m.fm
            /\ IF m.view = Null
               THEN acc' = [acc EXCEPT !.view = Null] /\ UNCHANGED misled
               ELSE /\ acc' = [view |-> m.view, base |-> first, next |-> next]
                    /\ Answer(m.view, pos - first * PageSize, pos, len)
  /\ UNCHANGED <<mode, seg, alc, saved, handed, twice>>

\* Without a view it keeps the range, also after a request that failed.
CloseAccess ==
  /\ acc.view # Null
  /\ fm' = Unmap(fm, acc.view, acc.next - acc.base)
  /\ acc' = NoView
  /\ UNCHANGED <<mode, seg, alc, saved, misled, handed, twice>>
-----------------------------------------------------------------------------
(* SegmentAccessBuffer: view(fc); viewSegment answers with offset zero *)
SegmentViewed(i, view) == IF view = Null THEN NoSegment ELSE [view |-> view, seg |-> i]

ViewInSegment(pos) ==
  LET i == pos \div SegmentSize
      base == i * mode.align
  IN
  /\ IF mode.readOnly THEN pos < fm.total * PageSize \/ base >= fm.total
                      ELSE base + mode.align <= MaxGrown
  /\ IF i = seg.seg
     THEN UNCHANGED <<fm, seg>> /\ Answer(seg.view, pos % SegmentSize, pos, 1)
     ELSE \E m \in Segments(Unmapped(seg.view, mode.align), base, mode.align) :
            /\ fm' = m.fm
            /\ seg' = SegmentViewed(i, m.view)
            /\ IF m.view = Null THEN UNCHANGED misled
               ELSE Answer(m.view, pos % SegmentSize, pos, 1)
  /\ UNCHANGED <<mode, acc, alc, saved, handed, twice>>

CloseSegment ==
  /\ seg.view # Null
  /\ fm' = Unmap(fm, seg.view, mode.align)
  /\ seg' = NoSegment
  /\ UNCHANGED <<mode, acc, alc, saved, misled, handed, twice>>
-----------------------------------------------------------------------------
(* SegmentAllocBuffer *)
HandOut(view, base, free, n) ==
  LET offset == SegmentSize - free
      pos == base * PageSize + offset
  IN /\ alc' = [view |-> view, base |-> base, free |-> free - n]
     /\ Answer(view, offset, pos, n)
     /\ handed' = handed \cup pos..(pos + n - 1)
     /\ twice' = (twice \/ handed \cap pos..(pos + n - 1) # {})

AllocData(n) ==
  /\ ~mode.readOnly /\ n <= SegmentSize
  /\ IF n <= alc.free
     THEN UNCHANGED fm /\ HandOut(alc.view, alc.base, alc.free, n)
     ELSE /\ fm.total + mode.align <= MaxGrown
          /\ \E m \in AllocSegment(Unmapped(alc.view, mode.align), mode.align) :
               /\ fm' = m.fm
               /\ IF m.view = Null
                  THEN /\ alc' = [view |-> Null, base |-> fm.total, free |-> 0]
                       /\ UNCHANGED <<misled, handed, twice>>
                  ELSE HandOut(m.view, fm.total, SegmentSize, n)
  /\ UNCHANGED <<mode, acc, seg, saved>>

\* initBuffer: anew at the file's start, or with what getAllocInfo said when
\* the buffer was closed.
InitBuffer(info) ==
  /\ ~mode.readOnly /\ alc.view = Null /\ alc.free = 0
  /\ info.base + mode.align <= MaxGrown
  /\ \E m \in AccessSegment(fm, info.base, mode.align) :
       /\ fm' = m.fm
       /\ IF m.view = Null THEN UNCHANGED <<alc, saved>>
          ELSE alc' = [info EXCEPT !.view = m.view] /\ saved' = NoBlock
  /\ UNCHANGED <<mode, acc, seg, misled, handed, twice>>

Begin == handed = {} /\ InitBuffer([NoBlock EXCEPT !.free = SegmentSize])
Resume == saved # NoBlock /\ InitBuffer(saved)

\* Mutant: a closed buffer goes on with the bytes it had left.
CloseAllocKeepsFree ==
  /\ alc.view # Null
  /\ fm' = Unmap(fm, alc.view, mode.align)
  /\ saved' = [alc EXCEPT !.view = Null]
  /\ alc' = [alc EXCEPT !.view = Null]
  /\ UNCHANGED <<mode, acc, seg, misled, handed, twice>>

\* getAllocInfo, then close.  A client that does not resume loses what is left.
CloseAlloc ==
  /\ alc.view # Null
  /\ fm' = Unmap(fm, alc.view, mode.align)
  /\ saved' = [alc EXCEPT !.view = Null]
  /\ alc' = [alc EXCEPT !.view = Null, !.free = 0]
  /\ UNCHANGED <<mode, acc, seg, misled, handed, twice>>
-----------------------------------------------------------------------------
(* The file itself, which its owner closes when no buffer has a view. *)
Reopen ==
  /\ acc.view = Null /\ seg.view = Null /\ alc.view = Null
  /\ \E n \in IF mode.readOnly THEN 0..MaxPages ELSE {0} : fm' = Opened(fm, n)
  /\ saved' = NoBlock
  /\ handed' = {} /\ twice' = FALSE
  /\ UNCHANGED <<mode, acc, seg, alc, misled>>

OpenAgain ==
  /\ \E n \in IF mode.readOnly THEN 0..MaxPages ELSE {0} : fm' = RefusedOpen(fm, n)
  /\ UNCHANGED <<mode, acc, seg, alc, saved, misled, handed, twice>>

MNext ==
  \/ \E pos \in 0..(MaxPages * PageSize - 1), len \in 1..MaxAsk : View(pos, len)
  \/ \E pos \in 0..(MaxPages * PageSize - 1) : ViewInSegment(pos)
  \/ \E n \in 1..MaxAsk : AllocData(n)
  \/ Begin \/ Resume
  \/ CloseAccess \/ CloseSegment \/ CloseAlloc
  \/ Reopen \/ OpenAgain

MSpec == MInit /\ [][MNext]_mvars
-----------------------------------------------------------------------------
\* Where an answer points there are the bytes it was asked for, and they stay
\* there until the buffer's next call: a view shows the file's pages within
\* its length, whatever the other buffers have mapped, released or grown
\* meanwhile.  Excepted are answers computed from a view that was not to be
\* had, and a file whose length the mapping has lost count of.
Shows(view, base, n) == view \in Addr => Backed(fm, view * PageSize, base * PageSize, n * PageSize)

AnswersBacked ==
  /\ ~misled
  /\ fm.lost = {} =>
       /\ Shows(acc.view, acc.base, acc.next - acc.base)
       /\ Shows(seg.view, seg.seg * mode.align, Least(mode.align, fm.size - seg.seg * mode.align))
       /\ Shows(alc.view, alc.base, mode.align)

\* The pages of memory that are mapped are those of the buffers' views, each
\* of one buffer: none stays mapped for nobody and none is released under the
\* buffer that uses it, after any call that failed or was refused.
Extent(view, n) == IF view \in Addr THEN view..(view + n - 1) ELSE {}

MappingsOwned ==
  LET views == <<Extent(acc.view, acc.next - acc.base), Extent(seg.view, mode.align),
                 Extent(alc.view, mode.align)>>
  IN /\ DOMAIN fm.mem = views[1] \cup views[2] \cup views[3]
     /\ \A i, j \in 1..3 : i # j => views[i] \cap views[j] = {}

\* No byte of the file is handed out twice, though its pages are mapped and
\* the file is grown by others, and the allocating buffer is closed and goes
\* on from what it saved.
HandedOutOnce == "open" \notin fm.lost => ~twice
=============================================================================
