--------------------------- MODULE MapBuffersProofs ---------------------------
(***************************************************************************)
(* Proofs about MapBuffers, for every size of a page, of a segment and of  *)
(* the memory, any number of failing calls and requests of any length.     *)
(*                                                                         *)
(* None of the three properties is inductive alone. That a buffer releases *)
(* its own pages and no others (MappingsOwned) needs the views to be apart *)
(* already; that an answer is backed needs every view to show the pages of *)
(* the file it was mapped for (PagesShown), all before the end of the      *)
(* file, which FileMapping has to know (LengthKnown) because it refuses    *)
(* what it believes to be beyond it; that no byte is handed out twice      *)
(* needs what is left of a segment to lie in the file behind nothing that  *)
(* was handed out, in the buffer at work and in the one a client kept      *)
(* (TailsFree). A failed resize spoils the second and an open that failed  *)
(* the third, so each holds until then.                                    *)
(***************************************************************************)
EXTENDS MapBuffers, TLAPS

(***************************************************************************)
(* The buffer of segments releases m.align pages, as many as it mapped     *)
(* unless the segment was the last of a file that is only read and came    *)
(* short. With segments of one page none does. With larger ones the        *)
(* release takes pages of other views with it: TLC shows it                *)
(* (MCMapSegments), and the theorems leave it out.                         *)
(***************************************************************************)
SegmentsWhole == \A m \in Modes : m.readOnly => m.align = 1

-----------------------------------------------------------------------------
\* The inductive invariant

Memory == UNION {[S -> Nat] : S \in SUBSET Addr}
ViewAddr == Addr \cup {Null, MapFailed}
File ==
  [size : Nat, total : Nat, mem : Memory, failed : {Null, MapFailed},
   faults : Nat, lost : SUBSET {"resize", "open"}]

BufferTypeOK(b) == b \in [view : ViewAddr, base : Nat, free : 0..SegmentSize]

MTypeOK ==
  /\ mode \in Modes
  /\ fm \in File
  /\ acc \in [view : ViewAddr, base : Nat, next : Nat]
  /\ seg \in [view : ViewAddr, seg : Nat \cup {NoSeg}]
  /\ BufferTypeOK(alc) /\ BufferTypeOK(saved)
  /\ handed \subseteq Nat
  /\ alc.view = Null => alc.free = 0
  /\ saved.view = Null

\* FileMapping knows the file's length unless the system refused to change it.
LengthKnown(f) == f.lost = {} => f.size = f.total

\* A view of n pages shows those of the file from base on, all within it.
Shown(f, view, base, n) ==
  view \in Addr => \A k \in 0..(n - 1) :
    view + k \in DOMAIN f.mem /\ f.mem[view + k] = base + k /\ base + k < f.size

PagesShown ==
  fm.lost = {} =>
    /\ Shown(fm, acc.view, acc.base, acc.next - acc.base)
    /\ seg.view \in Addr => seg.seg \in Nat
    /\ Shown(fm, seg.view, seg.seg * mode.align, mode.align)
    /\ Shown(fm, alc.view, alc.base, mode.align)

\* What a buffer has left to hand out lies in the file and in nothing that
\* was handed out, or that the other may hand out.
Tail(b) == (b.base * PageSize + (SegmentSize - b.free))..(b.base * PageSize + SegmentSize - 1)

TailInFile(b) == b.free > 0 => b.base + mode.align <= fm.total

TailsFree ==
  /\ ~twice
  /\ \A x \in handed : x < fm.total * PageSize
  /\ TailInFile(alc) /\ TailInFile(saved)
  /\ Tail(alc) \cap handed = {} /\ Tail(saved) \cap handed = {}
  /\ Tail(alc) \cap Tail(saved) = {}

Unhanded == "open" \notin fm.lost => TailsFree

IInv ==
  /\ MTypeOK
  /\ MappingsOwned
  /\ LengthKnown(fm)
  /\ PagesShown
  /\ ~misled
  /\ Unhanded

-----------------------------------------------------------------------------
\* Pages and bytes

(***************************************************************************)
(* What division yields, and that nothing else is a quotient and a         *)
(* remainder.                                                              *)
(***************************************************************************)
LEMMA DivFacts ==
  ASSUME NEW d \in Nat \ {0}, NEW x \in Int
  PROVE  /\ x \div d \in Int /\ x % d \in 0..(d - 1)
         /\ x = d * (x \div d) + (x % d)
OBVIOUS

\* A quotient and a remainder are those of the division.
LEMMA DivUnique ==
  ASSUME NEW d \in Nat \ {0}, NEW x \in Int,
         NEW q \in Int, NEW r \in 0..(d - 1), x = d * q + r
  PROVE  q = x \div d /\ r = x % d
BY DivFacts

(***************************************************************************)
(* Bytes that lie c pages apart have the same place in their pages.        *)
(***************************************************************************)
LEMMA PagesApart ==
  ASSUME NEW d \in Nat \ {0}, NEW x \in Int, NEW c \in Int
  PROVE  (x + c * d) \div d = x \div d + c /\ (x + c * d) % d = x % d
<1> DEFINE q == x \div d
           r == x % d
<1>1. q \in Int /\ r \in 0..(d - 1) /\ x = d * q + r
  BY DivFacts
<1> HIDE DEF q, r
<1>2. x + c * d = d * (q + c) + r
  BY <1>1
<1>3. q + c = (x + c * d) \div d /\ r = (x + c * d) % d
  BY <1>1, <1>2, DivUnique
<1> QED
  BY <1>3 DEF q, r

\* A larger number of pages is a larger number of bytes.
LEMMA PagesOrdered ==
  ASSUME NEW d \in Nat \ {0}, NEW p \in Int, NEW q \in Int
  PROVE  /\ p * d \in Int
         /\ p <= q => p * d <= q * d
         /\ p * d < q * d + d => p <= q
         /\ (p + q) * d = p * d + q * d
<1>1. ASSUME p <= q PROVE p * d <= q * d
  <2>1. (q - p) * d >= 0
    BY <1>1
  <2> QED
    BY <2>1
<1>2. ASSUME p * d < q * d + d, p > q PROVE FALSE
  <2>1. (p - q - 1) * d >= 0
    BY <1>2
  <2> QED
    BY <1>2, <2>1
<1> QED
  BY <1>1, <1>2

(***************************************************************************)
(* A view of pages answers for every byte in them.                         *)
(***************************************************************************)
LEMMA ShownBacked ==
  ASSUME NEW f, NEW view \in Addr, NEW base \in Nat, NEW n \in Nat,
         Shown(f, view, base, n),
         NEW pos \in Nat, NEW len \in Nat,
         base * PageSize <= pos, pos + len <= (base + n) * PageSize
  PROVE  Backed(f, view * PageSize + (pos - base * PageSize), pos, len)
<1> USE MapFileAssumption, MapBuffersAssumption
<1> SUFFICES ASSUME NEW i \in 0..(len - 1)
             PROVE  LET ptr == view * PageSize + (pos - base * PageSize)
                        page == (pos + i) \div PageSize
                        a == (ptr + i) \div PageSize
                    IN /\ a \in DOMAIN f.mem /\ f.mem[a] = page /\ page < f.size
                       /\ (ptr + i) % PageSize = (pos + i) % PageSize
  BY DEF Backed
<1> DEFINE ptr == view * PageSize + (pos - base * PageSize)
           page == (pos + i) \div PageSize
<1>1. PageSize \in Nat \ {0} /\ view \in Int /\ pos + i \in Int
  BY DEF Addr
<1>2. ptr + i = (pos + i) + (view - base) * PageSize
  BY <1>1
<1>3. /\ (ptr + i) \div PageSize = page + (view - base)
      /\ (ptr + i) % PageSize = (pos + i) % PageSize
  BY <1>1, <1>2, PagesApart
<1>4. page \in Int /\ PageSize * page <= pos + i /\ pos + i < PageSize * page + PageSize
  BY <1>1, DivFacts
<1> HIDE DEF page, ptr
<1>5. base <= page
  <2>1. base * PageSize < page * PageSize + PageSize
    BY <1>1, <1>4
  <2> QED
    BY <1>1, <1>4, <2>1, PagesOrdered
<1>6. page < base + n
  <2>1. page * PageSize < (base + n) * PageSize
    BY <1>1, <1>4
  <2>2. ASSUME base + n <= page PROVE FALSE
    <3>1. (base + n) * PageSize <= page * PageSize
      BY <1>1, <1>4, <2>2, PagesOrdered
    <3> QED
      BY <1>1, <1>4, <2>1, <3>1
  <2> QED
    BY <1>4, <2>2
<1>7. page - base \in 0..(n - 1) /\ view + (page - base) = page + (view - base)
      /\ base + (page - base) = page
  BY <1>1, <1>4, <1>5, <1>6
<1>8. /\ page + (view - base) \in DOMAIN f.mem
      /\ f.mem[page + (view - base)] = page /\ page < f.size
  BY <1>7 DEF Shown
<1> QED
  BY <1>3, <1>8 DEF ptr, page

-----------------------------------------------------------------------------
\* Mapping and releasing

(***************************************************************************)
(* From f to g the pages of memory in old are released and those in new    *)
(* are mapped; the others stay as they are.                                *)
(***************************************************************************)
Remapped(f, g, old, new) ==
  /\ DOMAIN g.mem = (DOMAIN f.mem \ old) \cup new
  /\ new \cap (DOMAIN f.mem \ old) = {}
  /\ \A x \in DOMAIN f.mem \ old : g.mem[x] = f.mem[x]

\* What no operation on an open file undoes.
Continues(f, g) ==
  /\ g \in File
  /\ f.total <= g.total
  /\ "open" \in g.lost <=> "open" \in f.lost
  /\ g.lost = {} => f.lost = {} /\ f.size <= g.size

(***************************************************************************)
(* The outcome m of mapping n pages of the file f from base on.            *)
(***************************************************************************)
Acquires(f, m, base, n) ==
  /\ m.view \in ViewAddr
  /\ Continues(f, m.fm) /\ LengthKnown(m.fm)
  /\ Remapped(f, m.fm, {}, Extent(m.view, n))
  /\ m.view \in Addr =>
       /\ \A k \in 0..(n - 1) : m.fm.mem[m.view + k] = base + k
       /\ base + n <= m.fm.total

\* map releases nothing and maps n pages, or fails and maps none.
LEMMA MapAcquires ==
  ASSUME NEW f \in File, LengthKnown(f), NEW base \in Nat, NEW n \in Nat,
         base + n <= f.total, NEW m \in Map(f, base, n)
  PROVE  Acquires(f, m, base, n) /\ m.fm.total = f.total
<1> USE MapFileAssumption
<1>0. f.mem = [x \in DOMAIN f.mem |-> f.mem[x]] /\ DOMAIN f.mem \subseteq Addr
      /\ \A x \in DOMAIN f.mem : f.mem[x] \in Nat
  BY DEF File, Memory
<1>1. CASE \E a \in Room(f, n) : m = [fm |-> [f EXCEPT !.mem = Laid(@, a, base, n)], view |-> a]
  <2> PICK a \in Room(f, n) : m = [fm |-> [f EXCEPT !.mem = Laid(@, a, base, n)], view |-> a]
    BY <1>1
  <2>1. a \in Addr /\ a..(a + n - 1) \subseteq Addr \ DOMAIN f.mem
    BY DEF Room, Fits
  <2> DEFINE l == Laid(f.mem, a, base, n)
  <2>2. /\ DOMAIN l = DOMAIN f.mem \cup a..(a + n - 1)
        /\ \A x \in DOMAIN f.mem : l[x] = f.mem[x]
        /\ \A x \in a..(a + n - 1) : l[x] = base + x - a
    BY <2>1 DEF Laid
  <2>3. l \in Memory
    <3>1. l \in [DOMAIN l -> Nat]
      <4>1. \A x \in DOMAIN l : l[x] \in Nat
        BY <1>0, <2>1, <2>2 DEF Addr
      <4> QED
        BY <4>1 DEF Laid
    <3>2. DOMAIN l \in SUBSET Addr
      BY <1>0, <2>1, <2>2
    <3> HIDE DEF l
    <3> QED
      BY <3>1, <3>2 DEF Memory
  <2>4. m.view = a /\ m.fm = [f EXCEPT !.mem = l]
    OBVIOUS
  <2> HIDE DEF l
  <2>5. /\ m.fm \in File /\ m.fm.mem = l /\ m.fm.total = f.total
        /\ m.fm.size = f.size /\ m.fm.lost = f.lost
    BY <2>3, <2>4 DEF File
  <2>6. Extent(m.view, n) = a..(a + n - 1)
    BY <2>1, <2>4 DEF Extent
  <2>7. \A k \in 0..(n - 1) : l[a + k] = base + k
    BY <2>1, <2>2 DEF Addr
  <2>8. Remapped(f, m.fm, {}, Extent(m.view, n))
    BY <2>1, <2>2, <2>5, <2>6 DEF Remapped
  <2>9. Continues(f, m.fm) /\ LengthKnown(m.fm)
    BY <2>5 DEF Continues, LengthKnown, File
  <2> QED
    BY <2>1, <2>4, <2>5, <2>7, <2>8, <2>9 DEF Acquires, ViewAddr
<1>2. CASE m.view = f.failed /\ (m.fm = f \/ m.fm = [f EXCEPT !.faults = @ + 1])
  <2>1. /\ m.fm \in File /\ m.fm.mem = f.mem /\ m.fm.total = f.total
        /\ m.fm.size = f.size /\ m.fm.lost = f.lost
    BY <1>2 DEF File
  <2>2. m.view \in ViewAddr /\ m.view \notin Addr
    BY <1>2 DEF File, ViewAddr, Addr, Null, MapFailed
  <2>3. Continues(f, m.fm) /\ LengthKnown(m.fm)
    BY <2>1 DEF Continues, LengthKnown, File
  <2> QED
    BY <2>1, <2>2, <2>3 DEF Acquires, Remapped, Extent
<1> QED
  BY <1>1, <1>2 DEF Map, Fails

(***************************************************************************)
(* Two operations after one another, the first of which maps nothing.      *)
(***************************************************************************)
LEMMA AcquiresAfter ==
  ASSUME NEW f, NEW g, NEW m, NEW base \in Nat, NEW n \in Nat,
         Continues(f, g), g.mem = f.mem, f \in File, Acquires(g, m, base, n)
  PROVE  Acquires(f, m, base, n)
<1>1. Continues(f, m.fm)
  BY DEF Acquires, Continues, File
<1>2. Remapped(f, m.fm, {}, Extent(m.view, n))
  BY DEF Acquires, Remapped
<1> QED
  BY <1>1, <1>2 DEF Acquires

(***************************************************************************)
(* The file grows, or the system refuses and FileMapping does not notice.  *)
(***************************************************************************)
LEMMA ResizeContinues ==
  ASSUME NEW f \in File, LengthKnown(f), NEW total \in Nat, f.total <= total,
         NEW g \in Resize([f EXCEPT !.total = total], total)
  PROVE  /\ g \in File /\ Continues(f, g) /\ LengthKnown(g)
         /\ g.total = total /\ g.mem = f.mem
<1>1. CASE g = [f EXCEPT !.total = total, !.size = total]
  <2>1. /\ g \in File /\ g.mem = f.mem /\ g.total = total
        /\ g.size = total /\ g.lost = f.lost
    BY <1>1 DEF File
  <2> QED
    BY <2>1 DEF Continues, LengthKnown, File
<1>2. CASE g = [f EXCEPT !.total = total, !.faults = @ + 1, !.lost = @ \cup {"resize"}]
  <2>0. f.lost \cup {"resize"} \in SUBSET {"resize", "open"} /\ f.faults + 1 \in Nat
    BY DEF File
  <2>1. /\ g \in File /\ g.mem = f.mem /\ g.total = total
        /\ g.lost = f.lost \cup {"resize"}
    BY <1>2, <2>0 DEF File
  <2> QED
    BY <2>1 DEF Continues, LengthKnown, File
<1>3. \/ g = [[f EXCEPT !.total = total] EXCEPT !.size = total]
      \/ g = [[[f EXCEPT !.total = total] EXCEPT !.faults = @ + 1]
                EXCEPT !.lost = @ \cup {"resize"}]
  BY DEF Resize, Fails
<1>4. CASE g = [[f EXCEPT !.total = total] EXCEPT !.size = total]
  <2>1. [[f EXCEPT !.total = total] EXCEPT !.size = total]
          = [f EXCEPT !.total = total, !.size = total]
    BY DEF File
  <2> QED
    BY <1>4, <2>1, <1>1
<1>5. CASE g = [[[f EXCEPT !.total = total] EXCEPT !.faults = @ + 1]
                  EXCEPT !.lost = @ \cup {"resize"}]
  <2>1. [[[f EXCEPT !.total = total] EXCEPT !.faults = @ + 1] EXCEPT !.lost = @ \cup {"resize"}]
          = [f EXCEPT !.total = total, !.faults = @ + 1, !.lost = @ \cup {"resize"}]
    BY DEF File
  <2> QED
    BY <1>5, <2>1, <1>2
<1> QED
  BY <1>3, <1>4, <1>5

(***************************************************************************)
(* accessSegment: the pages asked for, which the file has then.            *)
(***************************************************************************)
LEMMA AccessAcquires ==
  ASSUME NEW f \in File, LengthKnown(f), NEW base \in Nat, NEW n \in Nat,
         NEW m \in AccessSegment(f, base, n)
  PROVE  Acquires(f, m, base, n) /\ base + n <= m.fm.total
<1>1. CASE base + n > f.total
  <2>1. PICK g \in Resize([f EXCEPT !.total = base + n], base + n) : m \in Map(g, base, n)
    BY <1>1 DEF AccessSegment
  <2>2. base + n \in Nat /\ f.total <= base + n
    BY <1>1 DEF File
  <2>3. g \in File /\ Continues(f, g) /\ LengthKnown(g) /\ g.total = base + n /\ g.mem = f.mem
    BY <2>1, <2>2, ResizeContinues
  <2>4. Acquires(g, m, base, n) /\ m.fm.total = g.total
    BY <2>1, <2>2, <2>3, MapAcquires
  <2> QED
    BY <2>2, <2>3, <2>4, AcquiresAfter
<1>2. CASE ~(base + n > f.total)
  <2>1. m \in Map(f, base, n) /\ base + n <= f.total
    BY <1>2 DEF AccessSegment, File
  <2>2. Acquires(f, m, base, n) /\ m.fm.total = f.total
    BY <2>1, MapAcquires
  <2> QED
    BY <2>1, <2>2
<1> QED
  BY <1>1, <1>2

(***************************************************************************)
(* viewSegment or accessSegment: the pages asked for, if a file that is    *)
(* read has as many there.                                                 *)
(***************************************************************************)
LEMMA SegmentsAcquire ==
  ASSUME MTypeOK, NEW f \in File, LengthKnown(f), NEW base \in Nat, NEW n \in Nat,
         mode.readOnly /\ base < f.total => base + n <= f.total,
         NEW m \in Segments(f, base, n)
  PROVE  Acquires(f, m, base, n)
<1>1. CASE mode.readOnly
  <2>1. m \in ViewSegment(f, base, n)
    BY <1>1 DEF Segments
  <2>2. CASE base >= f.total
    <3>1. m = [fm |-> f, view |-> Null]
      BY <2>1, <2>2 DEF ViewSegment
    <3>2. m.fm = f /\ m.view = Null /\ Null \notin Addr
      BY <3>1 DEF Null, Addr
    <3> QED
      BY <3>2 DEF Acquires, ViewAddr, Continues, Remapped, Extent, File
  <2>3. CASE ~(base >= f.total)
    <3>1. base + n <= f.total /\ Least(n, f.total - base) = n
      BY <1>1, <2>3 DEF Least, File
    <3>2. m \in Map(f, base, n)
      BY <2>1, <2>3, <3>1 DEF ViewSegment
    <3> QED
      BY <3>1, <3>2, MapAcquires
  <2> QED
    BY <2>2, <2>3
<1>2. CASE ~mode.readOnly
  <2>1. m \in AccessSegment(f, base, n)
    BY <1>2 DEF Segments
  <2> QED
    BY <2>1, AccessAcquires
<1> QED
  BY <1>1, <1>2

(***************************************************************************)
(* allocSegment: new pages behind all others.                              *)
(***************************************************************************)
LEMMA AllocAcquires ==
  ASSUME NEW f \in File, LengthKnown(f), NEW n \in Nat, NEW m \in AllocSegment(f, n)
  PROVE  Acquires(f, m, f.total, n) /\ m.fm.total = f.total + n
<1>1. [f EXCEPT !.total = @ + n] = [f EXCEPT !.total = f.total + n]
  OBVIOUS
<1>2. PICK g \in Resize([f EXCEPT !.total = f.total + n], f.total + n) : m \in Map(g, f.total, n)
  BY <1>1 DEF AllocSegment
<1>3. f.total + n \in Nat /\ f.total <= f.total + n /\ f.total \in Nat
  BY DEF File
<1>4. g \in File /\ Continues(f, g) /\ LengthKnown(g) /\ g.total = f.total + n /\ g.mem = f.mem
  BY <1>2, <1>3, ResizeContinues
<1>5. Acquires(g, m, f.total, n) /\ m.fm.total = g.total
  BY <1>2, <1>3, <1>4, MapAcquires
<1> QED
  BY <1>3, <1>4, <1>5, AcquiresAfter

(***************************************************************************)
(* Releasing a view, which leaves what others have mapped.                 *)
(***************************************************************************)
LEMMA UnmappedFacts ==
  ASSUME MTypeOK, NEW view \in ViewAddr, NEW n \in Int
  PROVE  LET f == Unmapped(view, n) IN
         /\ f \in File /\ Remapped(fm, f, Extent(view, n), {})
         /\ f.total = fm.total /\ f.size = fm.size /\ f.lost = fm.lost
<1> DEFINE f == Unmapped(view, n)
<1>0. fm \in File /\ fm.mem = [x \in DOMAIN fm.mem |-> fm.mem[x]] /\ DOMAIN fm.mem \subseteq Addr
      /\ \A x \in DOMAIN fm.mem : fm.mem[x] \in Nat
  BY DEF MTypeOK, File, Memory
<1>1. CASE view \notin Addr
  <2>1. view = Null \/ view = MapFailed
    BY <1>1 DEF ViewAddr
  <2>2. f = fm
    BY <2>1 DEF Unmapped, Unmap
  <2> QED
    BY <1>0, <1>1, <2>2 DEF Remapped, Extent
<1>2. CASE view \in Addr
  <2> DEFINE l == [x \in DOMAIN fm.mem \ (view..(view + n - 1)) |-> fm.mem[x]]
  <2>1. view # Null /\ view # MapFailed
    BY <1>2, MapFileAssumption DEF Addr, Null, MapFailed
  <2>2. f = [fm EXCEPT !.mem = l]
    BY <2>1 DEF Unmapped, Unmap
  <2>3. /\ DOMAIN l = DOMAIN fm.mem \ (view..(view + n - 1))
        /\ \A x \in DOMAIN l : l[x] = fm.mem[x]
    OBVIOUS
  <2>4. l \in Memory
    <3>1. l \in [DOMAIN l -> Nat] /\ DOMAIN l \in SUBSET Addr
      BY <1>0
    <3> HIDE DEF l
    <3> QED
      BY <3>1 DEF Memory
  <2> HIDE DEF l
  <2>5. f \in File /\ f.mem = l /\ f.total = fm.total /\ f.size = fm.size /\ f.lost = fm.lost
    BY <1>0, <2>2, <2>4 DEF File
  <2>6. Extent(view, n) = view..(view + n - 1)
    BY <1>2 DEF Extent
  <2>7. Remapped(fm, f, Extent(view, n), {})
    BY <2>3, <2>5, <2>6 DEF Remapped
  <2> QED
    BY <2>5, <2>7
<1> QED
  BY <1>1, <1>2

(***************************************************************************)
(* A buffer releases its view and gets another: what it shows then.        *)
(***************************************************************************)
LEMMA ReplacesView ==
  ASSUME MTypeOK, NEW view \in ViewAddr, NEW k \in Int,
         NEW m, NEW base \in Nat, NEW n \in Nat,
         Acquires(Unmapped(view, k), m, base, n)
  PROVE  /\ m.view \in ViewAddr /\ Continues(fm, m.fm) /\ LengthKnown(m.fm)
         /\ Remapped(fm, m.fm, Extent(view, k), Extent(m.view, n))
         /\ m.fm.lost = {} => Shown(m.fm, m.view, base, n)
<1> DEFINE f == Unmapped(view, k)
<1>1. /\ f \in File /\ Remapped(fm, f, Extent(view, k), {})
      /\ f.total = fm.total /\ f.size = fm.size /\ f.lost = fm.lost
  BY UnmappedFacts
<1> HIDE DEF f
<1>2. Acquires(f, m, base, n)
  BY DEF f
<1>3. Continues(fm, m.fm)
  BY <1>1, <1>2 DEF Acquires, Continues
<1>4. Remapped(fm, m.fm, Extent(view, k), Extent(m.view, n))
  BY <1>1, <1>2 DEF Acquires, Remapped
<1>5. ASSUME m.fm.lost = {}, m.view \in Addr, NEW i \in 0..(n - 1)
      PROVE  /\ m.view + i \in DOMAIN m.fm.mem /\ m.fm.mem[m.view + i] = base + i
             /\ base + i < m.fm.size
  <2>1. m.view + i \in Extent(m.view, n)
    BY <1>5 DEF Extent, Addr
  <2>2. m.fm.size = m.fm.total /\ m.fm.total \in Nat /\ base + n <= m.fm.total
    BY <1>2, <1>5 DEF Acquires, LengthKnown, Continues, File
  <2> QED
    BY <1>2, <1>5, <2>1, <2>2 DEF Acquires, Remapped
<1> QED
  BY <1>2, <1>3, <1>4, <1>5 DEF Acquires, Shown

\* What other buffers show stays as it is.
LEMMA ShownKept ==
  ASSUME NEW f \in File, NEW g \in File, NEW old, NEW new, Remapped(f, g, old, new),
         f.size <= g.size,
         NEW view, NEW base \in Int, NEW n \in Int, Extent(view, n) \cap old = {},
         Shown(f, view, base, n)
  PROVE  Shown(g, view, base, n)
<1> SUFFICES ASSUME view \in Addr, NEW k \in 0..(n - 1)
             PROVE  view + k \in DOMAIN g.mem /\ g.mem[view + k] = base + k /\ base + k < g.size
  BY DEF Shown
<1>1. view + k \in Extent(view, n)
  BY DEF Extent, Addr
<1>2. view + k \in DOMAIN f.mem /\ f.mem[view + k] = base + k /\ base + k < f.size
  BY DEF Shown
<1> QED
  BY <1>1, <1>2 DEF Remapped, File

(***************************************************************************)
(* What is mapped is the extents of three buffers, none sharing a page.    *)
(***************************************************************************)
Owned(D, A, B, C) ==
  D = A \cup B \cup C /\ A \cap B = {} /\ A \cap C = {} /\ B \cap C = {}

\* MappingsOwned is about a sequence of views; here are its three.
LEMMA OwnedByThree ==
  ASSUME NEW D, NEW A, NEW B, NEW C
  PROVE  LET views == <<A, B, C>> IN
         (/\ D = views[1] \cup views[2] \cup views[3]
          /\ \A i, j \in 1..3 : i # j => views[i] \cap views[j] = {})
         <=> Owned(D, A, B, C)
<1> DEFINE v == <<A, B, C>>
<1>1. v[1] = A /\ v[2] = B /\ v[3] = C
  OBVIOUS
<1>2. \A i \in 1..3 : i = 1 \/ i = 2 \/ i = 3
  OBVIOUS
<1>3. 1 \in 1..3 /\ 2 \in 1..3 /\ 3 \in 1..3 /\ 1 # 2 /\ 1 # 3 /\ 2 # 3
  OBVIOUS
<1> HIDE DEF v
<1>4. (\A i, j \in 1..3 : i # j => v[i] \cap v[j] = {})
        <=> A \cap B = {} /\ A \cap C = {} /\ B \cap C = {}
  BY <1>1, <1>2, <1>3
<1> QED
  BY <1>1, <1>4 DEF v, Owned

\* The extent of one buffer is replaced by another.
LEMMA OwnedReplaced ==
  ASSUME NEW f, NEW g, NEW A, NEW B, NEW C, NEW new,
         Owned(DOMAIN f.mem, A, B, C), Remapped(f, g, A, new)
  PROVE  Owned(DOMAIN g.mem, new, B, C)
BY DEF Owned, Remapped

AccExtent == Extent(acc.view, acc.next - acc.base)
SegExtent == Extent(seg.view, mode.align)
AlcExtent == Extent(alc.view, mode.align)

\* The three extents of MappingsOwned.
LEMMA OwnedExtents == MappingsOwned <=> Owned(DOMAIN fm.mem, AccExtent, SegExtent, AlcExtent)
BY OwnedByThree DEF MappingsOwned, AccExtent, SegExtent, AlcExtent

\* The same of the state after a step.
LEMMA OwnedExtentsAfter ==
  MappingsOwned' <=> Owned(DOMAIN fm.mem, AccExtent, SegExtent, AlcExtent)'
BY OwnedExtents, PTL

(***************************************************************************)
(* What is left to hand out, over a step of the other buffers.             *)
(***************************************************************************)
LEMMA UnhandedKept ==
  ASSUME MTypeOK, Unhanded, Continues(fm, fm'), UNCHANGED <<mode, alc, saved, handed, twice>>
  PROVE  Unhanded'
<1>1. fm.total \in Nat /\ fm'.total \in Nat /\ fm.total <= fm'.total
  BY DEF MTypeOK, Continues, File
<1>2. PageSize \in Nat \ {0} /\ mode.align \in Nat
  BY MapBuffersAssumption DEF MTypeOK
<1>3. /\ fm.total * PageSize \in Int /\ fm'.total * PageSize \in Int
      /\ fm.total * PageSize <= fm'.total * PageSize
  BY <1>1, <1>2, PagesOrdered
<1>4. \A x \in handed : x < fm.total * PageSize => x < fm'.total * PageSize
  BY <1>3 DEF MTypeOK
<1>5. TailInFile(alc) => TailInFile(alc)'
  BY <1>1, <1>2 DEF TailInFile, MTypeOK, BufferTypeOK
<1>6. TailInFile(saved) => TailInFile(saved)'
  BY <1>1, <1>2 DEF TailInFile, MTypeOK, BufferTypeOK
<1>7. Tail(alc)' = Tail(alc) /\ Tail(saved)' = Tail(saved)
  BY DEF Tail, SegmentSize
<1> QED
  BY <1>4, <1>5, <1>6, <1>7 DEF Unhanded, TailsFree, Continues

(***************************************************************************)
(* What the other buffers show, over a step that maps and releases pages   *)
(* for one of them.                                                        *)
(***************************************************************************)
LEMMA OthersShown ==
  ASSUME IInv, Continues(fm, fm'), fm'.lost = {},
         NEW old, NEW new, Remapped(fm, fm', old, new)
  PROVE  /\ AccExtent \cap old = {} => Shown(fm', acc.view, acc.base, acc.next - acc.base)
         /\ SegExtent \cap old = {} => Shown(fm', seg.view, seg.seg * mode.align, mode.align)
         /\ AlcExtent \cap old = {} => Shown(fm', alc.view, alc.base, mode.align)
<1>1. fm.lost = {} /\ fm.size <= fm'.size /\ fm \in File /\ fm' \in File
  BY DEF Continues, IInv, MTypeOK
<1>2. mode.align \in Nat /\ acc.base \in Int /\ acc.next - acc.base \in Int /\ alc.base \in Int
  BY MapBuffersAssumption DEF IInv, MTypeOK, BufferTypeOK
<1>3. seg.seg * mode.align \in Int
  BY <1>2 DEF IInv, MTypeOK, NoSeg
<1>4. AccExtent \cap old = {} => Shown(fm', acc.view, acc.base, acc.next - acc.base)
  BY <1>1, <1>2, ShownKept DEF IInv, PagesShown, AccExtent
<1>5. SegExtent \cap old = {} => Shown(fm', seg.view, seg.seg * mode.align, mode.align)
  BY <1>1, <1>2, <1>3, ShownKept DEF IInv, PagesShown, SegExtent
<1>6. AlcExtent \cap old = {} => Shown(fm', alc.view, alc.base, mode.align)
  BY <1>1, <1>2, ShownKept DEF IInv, PagesShown, AlcExtent
<1> QED
  BY <1>4, <1>5, <1>6

-----------------------------------------------------------------------------
\* The steps of AccessBuffer

\* The pages of a request hold all its bytes.
LEMMA PagesOfRequest ==
  ASSUME NEW pos \in Nat, NEW len \in Nat
  PROVE  LET first == pos \div PageSize
             next == (pos + len + PageSize - 1) \div PageSize
         IN /\ first \in Nat /\ next \in Nat /\ first <= next
            /\ first * PageSize <= pos /\ pos + len <= next * PageSize
<1> DEFINE first == pos \div PageSize
           q == pos + len + PageSize - 1
           next == q \div PageSize
<1>1. PageSize \in Nat \ {0} /\ q \in Int
  BY MapBuffersAssumption
<1>2. /\ first \in Int /\ first * PageSize <= pos /\ pos < first * PageSize + PageSize
      /\ next \in Int /\ next * PageSize <= q /\ q < next * PageSize + PageSize
  BY <1>1, DivFacts
<1>3. q = pos + len + PageSize - 1
  OBVIOUS
<1> HIDE DEF first, next, q
<1>4. pos + len <= next * PageSize
  BY <1>1, <1>2, <1>3
<1>5. 0 <= first
  <2>1. 0 * PageSize < first * PageSize + PageSize
    BY <1>1, <1>2
  <2> QED
    BY <1>1, <1>2, <2>1, PagesOrdered
<1>6. first <= next
  <2>1. first * PageSize < next * PageSize + PageSize
    BY <1>1, <1>2, <1>3, <1>4
  <2> QED
    BY <1>1, <1>2, <2>1, PagesOrdered
<1> QED
  BY <1>2, <1>4, <1>5, <1>6 DEF first, next, q

\* view, which maps the pages of the request alone.
LEMMA ViewIInv ==
  ASSUME IInv, NEW pos \in Nat, NEW len \in Nat, View(pos, len)
  PROVE  IInv'
<1> DEFINE first == pos \div PageSize
           next == (pos + len + PageSize - 1) \div PageSize
<1>1. /\ first \in Nat /\ next \in Nat /\ first <= next
      /\ first * PageSize <= pos /\ pos + len <= next * PageSize
  BY PagesOfRequest
<1>2. PageSize \in Nat \ {0} /\ mode.align \in Nat
  BY MapBuffersAssumption DEF IInv, MTypeOK
<1>3. UNCHANGED <<mode, seg, alc, saved, handed, twice>> /\ Asked(first, next)
  BY DEF View
<1> HIDE DEF first, next
<1>4. CASE /\ Covers(first, next) /\ UNCHANGED <<fm, acc>>
           /\ Answer(acc.view, pos - acc.base * PageSize, pos, len)
  <2>1. UNCHANGED <<mode, fm, acc, seg, alc, saved, handed, twice>>
    BY <1>3, <1>4
  <2>2. ASSUME acc.view \in Addr, fm.lost = {}
        PROVE  Backed(fm, acc.view * PageSize + (pos - acc.base * PageSize), pos, len)
    <3> DEFINE n == acc.next - acc.base
    <3>1. /\ acc.base \in Nat /\ acc.next \in Nat /\ acc.base <= first /\ next <= acc.next
          /\ acc.base + n = acc.next /\ n \in Nat
      BY <1>1, <1>4 DEF IInv, MTypeOK, Covers
    <3>2. acc.base * PageSize <= pos /\ pos + len <= acc.next * PageSize
      <4>1. acc.base * PageSize <= first * PageSize /\ next * PageSize <= acc.next * PageSize
            /\ acc.base * PageSize \in Int /\ acc.next * PageSize \in Int
            /\ first * PageSize \in Int /\ next * PageSize \in Int
        BY <1>1, <1>2, <3>1, PagesOrdered
      <4> QED
        BY <1>1, <4>1
    <3>3. Shown(fm, acc.view, acc.base, n)
      BY <2>2 DEF IInv, PagesShown
    <3> HIDE DEF n
    <3> QED
      BY <2>2, <3>1, <3>2, <3>3, ShownBacked
  <2>3. ~misled'
    BY <1>4, <2>1, <2>2 DEF IInv, Answer
  <2> QED
    BY <2>1, <2>3 DEF IInv, MTypeOK, BufferTypeOK, MappingsOwned, PagesShown, Unhanded, TailsFree, Tail,
         TailInFile, SegmentSize
<1>5. ASSUME NEW m \in Segments(Unmapped(acc.view, acc.next - acc.base), first, next - first),
             fm' = m.fm,
             IF m.view = Null
             THEN acc' = [acc EXCEPT !.view = Null] /\ UNCHANGED misled
             ELSE /\ acc' = [view |-> m.view, base |-> first, next |-> next]
                  /\ Answer(m.view, pos - first * PageSize, pos, len)
      PROVE  IInv'
  <2> DEFINE f == Unmapped(acc.view, acc.next - acc.base)
             n == next - first
  <2>1. acc.view \in ViewAddr /\ acc.next - acc.base \in Int /\ n \in Nat /\ first + n = next
    BY <1>1 DEF IInv, MTypeOK
  <2>2. f \in File /\ LengthKnown(f) /\ f.total = fm.total
    BY <2>1, UnmappedFacts DEF IInv, LengthKnown
  <2>3. mode.readOnly /\ first < f.total => first + n <= f.total
    BY <1>1, <1>3, <2>1, <2>2 DEF Asked, File
  <2>4. Acquires(f, m, first, n)
    <3> HIDE DEF f, n
    <3>1. m \in Segments(f, first, n)
      BY <1>5 DEF f, n
    <3> QED
      BY <1>1, <2>1, <2>2, <2>3, <3>1, SegmentsAcquire DEF IInv
  <2>5. /\ m.view \in ViewAddr /\ Continues(fm, fm') /\ LengthKnown(fm')
        /\ Remapped(fm, fm', AccExtent, Extent(m.view, n))
        /\ fm'.lost = {} => Shown(fm', m.view, first, n)
    BY <1>1, <1>5, <2>1, <2>4, ReplacesView DEF IInv, AccExtent
  <2> HIDE DEF f, n
  <2>6. /\ acc' \in [view : ViewAddr, base : Nat, next : Nat]
        /\ acc'.view = m.view
        /\ m.view # Null => acc'.base = first /\ acc'.next - acc'.base = n
    BY <1>1, <1>5, <2>1, <2>5 DEF IInv, MTypeOK
  <2>7. MTypeOK'
    BY <1>3, <2>5, <2>6 DEF IInv, MTypeOK, BufferTypeOK, SegmentSize, Continues
  <2>8. MappingsOwned'
    <3>1. Extent(m.view, n) = AccExtent'
      BY <2>6 DEF AccExtent, Extent, Null, Addr
    <3>2. SegExtent' = SegExtent /\ AlcExtent' = AlcExtent
      BY <1>3 DEF SegExtent, AlcExtent
    <3>3. Owned(DOMAIN fm.mem, AccExtent, SegExtent, AlcExtent)
      BY OwnedExtents DEF IInv
    <3>4. Owned(DOMAIN fm'.mem, AccExtent', SegExtent, AlcExtent)
      BY <2>5, <3>1, <3>3, OwnedReplaced
    <3> QED
      BY <3>2, <3>4, OwnedExtentsAfter
  <2>9. PagesShown'
    <3>1. SegExtent \cap AccExtent = {} /\ AlcExtent \cap AccExtent = {}
      BY OwnedExtents DEF IInv, Owned
    <3>2. ASSUME fm'.lost = {}
          PROVE  /\ Shown(fm', seg.view, seg.seg * mode.align, mode.align)
                 /\ Shown(fm', alc.view, alc.base, mode.align)
      BY <2>5, <3>1, <3>2, OthersShown
    <3>3. fm'.lost = {} => Shown(fm', acc'.view, acc'.base, acc'.next - acc'.base)
      BY <2>5, <2>6 DEF Shown, Addr, Null
    <3>4. fm'.lost = {} => (seg.view \in Addr => seg.seg \in Nat)
      BY <2>5 DEF IInv, PagesShown, Continues
    <3> QED
      BY <1>3, <3>2, <3>3, <3>4 DEF PagesShown
  <2>10. ~misled'
    <3>1. ASSUME m.view \in Addr, fm'.lost = {}
          PROVE  Backed(fm', m.view * PageSize + (pos - first * PageSize), pos, len)
      BY <1>1, <2>1, <2>5, <3>1, ShownBacked
    <3> QED
      BY <1>5, <3>1 DEF IInv, Answer
  <2>11. Unhanded'
    BY <1>3, <2>5, UnhandedKept DEF IInv
  <2> QED
    BY <2>5, <2>7, <2>8, <2>9, <2>10, <2>11 DEF IInv
<1> QED
  BY <1>4, <1>5 DEF View, first, next

-----------------------------------------------------------------------------
\* The steps of SegmentAccessBuffer

\* A segment has a whole number of pages.
LEMMA SegmentOfPosition ==
  ASSUME mode \in Modes, NEW pos \in Nat
  PROVE  LET i == pos \div SegmentSize
             base == i * mode.align
         IN /\ i \in Nat /\ base \in Nat
            /\ base * PageSize <= pos /\ pos + 1 <= (base + mode.align) * PageSize
            /\ pos % SegmentSize = pos - base * PageSize
<1>1. mode.align \in Nat \ {0} /\ PageSize \in Nat \ {0}
  BY MapBuffersAssumption
<1>2. SegmentSize \in Nat \ {0}
  BY <1>1 DEF SegmentSize
<1> DEFINE i == pos \div SegmentSize
           r == pos % SegmentSize
           base == i * mode.align
<1>3. i \in Int /\ r \in 0..(SegmentSize - 1) /\ pos = SegmentSize * i + r
  BY <1>2, DivFacts
<1> HIDE DEF i, r
<1>4. i \in Nat
  <2>1. 0 * SegmentSize < i * SegmentSize + SegmentSize
    BY <1>2, <1>3
  <2> QED
    BY <1>2, <1>3, <2>1, PagesOrdered
<1>5. base \in Nat /\ base * PageSize = SegmentSize * i
      /\ (base + mode.align) * PageSize = SegmentSize * i + SegmentSize
  BY <1>1, <1>4 DEF SegmentSize
<1> HIDE DEF base
<1>6. base * PageSize <= pos /\ pos + 1 <= (base + mode.align) * PageSize
      /\ r = pos - base * PageSize
  BY <1>2, <1>3, <1>4, <1>5
<1> QED
  BY <1>4, <1>5, <1>6 DEF i, r, base

\* view of a segment, the one at hand or another.
LEMMA ViewInSegmentIInv ==
  ASSUME IInv, SegmentsWhole, NEW pos \in Nat, ViewInSegment(pos)
  PROVE  IInv'
<1> DEFINE i == pos \div SegmentSize
           base == i * mode.align
           r == pos % SegmentSize
           f == Unmapped(seg.view, mode.align)
<1>1. /\ i \in Nat /\ base \in Nat
      /\ base * PageSize <= pos /\ pos + 1 <= (base + mode.align) * PageSize
      /\ r = pos - base * PageSize
  BY SegmentOfPosition DEF IInv, MTypeOK
<1>2. mode.align \in Nat /\ (mode.readOnly => mode.align = 1)
  BY MapBuffersAssumption DEF IInv, MTypeOK, SegmentsWhole
<1>3. UNCHANGED <<mode, acc, alc, saved, handed, twice>>
  BY DEF ViewInSegment
<1>4. CASE i = seg.seg /\ UNCHANGED <<fm, seg>> /\ Answer(seg.view, r, pos, 1)
  <2>1. UNCHANGED <<mode, fm, acc, seg, alc, saved, handed, twice>>
    BY <1>3, <1>4
  <2>2. ASSUME seg.view \in Addr, fm.lost = {}
        PROVE  Backed(fm, seg.view * PageSize + r, pos, 1)
    <3>1. Shown(fm, seg.view, base, mode.align)
      BY <1>4, <2>2 DEF IInv, PagesShown
    <3> HIDE DEF base, r, i
    <3> QED
      BY <1>1, <1>2, <2>2, <3>1, ShownBacked
  <2>3. ~misled'
    BY <1>4, <2>1, <2>2 DEF IInv, Answer
  <2> QED
    BY <2>1, <2>3 DEF IInv, MTypeOK, BufferTypeOK, MappingsOwned, PagesShown, Unhanded, TailsFree, Tail,
         TailInFile, SegmentSize
<1>5. ASSUME NEW m \in Segments(f, base, mode.align),
             fm' = m.fm, seg' = SegmentViewed(i, m.view),
             IF m.view = Null THEN UNCHANGED misled ELSE Answer(m.view, r, pos, 1)
      PROVE  IInv'
  <2> HIDE DEF base, r, i
  <2>1. seg.view \in ViewAddr
    BY DEF IInv, MTypeOK
  <2>2. f \in File /\ LengthKnown(f) /\ f.total = fm.total
    BY <1>2, <2>1, UnmappedFacts DEF IInv, LengthKnown
  <2>3. mode.readOnly /\ base < f.total => base + mode.align <= f.total
    BY <1>1, <1>2, <2>2 DEF File
  <2>4. Acquires(f, m, base, mode.align)
    <3> HIDE DEF f
    <3> QED
      BY <1>1, <1>2, <1>5, <2>2, <2>3, SegmentsAcquire DEF IInv
  <2>5. /\ m.view \in ViewAddr /\ Continues(fm, fm') /\ LengthKnown(fm')
        /\ Remapped(fm, fm', SegExtent, Extent(m.view, mode.align))
        /\ fm'.lost = {} => Shown(fm', m.view, base, mode.align)
    <3>1. MTypeOK /\ base \in Nat /\ mode.align \in Nat /\ mode.align \in Int
      BY <1>1, <1>2 DEF IInv
    <3>2. /\ m.view \in ViewAddr /\ Continues(fm, m.fm) /\ LengthKnown(m.fm)
          /\ Remapped(fm, m.fm, Extent(seg.view, mode.align), Extent(m.view, mode.align))
          /\ m.fm.lost = {} => Shown(m.fm, m.view, base, mode.align)
      BY <2>1, <2>4, <3>1, ReplacesView
    <3> QED
      BY <1>5, <3>2 DEF SegExtent
  <2> HIDE DEF f
  <2>6. /\ seg' \in [view : ViewAddr, seg : Nat \cup {NoSeg}]
        /\ seg'.view = m.view
        /\ m.view # Null => seg'.seg = i
    BY <1>1, <1>5, <2>5 DEF SegmentViewed, NoSegment
  <2>7. MTypeOK'
    BY <1>3, <2>5, <2>6 DEF IInv, MTypeOK, BufferTypeOK, SegmentSize, Continues
  <2>8. MappingsOwned'
    <3>1. Extent(m.view, mode.align) = SegExtent'
      BY <1>3, <2>6 DEF SegExtent
    <3>2. AccExtent' = AccExtent /\ AlcExtent' = AlcExtent
      BY <1>3 DEF AccExtent, AlcExtent
    <3>3. Owned(DOMAIN fm.mem, SegExtent, AccExtent, AlcExtent)
      BY OwnedExtents DEF IInv, Owned
    <3>4. Owned(DOMAIN fm'.mem, SegExtent', AccExtent, AlcExtent)
      BY <2>5, <3>1, <3>3, OwnedReplaced
    <3>5. Owned(DOMAIN fm'.mem, AccExtent, SegExtent', AlcExtent)
      BY <3>4 DEF Owned
    <3> QED
      BY <3>2, <3>5, OwnedExtentsAfter
  <2>9. PagesShown'
    <3>1. AccExtent \cap SegExtent = {} /\ AlcExtent \cap SegExtent = {}
      BY OwnedExtents DEF IInv, Owned
    <3>2. ASSUME fm'.lost = {}
          PROVE  /\ Shown(fm', acc.view, acc.base, acc.next - acc.base)
                 /\ Shown(fm', alc.view, alc.base, mode.align)
      BY <2>5, <3>1, <3>2, OthersShown
    <3>3. ASSUME fm'.lost = {}
          PROVE  /\ seg'.view \in Addr => seg'.seg \in Nat
                 /\ Shown(fm', seg'.view, seg'.seg * mode.align, mode.align)
      <4>1. CASE m.view = Null
        BY <4>1, <2>6 DEF Shown, Addr, Null
      <4>2. CASE m.view # Null
        BY <4>2, <1>1, <2>5, <2>6, <3>3 DEF base
      <4> QED
        BY <4>1, <4>2
    <3> QED
      BY <1>3, <3>2, <3>3 DEF PagesShown
  <2>10. ~misled'
    <3>1. ASSUME m.view \in Addr, fm'.lost = {}
          PROVE  Backed(fm', m.view * PageSize + r, pos, 1)
      BY <1>1, <1>2, <2>5, <3>1, ShownBacked
    <3> QED
      BY <1>5, <3>1 DEF IInv, Answer
  <2>11. Unhanded'
    BY <1>3, <2>5, UnhandedKept DEF IInv
  <2> QED
    BY <2>5, <2>7, <2>8, <2>9, <2>10, <2>11 DEF IInv
<1> QED
  BY <1>4, <1>5 DEF ViewInSegment

-----------------------------------------------------------------------------
\* The steps of SegmentAllocBuffer

\* A buffer hands out bytes of its segment, which lies in the file.
LEMMA TailFacts ==
  ASSUME mode \in Modes, NEW b, BufferTypeOK(b), NEW total \in Nat,
         b.free > 0 => b.base + mode.align <= total
  PROVE  /\ b.base * PageSize \in Nat /\ SegmentSize \in Nat /\ total * PageSize \in Nat
         /\ (b.base + mode.align) * PageSize = b.base * PageSize + SegmentSize
         /\ b.free > 0 => b.base * PageSize + SegmentSize <= total * PageSize
         /\ b.free = 0 => Tail(b) = {}
         /\ \A x \in Tail(b) : x < total * PageSize
<1>1. /\ mode.align \in Nat \ {0} /\ PageSize \in Nat \ {0}
      /\ b.base \in Nat /\ b.free \in 0..SegmentSize
  BY MapBuffersAssumption DEF BufferTypeOK
<1>2. SegmentSize \in Nat /\ b.base * PageSize \in Nat /\ total * PageSize \in Nat
      /\ (b.base + mode.align) * PageSize = b.base * PageSize + SegmentSize
  BY <1>1 DEF SegmentSize
<1>3. b.free > 0 => b.base * PageSize + SegmentSize <= total * PageSize
  <2>1. b.free > 0 => (b.base + mode.align) * PageSize <= total * PageSize
    BY <1>1, PagesOrdered
  <2> QED
    BY <1>2, <2>1
<1>4. \A x \in Tail(b) : b.free > 0 /\ x \in Int /\ x < b.base * PageSize + SegmentSize
  BY <1>1, <1>2 DEF Tail
<1> QED
  BY <1>2, <1>3, <1>4

(***************************************************************************)
(* From a buffer that may hand out what lies behind the others.            *)
(***************************************************************************)
LEMMA HandOutUnhanded ==
  ASSUME MTypeOK, fm' \in File, UNCHANGED <<mode, saved>>,
         NEW view \in ViewAddr, NEW base \in Nat, NEW free \in 0..SegmentSize,
         NEW n \in 1..free, HandOut(view, base, free, n),
         ~twice, base + mode.align <= fm'.total, TailInFile(saved)',
         LET b == [view |-> view, base |-> base, free |-> free] IN
           Tail(b) \cap handed = {} /\ Tail(b) \cap Tail(saved) = {},
         Tail(saved) \cap handed = {}, \A x \in handed : x < fm'.total * PageSize
  PROVE  TailsFree'
<1> DEFINE b == [view |-> view, base |-> base, free |-> free]
           pos == base * PageSize + (SegmentSize - free)
           end == base * PageSize + SegmentSize
<1>0. SegmentSize' = SegmentSize
  BY DEF SegmentSize
<1>1. BufferTypeOK(b) /\ b.free = free /\ b.base = base /\ fm'.total \in Nat /\ mode \in Modes
  BY DEF BufferTypeOK, MTypeOK, File
<1>2. end <= fm'.total * PageSize /\ base * PageSize \in Nat /\ SegmentSize \in Nat
      /\ fm'.total * PageSize \in Nat
  BY <1>1, TailFacts DEF BufferTypeOK
<1>3. /\ pos \in Nat /\ end \in Nat /\ pos + n <= end /\ free \in Nat
      /\ end - 1 = base * PageSize + (SegmentSize - 1)
  BY <1>2
<1>4. /\ alc' = [view |-> view, base |-> base, free |-> free - n]
      /\ handed' = handed \cup pos..(pos + n - 1)
      /\ twice' = (twice \/ handed \cap pos..(pos + n - 1) # {})
  BY DEF HandOut
<1>5. Tail(b) = pos..(end - 1) /\ Tail(saved)' = Tail(saved)
  <2>1. Tail(b) = pos..(end - 1)
    BY <1>1, <1>3 DEF Tail
  <2>2. Tail(saved)' = Tail(saved)
    BY <1>0 DEF Tail
  <2> QED
    BY <2>1, <2>2
<1>6. Tail(alc)' = (pos + n)..(end - 1)
  <2>1. alc'.base = base /\ alc'.free = free - n
    BY <1>4
  <2>2. SegmentSize - (free - n) = (SegmentSize - free) + n
    BY <1>2
  <2>3. base * PageSize + ((SegmentSize - free) + n) = pos + n
    BY <1>2
  <2> QED
    BY <1>0, <1>3, <2>1, <2>2, <2>3 DEF Tail
<1>7. Tail(b) \cap handed = {} /\ Tail(b) \cap Tail(saved) = {}
  OBVIOUS
<1> HIDE DEF pos, end, b
<1>8. pos..(pos + n - 1) \subseteq pos..(end - 1) /\ (pos + n)..(end - 1) \subseteq pos..(end - 1)
      /\ pos..(pos + n - 1) \cap (pos + n)..(end - 1) = {}
  BY <1>3
<1>9. \A x \in handed' : x < fm'.total * PageSize
  BY <1>2, <1>3, <1>4
<1>10. TailInFile(alc)'
  BY <1>4 DEF TailInFile
<1> QED
  BY <1>4, <1>5, <1>6, <1>7, <1>8, <1>9, <1>10 DEF TailsFree

\* A request is answered from the segment, as far as it was mapped.
LEMMA HandOutAnswers ==
  ASSUME MTypeOK, ~misled, fm' \in File, UNCHANGED mode,
         NEW view \in ViewAddr, NEW base \in Nat, NEW free \in 0..SegmentSize,
         NEW n \in 1..free, HandOut(view, base, free, n),
         fm'.lost = {} => Shown(fm', view, base, mode.align)
  PROVE  ~misled'
<1> DEFINE pos == base * PageSize + (SegmentSize - free)
           b == [view |-> view, base |-> base, free |-> free]
<1>1. Answer(view, SegmentSize - free, pos, n)
  BY DEF HandOut
<1>2. /\ base * PageSize \in Nat /\ SegmentSize \in Nat
      /\ (base + mode.align) * PageSize = base * PageSize + SegmentSize
  <2>1. BufferTypeOK(b) /\ b.base = base /\ mode \in Modes
    BY DEF BufferTypeOK, MTypeOK
  <2>2. mode.align \in Nat /\ b.base + mode.align \in Nat
    BY <2>1, MapBuffersAssumption
  <2> QED
    BY <2>1, <2>2, TailFacts
<1>3. pos \in Nat /\ pos - base * PageSize = SegmentSize - free
      /\ base * PageSize <= pos /\ pos + n <= (base + mode.align) * PageSize
  BY <1>2
<1>4. mode.align \in Nat
  BY MapBuffersAssumption DEF MTypeOK
<1> HIDE DEF pos
<1>5. ASSUME view \in Addr, fm'.lost = {}
      PROVE  Backed(fm', view * PageSize + (pos - base * PageSize), pos, n)
  BY <1>3, <1>4, <1>5, ShownBacked
<1> QED
  BY <1>1, <1>3, <1>5 DEF Answer

\* allocData, from the segment at hand or a new one.
LEMMA AllocDataIInv ==
  ASSUME IInv, NEW n \in Nat \ {0}, AllocData(n)
  PROVE  IInv'
<1>1. UNCHANGED <<mode, acc, seg, saved>> /\ n <= SegmentSize
  BY DEF AllocData
<1>2. /\ MTypeOK /\ mode \in Modes /\ mode.align \in Nat \ {0} /\ SegmentSize \in Nat
      /\ SegmentSize' = SegmentSize
  BY <1>1, MapBuffersAssumption DEF IInv, MTypeOK, SegmentSize
<1>3. alc \in [view : ViewAddr, base : Nat, free : 0..SegmentSize]
  BY <1>2 DEF MTypeOK, BufferTypeOK
<1>0. /\ \A x \in handed : x \in Nat
      /\ alc.free \in Nat /\ alc.free <= SegmentSize /\ alc.base \in Nat
      /\ BufferTypeOK(saved) /\ fm \in File
  BY <1>2, <1>3 DEF MTypeOK
<1>6. "open" \notin fm.lost => TailsFree
  BY DEF IInv, Unhanded
<1>4. CASE n <= alc.free /\ UNCHANGED fm /\ HandOut(alc.view, alc.base, alc.free, n)
  <2>1. /\ alc' = [view |-> alc.view, base |-> alc.base, free |-> alc.free - n]
        /\ handed' = handed \cup (alc.base * PageSize + (SegmentSize - alc.free))..
                                   (alc.base * PageSize + (SegmentSize - alc.free) + n - 1)
    BY <1>4 DEF HandOut
  <2>2. alc.view # Null /\ n \in 1..alc.free
    BY <1>2, <1>3, <1>4 DEF MTypeOK
  <2>3. MTypeOK'
    <3>1. alc' \in [view : ViewAddr, base : Nat, free : 0..SegmentSize] /\ alc'.view # Null
      BY <1>2, <1>3, <1>4, <2>1, <2>2
    <3>2. handed' \subseteq Nat
      <4>1. alc.base * PageSize \in Nat /\ SegmentSize - alc.free \in Nat
        BY <1>0, <1>2, MapBuffersAssumption
      <4> QED
        BY <1>0, <2>1, <4>1
    <3> QED
      BY <1>1, <1>2, <1>4, <3>1, <3>2 DEF MTypeOK, BufferTypeOK
  <2>4. MappingsOwned' /\ PagesShown' /\ LengthKnown(fm')
    BY <1>1, <1>4, <2>1 DEF IInv, MappingsOwned, PagesShown, LengthKnown
  <2>5. ~misled'
    <3>1. fm'.lost = {} => Shown(fm', alc.view, alc.base, mode.align)
      BY <1>4 DEF IInv, PagesShown
    <3>2. fm' \in File /\ mode' = mode /\ ~misled
      BY <1>1, <1>4 DEF IInv, MTypeOK
    <3> QED
      BY <1>2, <1>3, <1>4, <2>2, <3>1, <3>2, HandOutAnswers
  <2>6. Unhanded'
    <3> SUFFICES ASSUME "open" \notin fm.lost PROVE Unhanded'
      BY <1>4 DEF Unhanded, TailsFree
    <3>1. [view |-> alc.view, base |-> alc.base, free |-> alc.free] = alc
      BY <1>3
    <3>2. /\ ~twice /\ alc.base + mode.align <= fm'.total /\ TailInFile(saved)'
          /\ \A x \in handed : x < fm'.total * PageSize
          /\ Tail(alc) \cap handed = {} /\ Tail(alc) \cap Tail(saved) = {}
          /\ Tail(saved) \cap handed = {}
      <4>1. alc.free > 0
        BY <1>0, <1>4
      <4>2. TailInFile(saved)' <=> TailInFile(saved)
        BY <1>1, <1>4 DEF TailInFile
      <4> QED
        BY <1>4, <1>6, <4>1, <4>2 DEF TailsFree, TailInFile
    <3>3. fm' \in File
      BY <1>2, <1>4 DEF MTypeOK
    <3> QED
      BY <1>1, <1>2, <1>3, <1>4, <2>2, <3>1, <3>2, <3>3, HandOutUnhanded DEF Unhanded, TailsFree
  <2> QED
    BY <2>3, <2>4, <2>5, <2>6 DEF IInv
<1>5. ASSUME NEW m \in AllocSegment(Unmapped(alc.view, mode.align), mode.align),
             fm' = m.fm,
             IF m.view = Null
             THEN /\ alc' = [view |-> Null, base |-> fm.total, free |-> 0]
                  /\ UNCHANGED <<misled, handed, twice>>
             ELSE HandOut(m.view, fm.total, SegmentSize, n)
      PROVE  IInv'
  <2> DEFINE f == Unmapped(alc.view, mode.align)
  <2>1. f \in File /\ LengthKnown(f) /\ f.total = fm.total /\ fm.total \in Nat
    <3>1. mode.align \in Int /\ alc.view \in ViewAddr
      BY <1>2, <1>3
    <3>2. f \in File /\ f.total = fm.total /\ f.size = fm.size /\ f.lost = fm.lost
      BY <1>2, <3>1, UnmappedFacts
    <3> HIDE DEF f
    <3> QED
      BY <1>0, <3>2 DEF IInv, LengthKnown, File
  <2>2. Acquires(f, m, fm.total, mode.align) /\ m.fm.total = fm.total + mode.align
    <3> HIDE DEF f
    <3>1. m \in AllocSegment(f, mode.align) /\ mode.align \in Nat
      BY <1>2, <1>5 DEF f
    <3> QED
      BY <2>1, <3>1, AllocAcquires
  <2>3. /\ m.view \in ViewAddr /\ Continues(fm, fm') /\ LengthKnown(fm')
        /\ Remapped(fm, fm', AlcExtent, Extent(m.view, mode.align))
        /\ fm'.lost = {} => Shown(fm', m.view, fm.total, mode.align)
        /\ fm'.total = fm.total + mode.align
    <3>1. mode.align \in Nat /\ mode.align \in Int /\ alc.view \in ViewAddr
      BY <1>2, <1>3
    <3>2. /\ m.view \in ViewAddr /\ Continues(fm, m.fm) /\ LengthKnown(m.fm)
          /\ Remapped(fm, m.fm, Extent(alc.view, mode.align), Extent(m.view, mode.align))
          /\ m.fm.lost = {} => Shown(m.fm, m.view, fm.total, mode.align)
      BY <1>2, <2>1, <2>2, <3>1, ReplacesView
    <3> QED
      BY <1>5, <2>2, <3>2 DEF AlcExtent
  <2> HIDE DEF f
  <2>4. fm' \in File
    BY <2>3 DEF Continues
  <2>5. /\ alc'.view = m.view /\ alc'.base = fm.total
        /\ alc' = [view |-> m.view, base |-> fm.total, free |-> alc'.free]
        /\ m.view = Null => alc'.free = 0
        /\ m.view # Null =>
             /\ alc'.free = SegmentSize - n
             /\ handed' = handed \cup (fm.total * PageSize + (SegmentSize - SegmentSize))..
                           (fm.total * PageSize + (SegmentSize - SegmentSize) + n - 1)
    BY <1>5 DEF HandOut
  <2>6. MTypeOK'
    <3>1. alc' \in [view : ViewAddr, base : Nat, free : 0..SegmentSize]
      BY <1>1, <1>2, <2>1, <2>3, <2>5
    <3>2. handed' \subseteq Nat
      <4>1. fm.total * PageSize \in Nat
        BY <2>1, MapBuffersAssumption
      <4> QED
        BY <1>2, <1>5, <2>5, <4>1 DEF MTypeOK
    <3> QED
      BY <1>1, <1>2, <2>4, <2>5, <3>1, <3>2 DEF MTypeOK, BufferTypeOK
  <2>7. MappingsOwned'
    <3>1. Extent(m.view, mode.align) = AlcExtent'
      BY <1>1, <2>5 DEF AlcExtent
    <3>2. AccExtent' = AccExtent /\ SegExtent' = SegExtent
      BY <1>1 DEF AccExtent, SegExtent
    <3>3. Owned(DOMAIN fm.mem, AlcExtent, AccExtent, SegExtent)
      BY OwnedExtents DEF IInv, Owned
    <3>4. Owned(DOMAIN fm'.mem, AlcExtent', AccExtent, SegExtent)
      BY <2>3, <3>1, <3>3, OwnedReplaced
    <3>5. Owned(DOMAIN fm'.mem, AccExtent, SegExtent, AlcExtent')
      BY <3>4 DEF Owned
    <3> QED
      BY <3>2, <3>5, OwnedExtentsAfter
  <2>8. PagesShown'
    <3>1. AccExtent \cap AlcExtent = {} /\ SegExtent \cap AlcExtent = {}
      BY OwnedExtents DEF IInv, Owned
    <3>2. ASSUME fm'.lost = {}
          PROVE  /\ Shown(fm', acc.view, acc.base, acc.next - acc.base)
                 /\ Shown(fm', seg.view, seg.seg * mode.align, mode.align)
      BY <2>3, <3>1, <3>2, OthersShown
    <3>3. fm'.lost = {} => (seg.view \in Addr => seg.seg \in Nat)
      BY <2>3 DEF IInv, PagesShown, Continues
    <3>4. fm'.lost = {} => Shown(fm', alc'.view, alc'.base, mode.align)
      BY <2>3, <2>5
    <3> QED
      BY <1>1, <3>2, <3>3, <3>4 DEF PagesShown
  <2>9. n \in 1..SegmentSize /\ SegmentSize \in 0..SegmentSize
    BY <1>1, <1>2
  <2>10. ~misled'
    <3>1. CASE m.view = Null
      BY <1>5, <3>1 DEF IInv
    <3>2. CASE m.view # Null
      <4>1. HandOut(m.view, fm.total, SegmentSize, n) /\ ~misled /\ mode' = mode
        BY <1>1, <1>5, <3>2 DEF IInv
      <4> QED
        BY <1>2, <2>1, <2>3, <2>4, <2>9, <4>1, HandOutAnswers
    <3> QED
      BY <3>1, <3>2
  <2>11. Unhanded'
    <3> SUFFICES ASSUME "open" \notin fm.lost PROVE Unhanded'
      BY <2>3 DEF Unhanded, TailsFree, Continues
    <3>1. CASE m.view = Null
      <4>1. Unhanded' <=> /\ ~twice
                          /\ \A x \in handed : x < fm'.total * PageSize
                          /\ TailInFile(alc)' /\ TailInFile(saved)'
                          /\ Tail(alc)' \cap handed = {} /\ Tail(saved)' \cap handed = {}
                          /\ Tail(alc)' \cap Tail(saved)' = {}
        BY <1>5, <2>3, <3>1 DEF Unhanded, TailsFree, Continues
      <4>2. BufferTypeOK(alc)' /\ alc'.free = 0 /\ mode' \in Modes
        BY <1>1, <1>2, <2>5, <2>6, <3>1 DEF MTypeOK
      <4>3. Tail(alc)' = {} /\ TailInFile(alc)'
        <5>1. alc'.base * PageSize \in Int
          BY <2>1, <2>5, MapBuffersAssumption
        <5> QED
          BY <1>2, <4>2, <5>1 DEF Tail, TailInFile
      <4>4. Tail(saved)' = Tail(saved)
        BY <1>1, <1>2 DEF Tail
      <4>5. TailInFile(saved)'
        BY <1>1, <1>2, <2>1, <2>3 DEF IInv, Unhanded, TailsFree, TailInFile, MTypeOK, BufferTypeOK
      <4>6. \A x \in handed : x < fm'.total * PageSize
        <5>1. fm.total * PageSize \in Int /\ fm'.total * PageSize \in Int
              /\ fm.total * PageSize <= fm'.total * PageSize
          <6>1. fm'.total \in Nat /\ fm.total <= fm'.total
            BY <2>3, <2>4 DEF Continues, File
          <6> QED
            BY <2>1, <6>1, MapBuffersAssumption, PagesOrdered
        <5> QED
          BY <1>0, <1>6, <5>1 DEF TailsFree
      <4> QED
        BY <1>6, <4>1, <4>3, <4>4, <4>5, <4>6 DEF TailsFree
    <3>2. CASE m.view # Null
      <4> DEFINE b == [view |-> m.view, base |-> fm.total, free |-> SegmentSize]
                 t == fm.total * PageSize
      <4>1. t \in Nat /\ fm'.total * PageSize = t + SegmentSize
        BY <1>2, <2>1, <2>3, MapBuffersAssumption DEF SegmentSize
      <4>2. Tail(b) = t..(t + (SegmentSize - 1))
        BY <1>2, <4>1 DEF Tail
      <4>3. BufferTypeOK(saved) /\ (saved.free > 0 => saved.base + mode.align <= fm.total)
        BY <1>0, <1>6 DEF TailsFree, TailInFile
      <4>4. \A x \in Tail(saved) : x < t
        BY <1>2, <2>1, <4>3, TailFacts
      <4>5. \A x \in handed : x < t /\ x \in Int
        BY <1>0, <1>6 DEF TailsFree
      <4> HIDE DEF t
      <4>6. Tail(b) \cap handed = {} /\ Tail(b) \cap Tail(saved) = {}
        <5>1. \A x \in Tail(b) : x \in Int /\ t <= x
          BY <1>2, <4>1, <4>2
        <5> QED
          BY <4>1, <4>4, <4>5, <5>1
      <4>7. \A x \in handed : x < fm'.total * PageSize
        BY <1>2, <4>1, <4>5
      <4>8. TailInFile(saved)'
        BY <1>1, <1>2, <2>1, <2>3, <4>3 DEF TailInFile, MTypeOK, BufferTypeOK
      <4>9. /\ ~twice /\ fm.total + mode.align <= fm'.total
            /\ Tail(saved) \cap handed = {}
            /\ HandOut(m.view, fm.total, SegmentSize, n)
        BY <1>2, <1>5, <1>6, <2>1, <2>3, <3>2 DEF TailsFree
      <4> QED
        BY <1>1, <1>2, <2>1, <2>3, <2>4, <2>9, <4>6, <4>7, <4>8, <4>9, HandOutUnhanded
           DEF Unhanded, TailsFree
    <3> QED
      BY <3>1, <3>2
  <2> QED
    BY <2>3, <2>6, <2>7, <2>8, <2>10, <2>11 DEF IInv
<1> QED
  BY <1>4, <1>5 DEF AllocData

\* initBuffer with what a client kept or with nothing.
LEMMA InitBufferIInv ==
  ASSUME IInv, NEW info, BufferTypeOK(info), info.view = Null, InitBuffer(info),
         "open" \notin fm.lost =>
           Tail(info) \cap handed = {} /\ TailInFile(saved)
  PROVE  IInv'
<1>1. UNCHANGED <<mode, acc, seg, misled, handed, twice>> /\ alc.view = Null /\ alc.free = 0
  BY DEF InitBuffer
<1>2. /\ MTypeOK /\ fm \in File /\ LengthKnown(fm)
      /\ mode.align \in Nat \ {0} /\ SegmentSize \in Nat /\ SegmentSize' = SegmentSize
      /\ info \in [view : ViewAddr, base : Nat, free : 0..SegmentSize] /\ info.base \in Nat
  BY <1>1, MapBuffersAssumption DEF IInv, MTypeOK, SegmentSize, BufferTypeOK
<1>3. PICK m \in AccessSegment(fm, info.base, mode.align) :
        /\ fm' = m.fm
        /\ IF m.view = Null THEN UNCHANGED <<alc, saved>>
           ELSE alc' = [info EXCEPT !.view = m.view] /\ saved' = NoBlock
  BY DEF InitBuffer
<1>4. Acquires(fm, m, info.base, mode.align) /\ info.base + mode.align <= m.fm.total
  <2>1. mode.align \in Nat
    BY <1>2
  <2> QED
    BY <1>2, <2>1, AccessAcquires
<1>5. /\ m.view \in ViewAddr /\ Continues(fm, fm') /\ LengthKnown(fm') /\ fm' \in File
      /\ Remapped(fm, fm', {}, Extent(m.view, mode.align))
      /\ info.base + mode.align <= fm'.total
  BY <1>3, <1>4 DEF Acquires, Continues
<1>6. fm'.lost = {} => Shown(fm', m.view, info.base, mode.align)
  <2>1. Null \in ViewAddr /\ mode.align \in Nat /\ 0 \in Int
    BY <1>2 DEF ViewAddr
  <2>2. Acquires(Unmapped(Null, 0), m, info.base, mode.align)
    BY <1>4 DEF Unmapped
  <2>3. m.fm.lost = {} => Shown(m.fm, m.view, info.base, mode.align)
    BY <1>2, <2>1, <2>2, ReplacesView
  <2> QED
    BY <1>3, <2>3
<1>7. /\ alc'.view = m.view
      /\ m.view # Null =>
           /\ alc' = [view |-> m.view, base |-> info.base, free |-> info.free]
           /\ saved' = NoBlock
      /\ m.view = Null => alc' = alc /\ saved' = saved
  BY <1>1, <1>2, <1>3
<1>8. MTypeOK'
  <2>1. BufferTypeOK(alc)' /\ BufferTypeOK(saved)'
    BY <1>2, <1>5, <1>7 DEF MTypeOK, BufferTypeOK, NoBlock, ViewAddr
  <2> QED
    <3>1. saved'.view = Null /\ (alc'.view = Null => alc'.free = 0)
      BY <1>1, <1>2, <1>7 DEF MTypeOK, NoBlock
    <3> QED
      BY <1>1, <1>2, <1>5, <2>1, <3>1 DEF MTypeOK
<1>9. MappingsOwned'
  <2>1. Extent(m.view, mode.align) = AlcExtent'
    BY <1>1, <1>7 DEF AlcExtent
  <2>2. AccExtent' = AccExtent /\ SegExtent' = SegExtent /\ AlcExtent = {}
    BY <1>1 DEF AccExtent, SegExtent, AlcExtent, Extent, Null, Addr
  <2>3. Owned(DOMAIN fm.mem, AlcExtent, AccExtent, SegExtent)
    BY OwnedExtents DEF IInv, Owned
  <2>4. Owned(DOMAIN fm'.mem, AlcExtent', AccExtent, SegExtent)
    BY <1>5, <2>1, <2>2, <2>3, OwnedReplaced
  <2>5. Owned(DOMAIN fm'.mem, AccExtent, SegExtent, AlcExtent')
    BY <2>4 DEF Owned
  <2> QED
    BY <2>2, <2>5, OwnedExtentsAfter
<1>10. PagesShown'
  <2>1. ASSUME fm'.lost = {}
        PROVE  /\ Shown(fm', acc.view, acc.base, acc.next - acc.base)
               /\ Shown(fm', seg.view, seg.seg * mode.align, mode.align)
    BY <1>5, <2>1, OthersShown
  <2>2. fm'.lost = {} => (seg.view \in Addr => seg.seg \in Nat)
    BY <1>5 DEF IInv, PagesShown, Continues
  <2>3. fm'.lost = {} => Shown(fm', alc'.view, alc'.base, mode.align)
    BY <1>1, <1>6, <1>7 DEF Shown, Addr, Null
  <2> QED
    BY <1>1, <2>1, <2>2, <2>3 DEF PagesShown
<1>11. Unhanded'
  <2> SUFFICES ASSUME "open" \notin fm.lost PROVE TailsFree'
    BY <1>5 DEF Unhanded, Continues
  <2>1. TailsFree
    BY DEF IInv, Unhanded
  <2>2. CASE m.view = Null
    BY <1>1, <1>5, <1>7, <2>1, <2>2, UnhandedKept DEF IInv, Unhanded, Continues
  <2>3. CASE m.view # Null
    <3>1. Tail(alc)' = Tail(info)
      BY <1>2, <1>7, <2>3 DEF Tail
    <3>2. saved'.free = 0 /\ Tail(saved)' = {} /\ TailInFile(saved)'
      <4>1. saved' = [view |-> Null, base |-> 0, free |-> 0]
        BY <1>7, <2>3 DEF NoBlock
      <4>2. 0 * PageSize = 0
        BY MapBuffersAssumption
      <4> QED
        BY <1>2, <4>1, <4>2 DEF Tail, TailInFile
    <3>3. TailInFile(alc)'
      BY <1>1, <1>5, <1>7, <2>3 DEF TailInFile
    <3>4. \A x \in handed : x < fm'.total * PageSize
      <4>1. fm.total \in Nat /\ fm'.total \in Nat /\ fm.total <= fm'.total
        BY <1>2, <1>5 DEF Continues, File
      <4>2. fm.total * PageSize \in Int /\ fm'.total * PageSize \in Int
            /\ fm.total * PageSize <= fm'.total * PageSize
        BY <4>1, MapBuffersAssumption, PagesOrdered
      <4>3. \A x \in handed : x \in Nat
        BY <1>2 DEF MTypeOK
      <4> QED
        BY <2>1, <4>2, <4>3 DEF TailsFree
    <3> QED
      BY <1>1, <2>1, <3>1, <3>2, <3>3, <3>4 DEF TailsFree
  <2> QED
    BY <2>2, <2>3
<1> QED
  BY <1>1, <1>5, <1>8, <1>9, <1>10, <1>11 DEF IInv

\* The two ways to begin: with nothing, or where a buffer left off.
LEMMA BeginResumeIInv ==
  ASSUME IInv, Begin \/ Resume
  PROVE  IInv'
<1>1. SegmentSize \in Nat /\ MTypeOK
  BY MapBuffersAssumption DEF IInv, MTypeOK, SegmentSize
<1>2. CASE Begin
  <2> DEFINE info == [NoBlock EXCEPT !.free = SegmentSize]
  <2>1. info = [view |-> Null, base |-> 0, free |-> SegmentSize]
    BY DEF NoBlock
  <2>2. BufferTypeOK(info) /\ info.view = Null
    BY <1>1, <2>1 DEF BufferTypeOK, ViewAddr
  <2>3. InitBuffer(info) /\ handed = {}
    BY <1>2 DEF Begin
  <2>4. "open" \notin fm.lost => TailInFile(saved)
    BY DEF IInv, Unhanded, TailsFree
  <2> HIDE DEF info
  <2> QED
    BY <2>2, <2>3, <2>4, InitBufferIInv
<1>3. CASE Resume
  <2>1. InitBuffer(saved) /\ BufferTypeOK(saved)
    BY <1>1, <1>3 DEF Resume, MTypeOK
  <2>2. saved.view = Null
    BY DEF IInv, MTypeOK
  <2>3. "open" \notin fm.lost => Tail(saved) \cap handed = {} /\ TailInFile(saved)
    BY DEF IInv, Unhanded, TailsFree
  <2> QED
    BY <2>1, <2>2, <2>3, InitBufferIInv
<1> QED
  BY <1>2, <1>3

-----------------------------------------------------------------------------
\* Closing and opening

\* What a close releases is the buffer's own.
LEMMA CloseAccessIInv ==
  ASSUME IInv, CloseAccess
  PROVE  IInv'
<1> DEFINE n == acc.next - acc.base
<1>1. /\ UNCHANGED <<mode, seg, alc, saved, misled, handed, twice>> /\ acc' = NoView
      /\ fm' = Unmapped(acc.view, n)
  BY DEF CloseAccess, Unmapped
<1>2. acc.view \in ViewAddr /\ n \in Int /\ MTypeOK
  BY DEF IInv, MTypeOK
<1>3. /\ fm' \in File /\ Remapped(fm, fm', AccExtent, {})
      /\ fm'.total = fm.total /\ fm'.size = fm.size /\ fm'.lost = fm.lost
  <2>1. n = acc.next - acc.base
    OBVIOUS
  <2> HIDE DEF n
  <2> QED
    BY <1>1, <1>2, <2>1, UnmappedFacts DEF AccExtent
<1> HIDE DEF n
<1>4. Continues(fm, fm') /\ LengthKnown(fm')
  BY <1>2, <1>3 DEF Continues, LengthKnown, IInv, MTypeOK, File
<1>5. MTypeOK'
  <2>1. NoView \in [view : ViewAddr, base : Nat, next : Nat]
    BY MapBuffersAssumption DEF NoView, ViewAddr, LongMax
  <2> QED
    BY <1>1, <1>2, <1>3, <2>1 DEF MTypeOK, BufferTypeOK, SegmentSize
<1>6. MappingsOwned'
  <2>1. AccExtent' = {} /\ SegExtent' = SegExtent /\ AlcExtent' = AlcExtent
    BY <1>1 DEF AccExtent, SegExtent, AlcExtent, Extent, NoView, Null, Addr
  <2> QED
    BY <1>3, <2>1, OwnedExtents, OwnedReplaced, OwnedExtentsAfter DEF IInv
<1>7. PagesShown'
  <2>1. SegExtent \cap AccExtent = {} /\ AlcExtent \cap AccExtent = {}
    BY OwnedExtents DEF IInv, Owned
  <2>2. ASSUME fm'.lost = {}
        PROVE  /\ Shown(fm', seg.view, seg.seg * mode.align, mode.align)
               /\ Shown(fm', alc.view, alc.base, mode.align)
    BY <1>3, <1>4, <2>1, <2>2, OthersShown
  <2>3. Shown(fm', acc'.view, acc'.base, acc'.next - acc'.base)
    BY <1>1 DEF Shown, NoView, Addr, Null
  <2> QED
    BY <1>1, <1>3, <2>2, <2>3 DEF IInv, PagesShown
<1>8. Unhanded'
  BY <1>1, <1>4, UnhandedKept DEF IInv
<1> QED
  BY <1>1, <1>4, <1>5, <1>6, <1>7, <1>8 DEF IInv

\* Closing the segment buffer.
LEMMA CloseSegmentIInv ==
  ASSUME IInv, CloseSegment
  PROVE  IInv'
<1>1. /\ UNCHANGED <<mode, acc, alc, saved, misled, handed, twice>> /\ seg' = NoSegment
      /\ fm' = Unmapped(seg.view, mode.align)
  BY DEF CloseSegment, Unmapped
<1>2. seg.view \in ViewAddr /\ mode.align \in Int /\ MTypeOK
  BY MapBuffersAssumption DEF IInv, MTypeOK
<1>3. /\ fm' \in File /\ Remapped(fm, fm', SegExtent, {})
      /\ fm'.total = fm.total /\ fm'.size = fm.size /\ fm'.lost = fm.lost
  BY <1>1, <1>2, UnmappedFacts DEF SegExtent
<1>4. Continues(fm, fm') /\ LengthKnown(fm')
  BY <1>2, <1>3 DEF Continues, LengthKnown, IInv, MTypeOK, File
<1>5. MTypeOK'
  <2>1. NoSegment \in [view : ViewAddr, seg : Nat \cup {NoSeg}]
    BY DEF NoSegment, ViewAddr
  <2> QED
    BY <1>1, <1>2, <1>3, <2>1 DEF MTypeOK, BufferTypeOK, SegmentSize
<1>6. MappingsOwned'
  <2>1. AccExtent' = AccExtent /\ SegExtent' = {} /\ AlcExtent' = AlcExtent
    BY <1>1 DEF AccExtent, SegExtent, AlcExtent, Extent, NoSegment, Null, Addr
  <2>2. Owned(DOMAIN fm.mem, SegExtent, AccExtent, AlcExtent)
    BY OwnedExtents DEF IInv, Owned
  <2>3. Owned(DOMAIN fm'.mem, {}, AccExtent, AlcExtent)
    BY <1>3, <2>2, OwnedReplaced
  <2>4. Owned(DOMAIN fm'.mem, AccExtent, {}, AlcExtent)
    BY <2>3 DEF Owned
  <2> QED
    BY <2>1, <2>4, OwnedExtentsAfter
<1>7. PagesShown'
  <2>1. AccExtent \cap SegExtent = {} /\ AlcExtent \cap SegExtent = {}
    BY OwnedExtents DEF IInv, Owned
  <2>2. ASSUME fm'.lost = {}
        PROVE  /\ Shown(fm', acc.view, acc.base, acc.next - acc.base)
               /\ Shown(fm', alc.view, alc.base, mode.align)
    BY <1>3, <1>4, <2>1, <2>2, OthersShown
  <2>3. seg'.view \notin Addr
    BY <1>1 DEF NoSegment, Addr, Null
  <2> QED
    BY <1>1, <2>2, <2>3 DEF PagesShown, Shown
<1>8. Unhanded'
  BY <1>1, <1>4, UnhandedKept DEF IInv
<1> QED
  BY <1>1, <1>4, <1>5, <1>6, <1>7, <1>8 DEF IInv

\* What a closed buffer had left goes to the client, who may resume it.
LEMMA CloseAllocIInv ==
  ASSUME IInv, CloseAlloc
  PROVE  IInv'
<1>1. /\ UNCHANGED <<mode, acc, seg, misled, handed, twice>>
      /\ fm' = Unmapped(alc.view, mode.align)
  BY DEF CloseAlloc, Unmapped
<1>2. /\ mode.align \in Int /\ MTypeOK /\ SegmentSize' = SegmentSize
      /\ alc \in [view : ViewAddr, base : Nat, free : 0..SegmentSize]
      /\ SegmentSize \in Nat
  BY <1>1, MapBuffersAssumption DEF IInv, MTypeOK, BufferTypeOK, SegmentSize
<1>3. /\ saved' = [view |-> Null, base |-> alc.base, free |-> alc.free]
      /\ alc' = [view |-> Null, base |-> alc.base, free |-> 0]
  BY <1>2 DEF CloseAlloc
<1>4. /\ fm' \in File /\ Remapped(fm, fm', AlcExtent, {})
      /\ fm'.total = fm.total /\ fm'.size = fm.size /\ fm'.lost = fm.lost
  BY <1>1, <1>2, UnmappedFacts DEF AlcExtent
<1>5. Continues(fm, fm') /\ LengthKnown(fm')
  BY <1>2, <1>4 DEF Continues, LengthKnown, IInv, MTypeOK, File
<1>6. MTypeOK'
  <2>1. BufferTypeOK(alc)' /\ BufferTypeOK(saved)'
    BY <1>2, <1>3 DEF BufferTypeOK, ViewAddr
  <2> QED
    BY <1>1, <1>2, <1>3, <1>4, <2>1 DEF MTypeOK
<1>7. MappingsOwned'
  <2>1. AccExtent' = AccExtent /\ SegExtent' = SegExtent /\ AlcExtent' = {}
    BY <1>1, <1>3 DEF AccExtent, SegExtent, AlcExtent, Extent, Null, Addr
  <2>2. Owned(DOMAIN fm.mem, AlcExtent, AccExtent, SegExtent)
    BY OwnedExtents DEF IInv, Owned
  <2>3. Owned(DOMAIN fm'.mem, {}, AccExtent, SegExtent)
    BY <1>4, <2>2, OwnedReplaced
  <2>4. Owned(DOMAIN fm'.mem, AccExtent, SegExtent, {})
    BY <2>3 DEF Owned
  <2> QED
    BY <2>1, <2>4, OwnedExtentsAfter
<1>8. PagesShown'
  <2>1. AccExtent \cap AlcExtent = {} /\ SegExtent \cap AlcExtent = {}
    BY OwnedExtents DEF IInv, Owned
  <2>2. ASSUME fm'.lost = {}
        PROVE  /\ Shown(fm', acc.view, acc.base, acc.next - acc.base)
               /\ Shown(fm', seg.view, seg.seg * mode.align, mode.align)
    BY <1>4, <1>5, <2>1, <2>2, OthersShown
  <2>3. alc'.view \notin Addr
    BY <1>3 DEF Addr, Null
  <2> QED
    BY <1>1, <1>4, <2>2, <2>3 DEF IInv, PagesShown, Shown
<1>9. Unhanded'
  <2> SUFFICES ASSUME "open" \notin fm.lost PROVE TailsFree'
    BY <1>4 DEF Unhanded
  <2>1. TailsFree
    BY DEF IInv, Unhanded
  <2>2. Tail(saved)' = Tail(alc)
    BY <1>2, <1>3 DEF Tail
  <2>3. Tail(alc)' = {}
    <3>1. alc.base * PageSize \in Nat
      BY <1>2, MapBuffersAssumption
    <3> QED
      BY <1>2, <1>3, <3>1 DEF Tail
  <2>4. TailInFile(saved)' /\ TailInFile(alc)'
    BY <1>1, <1>3, <1>4, <2>1 DEF TailsFree, TailInFile
  <2> QED
    BY <1>1, <1>4, <2>1, <2>2, <2>3, <2>4 DEF TailsFree
<1> QED
  BY <1>1, <1>5, <1>6, <1>7, <1>8, <1>9 DEF IInv

\* The file is closed and opened again, whether that succeeds or not.
LEMMA OpenIInv ==
  ASSUME IInv, Reopen \/ OpenAgain
  PROVE  IInv'
<1>1. /\ MTypeOK /\ fm \in File /\ UNCHANGED <<mode, acc, seg, alc, misled>>
      /\ \A n \in (IF mode.readOnly THEN 0..MaxPages ELSE {0}) : n \in Nat
      /\ SegmentSize' = SegmentSize /\ SegmentSize \in Nat
  BY MapBuffersAssumption DEF IInv, MTypeOK, Reopen, OpenAgain, SegmentSize
<1>2. CASE Reopen
  <2>1. /\ acc.view = Null /\ seg.view = Null /\ alc.view = Null
        /\ saved' = NoBlock /\ handed' = {} /\ twice' = FALSE
    BY <1>2 DEF Reopen
  <2>2. PICK n \in Nat : fm' = Opened(fm, n)
    BY <1>1, <1>2 DEF Reopen
  <2>3. fm' \in File /\ fm'.mem = fm.mem /\ fm'.size = n /\ fm'.total = n /\ fm'.lost = {}
    BY <1>1, <2>2 DEF Opened, File
  <2>4. MTypeOK'
    <3>1. BufferTypeOK(saved)' /\ saved'.view = Null /\ BufferTypeOK(alc)'
      BY <1>1, <2>1 DEF BufferTypeOK, NoBlock, ViewAddr, MTypeOK
    <3> QED
      BY <1>1, <2>1, <2>3, <3>1 DEF MTypeOK
  <2>5. MappingsOwned'
    BY <1>1, <2>3 DEF IInv, MappingsOwned
  <2>6. PagesShown'
    BY <1>1, <2>1 DEF PagesShown, Shown, Addr, Null
  <2>7. TailsFree'
    <3>1. alc'.free = 0 /\ saved'.free = 0 /\ alc'.base \in Nat /\ saved'.base \in Nat
      BY <1>1, <2>1 DEF MTypeOK, BufferTypeOK, NoBlock
    <3>2. alc'.base * PageSize \in Nat /\ saved'.base * PageSize \in Nat
      BY <3>1, MapBuffersAssumption
    <3>3. Tail(alc)' = {} /\ Tail(saved)' = {}
      BY <1>1, <3>1, <3>2 DEF Tail
    <3>4. TailInFile(alc)' /\ TailInFile(saved)'
      BY <3>1 DEF TailInFile
    <3> QED
      BY <2>1, <3>3, <3>4 DEF TailsFree
  <2> QED
    BY <1>1, <2>3, <2>4, <2>5, <2>6, <2>7 DEF IInv, LengthKnown, Unhanded
<1>3. CASE OpenAgain
  <2>1. UNCHANGED <<saved, handed, twice>>
    BY <1>3 DEF OpenAgain
  <2>2. PICK n \in Nat : fm' = RefusedOpen(fm, n)
    BY <1>1, <1>3 DEF OpenAgain
  <2>3. fm.lost \cup {"open"} \in SUBSET {"resize", "open"}
    BY <1>1 DEF File
  <2>4. fm' \in File /\ fm'.mem = fm.mem /\ fm'.lost = fm.lost \cup {"open"}
    BY <1>1, <2>2, <2>3 DEF RefusedOpen, File
  <2>5. MTypeOK'
    BY <1>1, <2>1, <2>4 DEF MTypeOK, BufferTypeOK
  <2>6. MappingsOwned'
    BY <1>1, <2>4 DEF IInv, MappingsOwned
  <2> QED
    BY <1>1, <2>4, <2>5, <2>6 DEF IInv, LengthKnown, PagesShown, Unhanded
<1> QED
  BY <1>2, <1>3

-----------------------------------------------------------------------------
\* The theorems

\* Nothing is mapped and nothing handed out at first.
LEMMA MInitIInv == MInit => IInv
<1> SUFFICES ASSUME MInit PROVE IInv
  OBVIOUS
<1> USE DEF MInit
<1>1. PICK n \in Nat :
        fm = [size |-> n, total |-> n, mem |-> << >>, failed |-> mode.failed, faults |-> 0, lost |-> {}]
  <2>1. \A n \in 0..MaxPages : n \in Nat
    OBVIOUS
  <2> QED
    BY <2>1
<1>2. << >> \in Memory /\ DOMAIN << >> = {}
  <2>1. << >> \in [{} -> Nat]
    OBVIOUS
  <2> QED
    BY <2>1 DEF Memory
<1>3. mode.failed \in {Null, MapFailed} /\ mode \in Modes /\ SegmentSize \in Nat
  BY MapBuffersAssumption DEF SegmentSize
<1>4. fm \in File /\ DOMAIN fm.mem = {} /\ fm.size = fm.total /\ fm.total \in Nat /\ fm.lost = {}
  BY <1>1, <1>2, <1>3 DEF File
<1>5. MTypeOK
  BY <1>3, <1>4, MapBuffersAssumption
     DEF MTypeOK, BufferTypeOK, ViewAddr, NoView, NoSegment, NoBlock, LongMax
<1>6. Null \notin Addr
  BY DEF Null, Addr
<1>7. MappingsOwned
  BY <1>4, <1>6, OwnedExtents DEF Owned, AccExtent, SegExtent, AlcExtent, Extent,
     NoView, NoSegment, NoBlock
<1>8. TailsFree
  <2>1. 0 * PageSize = 0
    BY MapBuffersAssumption
  <2> QED
    BY <1>3, <2>1 DEF TailsFree, Tail, TailInFile, NoBlock
<1> QED
  BY <1>4, <1>5, <1>6, <1>7, <1>8
     DEF IInv, LengthKnown, PagesShown, Shown, Unhanded, NoView, NoSegment, NoBlock

\* Every step keeps the inductive invariant.
LEMMA MStepIInv == SegmentsWhole /\ IInv /\ [MNext]_mvars => IInv'
<1> SUFFICES ASSUME SegmentsWhole, IInv, [MNext]_mvars PROVE IInv'
  OBVIOUS
<1>1. \A x \in 0..(MaxPages * PageSize - 1) : x \in Nat
  OBVIOUS
<1>2. \A x \in 1..MaxAsk : x \in Nat /\ x \in Nat \ {0}
  OBVIOUS
<1>3. ASSUME NEW pos \in 0..(MaxPages * PageSize - 1), NEW len \in 1..MaxAsk, View(pos, len)
      PROVE  IInv'
  BY <1>1, <1>2, <1>3, ViewIInv
<1>4. ASSUME NEW pos \in 0..(MaxPages * PageSize - 1), ViewInSegment(pos)
      PROVE  IInv'
  BY <1>1, <1>4, ViewInSegmentIInv
<1>5. ASSUME NEW n \in 1..MaxAsk, AllocData(n)
      PROVE  IInv'
  BY <1>2, <1>5, AllocDataIInv
<1>6. CASE Begin \/ Resume
  BY <1>6, BeginResumeIInv
<1>7. CASE CloseAccess \/ CloseSegment \/ CloseAlloc
  BY <1>7, CloseAccessIInv, CloseSegmentIInv, CloseAllocIInv
<1>8. CASE Reopen \/ OpenAgain
  BY <1>8, OpenIInv
<1>9. CASE UNCHANGED mvars
  BY <1>9 DEF mvars, IInv, MTypeOK, BufferTypeOK, MappingsOwned, PagesShown, Unhanded, TailsFree,
     Tail, TailInFile, SegmentSize
<1> QED
  BY <1>3, <1>4, <1>5, <1>6, <1>7, <1>8, <1>9 DEF MNext

(***************************************************************************)
(* Every state of the three buffers over one mapped file satisfies the     *)
(* inductive invariant.                                                    *)
(***************************************************************************)
THEOREM MapInvariance ==
  ASSUME SegmentsWhole
  PROVE  MSpec => []IInv
<1>1. IInv /\ [MNext]_mvars => IInv'
  BY MStepIInv
<1> QED
  BY <1>1, MInitIInv, PTL DEF MSpec

(***************************************************************************)
(* What is mapped is the view of one buffer, whichever calls failed.       *)
(***************************************************************************)
THEOREM MappingsCorrect ==
  ASSUME SegmentsWhole
  PROVE  MSpec => []MappingsOwned
<1>1. IInv => MappingsOwned
  BY DEF IInv
<1> QED
  BY <1>1, MapInvariance, PTL

(***************************************************************************)
(* No byte of the file is handed out twice.                                *)
(***************************************************************************)
THEOREM HandingOutCorrect ==
  ASSUME SegmentsWhole
  PROVE  MSpec => []HandedOutOnce
<1>1. IInv => HandedOutOnce
  BY DEF IInv, HandedOutOnce, Unhanded, TailsFree
<1> QED
  BY <1>1, MapInvariance, PTL

\* A view that shows its pages shows their bytes.
LEMMA ShownShows ==
  ASSUME NEW view, NEW base \in Nat, NEW n \in Int,
         Shown(fm, view, base, n)
  PROVE  Shows(view, base, n)
<1> SUFFICES ASSUME view \in Addr
             PROVE  Backed(fm, view * PageSize, base * PageSize, n * PageSize)
  BY DEF Shows
<1>0. CASE n < 0
  <2>1. n * PageSize <= 0
    BY <1>0, MapBuffersAssumption
  <2>2. 0..(n * PageSize - 1) = {}
    BY <2>1, MapBuffersAssumption
  <2> QED
    BY <2>2 DEF Backed
<1> SUFFICES ASSUME n \in Nat PROVE Backed(fm, view * PageSize, base * PageSize, n * PageSize)
  BY <1>0
<1>1. /\ base * PageSize \in Nat /\ n * PageSize \in Nat /\ view * PageSize \in Nat
      /\ base * PageSize + n * PageSize = (base + n) * PageSize
  BY MapBuffersAssumption, PagesOrdered DEF Addr
<1>2. Backed(fm, view * PageSize + (base * PageSize - base * PageSize), base * PageSize, n * PageSize)
  BY <1>1, ShownBacked
<1>3. view * PageSize + (base * PageSize - base * PageSize) = view * PageSize
  BY <1>1
<1> QED
  BY <1>2, <1>3

(***************************************************************************)
(* Where an answer points there are the bytes it was asked for, until the  *)
(* next call of the same buffer.                                           *)
(***************************************************************************)
THEOREM AnswersCorrect ==
  ASSUME SegmentsWhole
  PROVE  MSpec => []AnswersBacked
<1>1. ASSUME IInv PROVE AnswersBacked
  <2> SUFFICES ASSUME fm.lost = {}
               PROVE  /\ Shows(acc.view, acc.base, acc.next - acc.base)
                      /\ Shows(seg.view, seg.seg * mode.align,
                               Least(mode.align, fm.size - seg.seg * mode.align))
                      /\ Shows(alc.view, alc.base, mode.align)
    BY <1>1 DEF AnswersBacked, IInv
  <2>1. /\ mode.align \in Nat \ {0} /\ acc.base \in Nat /\ acc.next - acc.base \in Int
        /\ alc.base \in Nat /\ fm.size \in Nat
    BY <1>1, MapBuffersAssumption DEF IInv, MTypeOK, BufferTypeOK, File
  <2>2. /\ Shown(fm, acc.view, acc.base, acc.next - acc.base)
        /\ seg.view \in Addr => seg.seg \in Nat
        /\ Shown(fm, seg.view, seg.seg * mode.align, mode.align)
        /\ Shown(fm, alc.view, alc.base, mode.align)
    BY <1>1 DEF IInv, PagesShown
  <2>3. Shows(alc.view, alc.base, mode.align) /\ Shows(acc.view, acc.base, acc.next - acc.base)
    BY <2>1, <2>2, ShownShows
  <2>4. CASE seg.view \notin Addr
    BY <2>3, <2>4 DEF Shows
  <2>5. CASE seg.view \in Addr
    <3> DEFINE base == seg.seg * mode.align
    <3>1. base \in Nat
      BY <2>1, <2>2, <2>5
    <3> HIDE DEF base
    <3>2. Shown(fm, seg.view, base, mode.align)
      BY <2>2 DEF base
    <3>3. mode.align - 1 \in 0..(mode.align - 1)
      BY <2>1
    <3>4. base + (mode.align - 1) < fm.size
      BY <2>5, <3>2, <3>3 DEF Shown
    <3>5. Least(mode.align, fm.size - base) = mode.align
      BY <2>1, <3>1, <3>4 DEF Least
    <3>6. Shows(seg.view, base, mode.align)
      BY <2>1, <3>1, <3>2, ShownShows
    <3> QED
      BY <2>3, <3>5, <3>6 DEF base
  <2> QED
    BY <2>4, <2>5
<1> QED
  BY <1>1, MapInvariance, PTL
=============================================================================
