------------------------------ MODULE MapFile -------------------------------
(***************************************************************************)
(* stdext/mmap/FileMapping.h over mapfile/MMap.h: a file of which ranges   *)
(* of pages are mapped into memory.  A mapped file is a record of          *)
(*   size    the file's length, in pages of the mapping's granularity,     *)
(*   total   m_nTotalPage, what FileMapping takes for that length,         *)
(*   mem     the file's page behind every mapped page of memory,           *)
(*   failed  what map returns when it fails: NULL on Windows, but          *)
(*           MAP_FAILED from mmap, which nothing here tests for,           *)
(*   faults  how many calls of the operating system have failed,           *)
(*   lost    history: "resize" when a failed one was ignored, "open" when  *)
(*           one was refused.                                              *)
(* An operation that may fail is the set of its outcomes, each a mapped    *)
(* file and the address of the view.                                       *)
(***************************************************************************)
EXTENDS Integers

CONSTANTS
  MaxAddr,    \* pages of memory there are to map to
  MaxFaults   \* bound: failing calls of the operating system

ASSUME MapFileAssumption == MaxAddr \in Nat /\ MaxFaults \in Nat

Addr == 1..MaxAddr
Null == 0
MapFailed == -1
Least(m, n) == IF m < n THEN m ELSE n

Fails(fm) == IF fm.faults < MaxFaults THEN {[fm EXCEPT !.faults = @ + 1]} ELSE {}

\* mmap puts a view where there is room, as high as it can.
Fits(fm, a, n) == a..(a + n - 1) \subseteq Addr \ DOMAIN fm.mem
Room(fm, n) == {a \in Addr : Fits(fm, a, n) /\ \A h \in Addr : h > a => ~Fits(fm, h, n)}

Laid(mem, a, base, n) ==
  [x \in DOMAIN mem \cup a..(a + n - 1) |-> IF x \in a..(a + n - 1) THEN base + x - a ELSE mem[x]]

Map(fm, base, n) ==
  {[fm |-> [fm EXCEPT !.mem = Laid(@, a, base, n)], view |-> a] : a \in Room(fm, n)}
  \cup {[fm |-> g, view |-> fm.failed] : g \in Fails(fm)}
  \cup IF Room(fm, n) = {} THEN {[fm |-> fm, view |-> fm.failed]} ELSE {}

\* munmap takes what is mapped in the range, by whomever; MAP_FAILED is refused.
Unmap(fm, view, n) ==
  IF view = MapFailed THEN fm
  ELSE [fm EXCEPT !.mem = [x \in DOMAIN @ \ (view..(view + n - 1)) |-> @[x]]]

\* ftruncate, whose result is ignored
Resize(fm, n) ==
  {[fm EXCEPT !.size = n]} \cup {[g EXCEPT !.lost = @ \cup {"resize"}] : g \in Fails(fm)}
-----------------------------------------------------------------------------
ViewSegment(fm, base, n) ==
  IF base >= fm.total THEN {[fm |-> fm, view |-> Null]}
  ELSE Map(fm, base, Least(n, fm.total - base))

AccessSegment(fm, base, n) ==
  LET grown == IF base + n > fm.total
                 THEN Resize([fm EXCEPT !.total = base + n], base + n)
                 ELSE {fm}
  IN UNION {Map(g, base, n) : g \in grown}

\* The segment's first page is the total before the call.
AllocSegment(fm, n) ==
  UNION {Map(g, fm.total, n) : g \in Resize([fm EXCEPT !.total = @ + n], fm.total + n)}
-----------------------------------------------------------------------------
\* A file opened for reading keeps its size, one opened for writing is emptied.
Opened(fm, n) == [fm EXCEPT !.size = n, !.total = n, !.lost = {}]

\* open of a mapping that is open is refused, after it has reset the count of
\* pages: to zero when writing, to an uninitialised size when reading.
RefusedOpen(fm, total) == [fm EXCEPT !.total = total, !.lost = @ \cup {"open"}]
=============================================================================
