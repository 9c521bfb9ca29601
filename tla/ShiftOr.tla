------------------------------- MODULE ShiftOr -------------------------------
(***************************************************************************)
(* stdext/search/ShiftOr.h: a finder that keeps, while it reads a text,    *)
(* one bit for every beginning of the pattern: clear if the text read so   *)
(* far ends with it.  A bitmap is the set of the bits that are set; it is  *)
(* a word of width bits, or as long as the pattern (VariantBitmap, width   *)
(* 0 here).  A step of a search is one character.                          *)
(***************************************************************************)
EXTENDS Patterns

CONSTANT Width    \* the widths of bitmaps

ASSUME ShiftOrAssumption == Width \subseteq Nat

VARIABLES
  otext,     \* what the archive holds
  opos,      \* where the archive stands
  ofrom,     \* history: where it stood when the search began
  ostr,      \* history: the pattern the masks were made for
  size,      \* m_size
  masks,     \* m_bitmap
  bits,      \* d of next
  width,     \* of the bitmaps
  wraps,     \* whether a shift by the word's width or more wraps around
  opc,       \* where the finder is: "idle" or "read"
  oresult    \* the HRESULT of the last call

ovars == <<otext, opos, ofrom, ostr, size, masks, bits, width, wraps, opc, oresult>>

\* Where 1 << n has its bit.  A shift by the word's width or more is undefined:
\* the machine takes n modulo the width, a compiler may leave no bit at all.
ShiftedBit(n) ==
  IF width = 0 \/ n < width THEN n ELSE IF wraps THEN n % width ELSE width

\* Mutant: one bit too few.
InitTrueShort(n) == 0..(ShiftedBit(n) - 2)

InitTrue(n) == 0..(ShiftedBit(n) - 1)
TestBit(n) == ShiftedBit(n - 1)
Top == IF width = 0 THEN size ELSE width
LeftShift(b) == {i + 1 : i \in b} \cap 0..(Top - 1)

OInit ==
  /\ otext \in Text
  /\ opos = 0 /\ ofrom = 0
  /\ ostr = << >> /\ size = 0
  /\ masks = [c \in Char |-> {}] /\ bits = {}
  /\ width \in Width /\ wraps \in BOOLEAN
  /\ opc = "idle" /\ oresult = "S_OK"
-----------------------------------------------------------------------------
\* initPattern of an empty pattern, or of one too long for a word; the latter
\* is refused when its size has been stored, which an assertion forbids.
ORefusePattern(p) ==
  /\ opc = "idle"
  /\ \/ p = << >> /\ UNCHANGED size
     \/ width # 0 /\ Len(p) > width /\ size' = Len(p)
  /\ oresult' = "E_INVALIDARG"
  /\ UNCHANGED <<otext, opos, ofrom, ostr, masks, bits, width, wraps, opc>>

OInitPattern(p) ==
  /\ opc = "idle" /\ p # << >> /\ (width # 0 => Len(p) <= width)
  /\ ostr' = p /\ size' = Len(p)
  /\ masks' = [c \in Char |-> InitTrue(Len(p)) \ {i - 1 : i \in {j \in DOMAIN p : p[j] = c}}]
  /\ oresult' = "S_OK"
  /\ UNCHANGED <<otext, opos, ofrom, bits, width, wraps, opc>>

\* next(ar)
OSearch ==
  /\ opc = "idle"
  /\ IF size = 0
     THEN oresult' = "E_ACCESSDENIED" /\ UNCHANGED <<ofrom, bits, opc>>
     ELSE ofrom' = opos /\ bits' = InitTrue(size) /\ opc' = "read" /\ UNCHANGED oresult
  /\ UNCHANGED <<otext, opos, ostr, size, masks, width, wraps>>

OReturn(hr) == opc' = "idle" /\ oresult' = hr /\ bits' = {} /\ ofrom' = 0

ORead ==
  /\ opc = "read"
  /\ IF opos = Len(otext)
     THEN OReturn("S_FALSE") /\ UNCHANGED opos
     ELSE LET next == LeftShift(bits) \cup masks[otext[opos + 1]] IN
          /\ opos' = opos + 1
          /\ IF TestBit(size) \in next
             THEN bits' = next /\ UNCHANGED <<ofrom, opc, oresult>>
             ELSE OReturn("S_OK")
  /\ UNCHANGED <<otext, ostr, size, masks, width, wraps>>

OSeekTo(p) ==
  /\ opc = "idle"
  /\ opos' = p
  /\ UNCHANGED <<otext, ofrom, ostr, size, masks, bits, width, wraps, opc, oresult>>

ONext ==
  \/ \E p \in Pattern : ORefusePattern(p) \/ OInitPattern(p)
  \/ OSearch
  \/ ORead
  \/ \E p \in 0..Len(otext) : OSeekTo(p)

OSpec == OInit /\ [][ONext]_ovars
-----------------------------------------------------------------------------
\* No shift wraps around: the pattern does not fill the word, or fills it in
\* a build where that does no harm.
Sound == width = 0 \/ size < width \/ (size = width /\ ~wraps)

\* A search ends behind the first occurrence from where it began, or at the
\* end of a text without one.
FirstOccurrence(end, found) ==
  /\ \A e \in ofrom..Len(otext) : Occurs(ostr, otext, ofrom, e) => found /\ end <= e
  /\ IF found THEN Occurs(ostr, otext, ofrom, end) ELSE end = Len(otext)

FindsFirst ==
  [][opc = "read" /\ opc' = "idle" /\ Sound => FirstOccurrence(opos', oresult' = "S_OK")]_ovars
=============================================================================
