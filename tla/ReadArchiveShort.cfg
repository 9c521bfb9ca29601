\* A buffer of four bytes over a file of nine: requests of nothing, of a part,
\* of exactly a buffer, of two and a bit, and past the end; a peek that makes
\* the buffer grow, and one that moves overlapping ranges.
CONSTANTS
  FileSize = 9
  BufSize = 4
  RoundSize = 4
  MaxAsk = 9
SPECIFICATION Spec
INVARIANT PositionAtWindowEnd
