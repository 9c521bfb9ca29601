\* Segments of two pages over files of up to two, which need not end where a
\* segment does.
CONSTANTS
  MaxAddr = 4
  MaxFaults = 0
  Modes <- ReadModes
  PageSize = 2
  MaxPages = 2
  MaxGrown = 2
  MaxAsk = 3
SPECIFICATION MSpec
INVARIANT AnswersBacked
CHECK_DEADLOCK FALSE
