CONSTANTS
  MaxAddr = 3
  MaxFaults = 1
  Modes <- MapModes
  PageSize = 2
  MaxPages = 3
  MaxGrown = 2
  MaxAsk = 2
  BufSize = 2
  Byte <- MCByte
  Hole = 99
  OldContent <- Old
  WriteModes = {"write", "append"}
  MaxShort = 1
  MaxSize = 5
  MaxPut = 4
  MaxByte = 5
SPECIFICATION MCSpec
INVARIANTS
  InOrderOnce
  AnswersBacked
  MappingsOwned
  HandedOutOnce
PROPERTIES
  ImplementsReadStream
  ImplementsWriteStream
  AppendKeepsContent
CHECK_DEADLOCK FALSE
