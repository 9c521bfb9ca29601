CONSTANTS
  CopyMax = 23
  LazyThreshold = 128
  FillThreshold = 32
  DeepDepth = 20
  DeepSize = 1000
  MaxDepth = 45
  BufLen = 15
  PathLen = 4
  Careful = TRUE
  Scenes <- TwoPieces
  Others <- NoText
  Char = {}
  Texts <- LongText
  MaxSize = 100
  MaxEdits = 1
SPECIFICATION RSpec
INVARIANT BalanceAsserted
CHECK_DEADLOCK FALSE
