CONSTANTS
  CopyMax = 2
  LazyThreshold = 2
  FillThreshold = 2
  DeepDepth = 3
  DeepSize = 100
  MaxDepth = 4
  BufLen = 4
  PathLen = 2
  Careful = FALSE
  Scenes <- Produced
  Others <- NoText
  Char = {}
  Texts <- NoText
  MaxSize = 6
  MaxEdits = 0
SPECIFICATION RSpec
INVARIANT BufferValid
CHECK_DEADLOCK FALSE
