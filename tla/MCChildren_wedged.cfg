SPECIFICATION MCAloneSpec
CONSTANTS
  MaxSaves = 3
  MaxPings = 1
  Symbols = 2
  MaxChunks = 2
  MaxOutput = 1
  PipeSize = 1
  MaxSpecs = 4
  CatPipe = 1
PROPERTY WedgedQueryEnds
CHECK_DEADLOCK FALSE
