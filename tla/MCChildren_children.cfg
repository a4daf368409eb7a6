SPECIFICATION MCSpec
CONSTANTS
  MaxSaves = 3
  MaxPings = 1
  Symbols = 2
  MaxChunks = 2
  MaxOutput = 1
  PipeSize = 1
  MaxSpecs = 4
  CatPipe = 1
INVARIANTS
  FactsAreVerified
PROPERTIES
  SavesAreHandled
  OutputIsWholeOrRefused
  ObjectsAreAnswered
CHECK_DEADLOCK FALSE
