CONSTANTS
  f1 = f1
  f2 = f2
  p = p
  q = q
  Nodes = {0, 1, 2, 3, 4, 5, 6}
  Files <- MCFiles
  Kinds <- MCKinds
  Threshold = 1000
  Names = {p, q}
  Module = Module
  NoFile = NoFile
  FileOrder <- MCOrder
  Texts <- MovingTexts
  Absent = Absent
  Unread = Unread
  NoCache = NoCache
  Torn = Torn
  ChurnFactor = 1
  MaxEdits = 3
  MayDisturb = FALSE
  MayLock = FALSE
SPECIFICATION Spec
INVARIANT
  SameSymbols
CHECK_DEADLOCK FALSE
