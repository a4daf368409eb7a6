SPECIFICATION FairServerSpec
CONSTANTS
  c1 = c1 c2 = c2 c3 = c3 c4 = c4
  Conns = {c1, c2, c3, c4}
  Asks <- Few
  Untrusted = {c4}
  MaxConns = 2
  Queue = 1
  MaxRecords = 2
INVARIANTS
  SlotsAreThreads
  DropsAccounted
  CallsAccountedAtExit
PROPERTIES
  KeepsLedger
  StopsInTime
  SlotsComeBack
CHECK_DEADLOCK FALSE
