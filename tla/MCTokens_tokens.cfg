SPECIFICATION Spec
CONSTANTS
  Readers = {r1, r2}
  Names = {alice, bob}
  CoarseClock = TRUE
  MaxMinted = 2
  MaxWrites = 4
INVARIANT
  AnswersAreWhole
SYMMETRY SameForAll
CHECK_DEADLOCK FALSE
