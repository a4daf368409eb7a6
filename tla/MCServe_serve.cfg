SPECIFICATION FairSpec
CONSTANTS
  Files = {f1, f2}
  MaxEdits = 2
  MaxFailures = 1
INVARIANTS
  StaleIsExplained
  StaleClientsAreTold
  ProbeKeepsUp
PROPERTIES
  ChangesAreServed
  StaleClientsHear
CHECK_DEADLOCK FALSE
