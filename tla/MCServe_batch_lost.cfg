SPECIFICATION FairSpec
CONSTANTS
  Files = {f1, f2}
  MaxEdits = 2
  MaxFailures = 0
INVARIANT
  BatchIsServed
CHECK_DEADLOCK FALSE
