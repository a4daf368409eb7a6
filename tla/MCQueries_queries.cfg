SPECIFICATION MCSpec
CONSTANTS
  Nodes <- MCNodes
  Strongest = 2
  Defined <- MCDefined
  From = 1
  To = 4
  Depth = 3
  Routes <- MCRoutes
  Dispatches <- MCDispatches
  Uses <- MCUses
  Documents <- MCDocuments
  Members <- MCMembers
  SeedCosts <- MCSeedCosts
  Penalty = 2
  MaxCost = 4
  MaxHops = 2
  MaxNodes = 3
  FileOf <- MCFileOf
  MaxFiles = 2
  Limit = 2
  MaxEdges = 4
INVARIANTS
  PathIsShortest
  LevelsAreDistances
  KeptAreTheBest
  CyclesAreFound
CHECK_DEADLOCK FALSE
