\* The same past the threshold: file scoping after a compaction.
CONSTANTS
  f1 = f1
  a1 = a1
  a2 = a2
  a3 = a3
  a4 = a4
  Nodes <- MCNodes
  Files = {f1}
  Kinds <- MCKinds
  Threshold = 2
  Writers = {w1}
  Workers = {k1}
  Addresses <- MCAddresses
  Calls <- WatchCalls
  InitBase <- EmptyBase
  NoCall = NoCall
  NoSnapshot = NoSnapshot
  MaxGeneration = 5
SYMMETRY AddressSymmetry
SPECIFICATION HSpec
PROPERTIES
  FileScoping
\* The writers stop calling at MaxGeneration.
CHECK_DEADLOCK FALSE
