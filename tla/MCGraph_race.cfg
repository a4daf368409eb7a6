\* Two writers against the compaction threads.
CONSTANTS
  f1 = f1
  a1 = a1
  a2 = a2
  a3 = a3
  a4 = a4
  Nodes <- MCNodes
  Files = {f1}
  Kinds <- MCKinds
  Threshold = 2
  Writers = {w1, w2}
  Workers = {k1, k2}
  Addresses <- MCAddresses
  Calls <- RaceCalls
  InitBase <- MCBase
  NoCall = NoCall
  NoSnapshot = NoSnapshot
  MaxGeneration = 3
SYMMETRY AddressSymmetry
SPECIFICATION Spec
INVARIANTS
  TypeOK
  ArcIdentifiesSnapshot
  GenerationTellsStaleness
  OneWorkerBehindFlag
  BaseStaysClosed
PROPERTIES
  ImplementsAtomicGraph
  CompactionIsInvisible
\* The writers stop calling at MaxGeneration.
CHECK_DEADLOCK FALSE
