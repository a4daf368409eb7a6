\* One writer and its compaction thread, to the end of every call: it ingests
\* and re-links, file by file and in batches, over a stored base.
CONSTANTS
  f1 = f1
  a1 = a1
  a2 = a2
  a3 = a3
  a4 = a4
  Nodes <- MCNodes
  Files = {f1}
  Kinds <- MCKinds
  Threshold = 2
  Writers = {w1}
  Workers = {k1, k2}
  Addresses <- MCAddresses
  Calls <- RefreshCalls
  InitBase <- MCBase
  NoCall = NoCall
  NoSnapshot = NoSnapshot
  MaxGeneration = 4
SPECIFICATION HFairSpec
INVARIANTS
  SecondTryPublishes
PROPERTIES
  CompactionEnds
  CallsReturn
  ScopedSinceCompaction
  BufferedLinksReplaced
\* The writers stop calling at MaxGeneration.
CHECK_DEADLOCK FALSE
