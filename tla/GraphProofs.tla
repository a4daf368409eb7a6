----------------------------- MODULE GraphProofs ------------------------------
(***************************************************************************)
(* Theorems about DeltaStore and Graph for every set of writers,           *)
(* compaction threads, addresses, calls, nodes, files and kinds: the       *)
(* operators keep their types, the compare-and-swap is free of ABA, one    *)
(* compaction runs at a time, the base stays closed, Graph implements      *)
(* AtomicGraph, and a single writer is disturbed at most once per update.  *)
(***************************************************************************)
EXTENDS GraphHistory, TLAPS

-------------------------------------------------------------------------------
(* DeltaStore                                                                *)

\* Rows add up to rows, and removing edges from rows leaves rows.
LEMMA RowsAdd ==
  ASSUME NEW r \in Rows, NEW s \in Rows
  PROVE  AddRows(r, s) \in Rows
BY DEF AddRows, Rows

LEMMA NoRowsIsRows == NoRows \in Rows
BY DEF NoRows, NoEdges, Rows

\* A mutation applied to a delta gives a delta (delta.rs, every method that
\* changes the store).
LEMMA MutateType ==
  ASSUME NEW s \in Store, NEW m \in Mutation
  PROVE  Mutate(m, s) \in Delta
<1> DEFINE d == s.delta
<1>1. d \in Delta /\ s.base \in Base
  BY DEF Store
<1>2. /\ d.added \in Rows
      /\ d.tombstoned \in SUBSET (Nodes \X Nodes)
      /\ d.fileNodes \in [Files -> SUBSET Nodes]
  BY <1>1 DEF Delta
<1>3. CASE m \in [type : {"own"}, file : Files, nodes : SUBSET Nodes]
  <2>1. Mutate(m, s) = SetFileNodes(d, m.file, m.nodes)
    BY <1>3 DEF Mutate
  <2>2. SetFileNodes(d, m.file, m.nodes) \in Delta
    BY <1>1, <1>3 DEF SetFileNodes, Delta
  <2> QED BY <2>1, <2>2
<1>4. CASE m \in [type : {"add"}, edges : Rows]
  <2>1. Mutate(m, s) = AddEdges(d, m.edges)
    BY <1>4 DEF Mutate
  <2>2. AddRows(d.added, m.edges) \in Rows
    BY <1>2, <1>4, RowsAdd
  <2>3. AddEdges(d, m.edges) \in Delta
    BY <1>1, <2>2 DEF AddEdges, Delta
  <2> QED BY <2>1, <2>3
<1>5. CASE m \in [type : {"replace"}, file : Files, parsed : Rows, defines : SUBSET Nodes]
  <2> DEFINE owned  == d.fileNodes[m.file]
             kept   == [n \in Nodes |-> IF n \in owned THEN NoEdges ELSE d.added[n]]
             masked == {p \in owned \X Nodes :
                          \E e \in Edge : e.target = p[2] /\ BaseRow(s.base, p[1])[e] > 0}
  <2>1. Mutate(m, s) = ReplaceFileEdges(s.base, d, m.file, m.parsed, m.defines)
    BY <1>5 DEF Mutate
  <2>2. kept \in Rows
    BY <1>2 DEF Rows, NoEdges
  <2>3. AddRows(kept, m.parsed) \in Rows
    BY <1>5, <2>2, RowsAdd
  <2>4. masked \subseteq Nodes \X Nodes
    BY <1>2, <1>5
  <2>5. m.defines \cup Sources(m.parsed) \subseteq Nodes
    BY <1>5 DEF Sources
  <2>6. [d.fileNodes EXCEPT ![m.file] = m.defines \cup Sources(m.parsed)]
          \in [Files -> SUBSET Nodes]
    BY <1>2, <1>5, <2>5
  <2>7. ReplaceFileEdges(s.base, d, m.file, m.parsed, m.defines) \in Delta
    BY <1>2, <2>3, <2>4, <2>6 DEF ReplaceFileEdges, Delta
  <2> QED BY <2>1, <2>7
<1>6. CASE m \in [type : {"relink"}, kind : Kinds, links : Rows]
  <2> DEFINE kept == [n \in Nodes |->
                        [e \in Edge |-> IF e.kind = m.kind THEN 0 ELSE d.added[n][e]]]
  <2>1. Mutate(m, s) = ReplaceEdgesOfKind(d, m.kind, m.links)
    BY <1>6 DEF Mutate
  <2>2. kept \in Rows
    BY <1>2 DEF Rows
  <2>3. AddRows(kept, m.links) \in Rows
    BY <1>6, <2>2, RowsAdd
  <2>4. ReplaceEdgesOfKind(d, m.kind, m.links) \in Delta
    BY <1>1, <2>3 DEF ReplaceEdgesOfKind, Delta
  <2> QED BY <2>1, <2>4
<1> QED BY <1>3, <1>4, <1>5, <1>6 DEF Mutation

-------------------------------------------------------------------------------
LEMMA NeighborsType ==
  ASSUME NEW s \in Store, NEW n \in Nodes
  PROVE  Neighbors(s, n) \in [Edge -> Nat]
<1>1. BaseRow(s.base, n) \in [Edge -> Nat]
  BY DEF Store, Base, Rows, BaseRow, NoEdges
<1>2. s.delta.added[n] \in [Edge -> Nat]
  BY DEF Store, Delta, Rows
<1> QED BY <1>1, <1>2 DEF Neighbors

LEMMA CoveredIsNodes ==
  ASSUME NEW s \in Store
  PROVE  Covered(s) \subseteq Nodes
BY DEF Covered, Store, Base

\* Compaction gives a store again (GraphSnapshot::compact).
LEMMA CompactType ==
  ASSUME NEW s \in Store
  PROVE  Compact(s) \in Store
<1>1. Compact(s).base \in Base
  BY NeighborsType, CoveredIsNodes DEF Compact, Base, Rows, NoEdges
<1>2. EmptyDelta \in Delta
  BY NoRowsIsRows DEF EmptyDelta, Delta
<1> QED BY <1>1, <1>2 DEF Compact, Store

\* An edge a read returns leaves and enters nodes that compaction gives a row.
LEMMA EdgesAreCovered ==
  ASSUME NEW s \in Store, BaseClosed(s.base),
         NEW n \in Nodes, NEW e \in Edge, Neighbors(s, n)[e] > 0
  PROVE  n \in Covered(s) /\ e.target \in Covered(s)
<1> USE DeltaAssumption
<1>1. e.target \in Nodes
  BY DEF Edge
<1>2. s.delta.added[n][e] \in Nat /\ BaseRow(s.base, n)[e] \in Nat
  BY DEF Store, Delta, Base, Rows, BaseRow, NoEdges
<1>3. CASE s.delta.added[n][e] > 0
  <2>1. n \in Mentioned(s.delta) /\ e.target \in Mentioned(s.delta)
    BY <1>1, <1>3 DEF Mentioned, Sources, Targets
  <2>2. n \in Nat /\ e.target \in Nat
    BY <1>1
  <2>3. n <= n /\ e.target <= e.target
    BY <2>2
  <2> QED BY <1>1, <2>1, <2>3 DEF Covered
<1>4. CASE s.delta.added[n][e] = 0
  <2>1. BaseRow(s.base, n)[e] > 0
    BY <1>2, <1>4 DEF Neighbors
  <2>2. n \in s.base.ids /\ s.base.rows[n][e] > 0
    BY <2>1 DEF BaseRow, NoEdges
  <2>3. e.target \in s.base.ids
    BY <1>1, <2>2 DEF BaseClosed, Targets
  <2> QED BY <2>2, <2>3 DEF Covered
<1> QED BY <1>2, <1>3, <1>4

\* Compaction changes nothing a read returns.
LEMMA CompactKeepsView ==
  ASSUME NEW s \in Store, BaseClosed(s.base)
  PROVE  View(Compact(s)) = View(s)
<1>1. ASSUME NEW n \in Nodes
      PROVE  Neighbors(Compact(s), n) = Neighbors(s, n)
  <2>1. Neighbors(s, n) \in [Edge -> Nat]
    BY NeighborsType
  <2>2. ASSUME NEW e \in Edge
        PROVE  Neighbors(Compact(s), n)[e] = Neighbors(s, n)[e]
    <3>1. Neighbors(Compact(s), n)[e] = IF n \in Covered(s) THEN Neighbors(s, n)[e] ELSE 0
      BY <2>1 DEF Compact, Neighbors, BaseRow, EmptyDelta, NoRows, NoEdges
    <3>2. n \notin Covered(s) => Neighbors(s, n)[e] = 0
      BY <2>1, EdgesAreCovered
    <3> QED BY <3>1, <3>2
  <2>3. Neighbors(Compact(s), n) \in [Edge -> Nat]
    BY CompactType, NeighborsType
  <2> QED BY <2>1, <2>2, <2>3
<1> QED BY <1>1 DEF View

\* Compaction leaves a base that BaseCsr::validate accepts.
LEMMA CompactCloses ==
  ASSUME NEW s \in Store, BaseClosed(s.base)
  PROVE  BaseClosed(Compact(s).base)
<1> DEFINE b == Compact(s).base
<1>1. b.ids = Covered(s)
  BY DEF Compact
<1>2. \A n \in Nodes, e \in Edge : b.rows[n][e] > 0 => Neighbors(s, n)[e] > 0
  BY DEF Compact, NoEdges
<1>3. \A n \in Covered(s) : \A m \in Nodes : m < n => m \in Covered(s)
  <2> SUFFICES ASSUME NEW n \in Covered(s), NEW m \in Nodes, m < n
               PROVE  m \in Covered(s)
    OBVIOUS
  <2>1. n \in Nodes
    BY CoveredIsNodes
  <2>2. CASE n \in s.base.ids
    BY <2>2 DEF BaseClosed, Covered
  <2>3. CASE n \notin s.base.ids
    <3>1. PICK k \in Mentioned(s.delta) : n <= k
      BY <2>3 DEF Covered
    <3>2. k \in Nodes
      BY DEF Mentioned, Sources, Targets, Store, Delta
    <3>3. m <= k
      BY <2>1, <3>1, <3>2, DeltaAssumption
    <3> QED BY <3>3 DEF Covered
  <2> QED BY <2>2, <2>3
<1>4. Sources(b.rows) \subseteq Covered(s)
  BY <1>2, EdgesAreCovered DEF Sources
<1>5. Targets(b.rows) \subseteq Covered(s)
  BY <1>2, EdgesAreCovered DEF Targets
<1> QED BY <1>1, <1>3, <1>4, <1>5 DEF BaseClosed

-------------------------------------------------------------------------------
\* File-level scoping: whatever base and delta hold, once a file is replaced
\* the edges that leave a node the delta knew as the file's are the parsed ones
\* and no others (DeltaStore::replace_file_edges).
THEOREM ReplaceScopesFile ==
  ASSUME NEW s \in Store, NEW f \in Files, NEW parsed \in Rows,
         NEW defines \in SUBSET Nodes, NEW n \in s.delta.fileNodes[f]
  PROVE  LET m == [type |-> "replace", file |-> f, parsed |-> parsed, defines |-> defines]
         IN  View(Applied(m, s))[n] = parsed[n]
<1> DEFINE m == [type |-> "replace", file |-> f, parsed |-> parsed, defines |-> defines]
           d == ReplaceFileEdges(s.base, s.delta, f, parsed, defines)
<1>1. Applied(m, s) = [base |-> s.base, delta |-> d]
  BY DEF Applied, Mutate
<1>2. n \in Nodes
  BY DEF Store, Delta
<1>3. parsed[n] \in [Edge -> Nat] /\ BaseRow(s.base, n) \in [Edge -> Nat]
  BY <1>2 DEF Rows, Store, Base, BaseRow, NoEdges
<1>4. ASSUME NEW e \in Edge
      PROVE  Neighbors(Applied(m, s), n)[e] = parsed[n][e]
  <2>1. d.added[n][e] = parsed[n][e]
    BY <1>2, <1>3 DEF ReplaceFileEdges, AddRows, NoEdges
  <2>2. BaseRow(s.base, n)[e] > 0 => <<n, e.target>> \in d.tombstoned
    BY <1>2 DEF ReplaceFileEdges, Edge
  <2>3. (IF <<n, e.target>> \in d.tombstoned THEN 0 ELSE BaseRow(s.base, n)[e]) = 0
    BY <1>3, <2>2
  <2> QED BY <1>1, <1>3, <2>1, <2>3 DEF Neighbors
<1>5. View(Applied(m, s))[n] = Neighbors(Applied(m, s), n)
  BY <1>2 DEF View
<1>6. Neighbors(Applied(m, s), n) = [e \in Edge |-> parsed[n][e]]
  BY <1>4 DEF Neighbors
<1> QED BY <1>3, <1>5, <1>6

-------------------------------------------------------------------------------
(* Graph                                                                     *)

\* A thread holds an Arc exactly between its load and its swap.
HeldBetweenLoadAndSwap ==
  \A t \in Threads : held[t] # NoSnapshot <=> pc[t] = "swap"

\* A writer is in a call until its mutation is published or given up.
CallUntilPublished ==
  \A w \in Writers : call[w] # NoCall <=> pc[w] \in {"load", "swap"}

-------------------------------------------------------------------------------
LEMMA InitStore == InitBase \in Base /\ EmptyDelta \in Delta
BY GraphAssumption, NoRowsIsRows DEF GraphAssumption, EmptyDelta, Delta

LEMMA StoreOfType ==
  ASSUME NEW s \in Snapshot
  PROVE  StoreOf(s) \in Store
BY DEF Snapshot, StoreOf, Store

\* A swap that succeeds installs `store` at a fresh address, one generation on.
LEMMA SwapType ==
  ASSUME TypeOK, NEW t \in Threads, held[t] # NoSnapshot,
         NEW store \in Store, Swap(t, store)
  PROVE  /\ current' \in Snapshot
         /\ held' = [held EXCEPT ![t] = NoSnapshot]
         /\ current'.arc \notin Live
         /\ current'.generation = held[t].generation + 1
         /\ StoreOf(current') = store
         /\ held[t].arc = current.arc
<1>1. held[t] \in Snapshot
  BY DEF TypeOK
<1>2. PICK a \in Addresses \ Live :
         current' = [arc |-> a, generation |-> held[t].generation + 1,
                     base |-> store.base, delta |-> store.delta]
  BY DEF Swap
<1>3. store.base \in Base /\ store.delta \in Delta
  BY DEF Store
<1>4. held[t].generation + 1 \in Nat
  BY <1>1 DEF Snapshot
<1>5. current' \in Snapshot
  BY <1>2, <1>3, <1>4 DEF Snapshot
<1>6. StoreOf(current') = store
  BY <1>2 DEF StoreOf, Store
<1> QED BY <1>2, <1>5, <1>6 DEF Swap, Unchanged

\* What a writer publishes is a store: the closure ran on a well-formed one.
LEMMA PublishStore ==
  ASSUME TypeOK, NEW w \in Writers, held[w] # NoSnapshot, call[w] # NoCall
  PROVE  LET delta == Mutate(call[w].mutation, StoreOf(held[w]))
         IN  [base |-> held[w].base, delta |-> delta] \in Store
<1>1. held[w] \in Snapshot
  BY DEF TypeOK, Threads
<1>2. call[w] \in Call
  BY GraphAssumption DEF TypeOK, GraphAssumption
<1>3. Mutate(call[w].mutation, StoreOf(held[w])) \in Delta
  BY <1>1, <1>2, StoreOfType, MutateType DEF Call
<1> QED BY <1>1, <1>3 DEF Snapshot, Store

-------------------------------------------------------------------------------
(***************************************************************************)
(* Control: types, who holds an Arc, who is in a call.                     *)
(***************************************************************************)
ControlInv == TypeOK /\ HeldBetweenLoadAndSwap /\ CallUntilPublished

LEMMA ControlInit == Init => ControlInv
<1> SUFFICES ASSUME Init PROVE ControlInv
  OBVIOUS
<1> USE GraphAssumption DEF GraphAssumption
<1>1. current \in Snapshot
  BY InitStore DEF Init, Snapshot
<1>2. TypeOK
  BY <1>1 DEF Init, TypeOK, Threads, WriterPc, WorkerPc
<1>3. HeldBetweenLoadAndSwap /\ CallUntilPublished
  BY DEF Init, HeldBetweenLoadAndSwap, CallUntilPublished, Threads
<1> QED BY <1>2, <1>3 DEF ControlInv

LEMMA ControlStep == ControlInv /\ [Next]_vars => ControlInv'
<1> SUFFICES ASSUME ControlInv, [Next]_vars PROVE ControlInv'
  OBVIOUS
<1> USE DEF ControlInv
<1>a. ASSUME NEW w \in Writers
      PROVE  w \in Threads /\ w \notin Workers
  BY GraphAssumption DEF GraphAssumption, Threads
<1>b. ASSUME NEW k \in Workers
      PROVE  k \in Threads /\ k \notin Writers
  BY GraphAssumption DEF GraphAssumption, Threads
<1>c. ASSUME NEW t \in Threads, LoadFull(t)
      PROVE  /\ held' \in [Threads -> Snapshot \cup {NoSnapshot}]
             /\ held'[t] # NoSnapshot
             /\ \A u \in Threads \ {t} : held'[u] = held[u]
  BY <1>c, GraphAssumption DEF LoadFull, TypeOK, GraphAssumption
<1>1. ASSUME NEW w \in Writers, Enter(w)
      PROVE  ControlInv'
  <2>1. PICK c \in Calls : call' = [call EXCEPT ![w] = c]
    BY <1>1 DEF Enter
  <2>2. c # NoCall
    BY GraphAssumption DEF GraphAssumption
  <2> QED BY <1>1, <1>a, <1>b, <2>1, <2>2
          DEF Enter, TypeOK, HeldBetweenLoadAndSwap, CallUntilPublished, WriterPc
<1>2. ASSUME NEW w \in Writers, Load(w)
      PROVE  ControlInv'
  BY <1>2, <1>a, <1>b, <1>c
     DEF Load, TypeOK, HeldBetweenLoadAndSwap, CallUntilPublished, WriterPc
<1>3. ASSUME NEW w \in Writers, Publish(w)
      PROVE  ControlInv'
  <2> DEFINE store == [base |-> held[w].base,
                       delta |-> Mutate(call[w].mutation, StoreOf(held[w]))]
  <2>1. held[w] # NoSnapshot /\ call[w] # NoCall /\ w \in Threads
    BY <1>3, <1>a DEF Publish, HeldBetweenLoadAndSwap, CallUntilPublished
  <2>2. store \in Store
    BY <2>1, PublishStore
  <2>3. Swap(w, store)
    BY <1>3 DEF Publish
  <2>4. current' \in Snapshot /\ held' = [held EXCEPT ![w] = NoSnapshot]
    BY <2>1, <2>2, <2>3, SwapType
  <2>5. \E p \in {"spawn", "outside"} : pc' = [pc EXCEPT ![w] = p]
    BY <1>3 DEF Publish
  <2>6. call' = [call EXCEPT ![w] = NoCall] /\ UNCHANGED compacting
    BY <1>3 DEF Publish
  <2> QED BY <1>a, <1>b, <2>4, <2>5, <2>6
          DEF TypeOK, HeldBetweenLoadAndSwap, CallUntilPublished, WriterPc
<1>4. ASSUME NEW w \in Writers, Retry(w)
      PROVE  ControlInv'
  BY <1>4, <1>a, <1>b
     DEF Retry, TypeOK, HeldBetweenLoadAndSwap, CallUntilPublished, WriterPc
<1>5. ASSUME NEW w \in Writers, LoseBatch(w)
      PROVE  ControlInv'
  BY <1>5, <1>a, <1>b
     DEF LoseBatch, TypeOK, HeldBetweenLoadAndSwap, CallUntilPublished, WriterPc
<1>6. ASSUME NEW w \in Writers, SpawnCompaction(w)
      PROVE  ControlInv'
  <2>1. CASE compacting
    BY <1>6, <1>a, <1>b, <2>1
       DEF SpawnCompaction, TypeOK, HeldBetweenLoadAndSwap, CallUntilPublished, WriterPc
  <2>2. CASE ~compacting
    <3>1. PICK k \in Workers : pc[k] = "none" /\
                               pc' = [pc EXCEPT ![w] = "outside", ![k] = "load"]
      BY <1>6, <2>2 DEF SpawnCompaction
    <3> QED BY <1>6, <1>a, <1>b, <2>2, <3>1
            DEF SpawnCompaction, TypeOK, HeldBetweenLoadAndSwap, CallUntilPublished,
                WriterPc, WorkerPc
  <2> QED BY <2>1, <2>2
<1>7. ASSUME NEW k \in Workers, LoadSource(k)
      PROVE  ControlInv'
  BY <1>7, <1>a, <1>b, <1>c
     DEF LoadSource, TypeOK, HeldBetweenLoadAndSwap, CallUntilPublished, WorkerPc
<1>8. ASSUME NEW k \in Workers, PublishCompacted(k)
      PROVE  ControlInv'
  <2>1. held[k] # NoSnapshot /\ k \in Threads
    BY <1>8, <1>b DEF PublishCompacted, HeldBetweenLoadAndSwap
  <2>2. Compact(StoreOf(held[k])) \in Store
    BY <2>1, StoreOfType, CompactType DEF TypeOK
  <2>3. current' \in Snapshot /\ held' = [held EXCEPT ![k] = NoSnapshot]
    BY <1>8, <2>1, <2>2, SwapType DEF PublishCompacted
  <2> QED BY <1>8, <1>a, <1>b, <2>3
          DEF PublishCompacted, TypeOK, HeldBetweenLoadAndSwap, CallUntilPublished, WorkerPc
<1>9. ASSUME NEW k \in Workers, DiscardCompacted(k) \/ Panic(k)
      PROVE  ControlInv'
  BY <1>9, <1>a, <1>b
     DEF DiscardCompacted, Panic, TypeOK, HeldBetweenLoadAndSwap, CallUntilPublished, WorkerPc
<1>10. ASSUME NEW k \in Workers, ClearFlag(k)
       PROVE  ControlInv'
  BY <1>10, <1>a, <1>b
     DEF ClearFlag, TypeOK, HeldBetweenLoadAndSwap, CallUntilPublished, WorkerPc
<1>11. CASE UNCHANGED vars
  BY <1>11 DEF vars, TypeOK, HeldBetweenLoadAndSwap, CallUntilPublished
<1> QED BY <1>1, <1>2, <1>3, <1>4, <1>5, <1>6, <1>7, <1>8, <1>9, <1>10, <1>11
        DEF Next, WriterStep, WorkerStep

\* Every variable keeps its type.
THEOREM TypeCorrect == Spec => []TypeOK
<1>1. ControlInv => TypeOK
  BY DEF ControlInv
<1> QED BY <1>1, ControlInit, ControlStep, PTL DEF Spec

-------------------------------------------------------------------------------
(***************************************************************************)
(* Publication: nothing in flight can be mistaken for the published        *)
(* snapshot.  Every successful swap takes a fresh address and the next     *)
(* generation, every other step leaves `current` alone.                    *)
(***************************************************************************)
PublicationInv ==
  /\ ControlInv
  /\ ArcIdentifiesSnapshot
  /\ GenerationTellsStaleness

LEMMA PublicationInit == Init => PublicationInv
<1> SUFFICES ASSUME Init PROVE PublicationInv
  OBVIOUS
<1>1. \A t \in Threads : held[t] = NoSnapshot
  BY DEF Init
<1> QED BY <1>1, ControlInit
        DEF PublicationInv, ArcIdentifiesSnapshot, GenerationTellsStaleness

\* A thread whose swap succeeds holds the published snapshot itself.
LEMMA SwapsCurrent ==
  ASSUME PublicationInv, NEW t \in Threads, pc[t] = "swap", Unchanged(t)
  PROVE  held[t] # NoSnapshot /\ held[t] = current
BY DEF PublicationInv, ControlInv, HeldBetweenLoadAndSwap, ArcIdentifiesSnapshot, Unchanged

LEMMA SwapKeepsPublication ==
  ASSUME PublicationInv, NEW t \in Threads, pc[t] = "swap",
         NEW store \in Store, Swap(t, store)
  PROVE  ArcIdentifiesSnapshot' /\ GenerationTellsStaleness'
<1>1. held[t] # NoSnapshot /\ held[t] = current
  BY SwapsCurrent DEF Swap
<1>2. /\ held' = [held EXCEPT ![t] = NoSnapshot]
      /\ current'.arc \notin Live
      /\ current'.generation = current.generation + 1
  BY <1>1, SwapType DEF PublicationInv, ControlInv
<1>3. SUFFICES ASSUME NEW u \in Threads, held'[u] # NoSnapshot
               PROVE  /\ held'[u].arc # current'.arc
                      /\ held'[u].generation <= current'.generation
                      /\ held'[u].generation # current'.generation
  BY <1>3 DEF ArcIdentifiesSnapshot, GenerationTellsStaleness
<1>4. u # t /\ held'[u] = held[u] /\ held[u] \in Snapshot /\ current \in Snapshot
  BY <1>2, <1>3 DEF PublicationInv, ControlInv, TypeOK
<1>5. held[u].arc \in Live
  BY <1>3, <1>4 DEF Live
<1>6. held[u].generation <= current.generation
  BY <1>3, <1>4 DEF PublicationInv, GenerationTellsStaleness
<1> QED BY <1>2, <1>4, <1>5, <1>6 DEF Snapshot

LEMMA PublicationStep == PublicationInv /\ [Next]_vars => PublicationInv'
<1> SUFFICES ASSUME PublicationInv, [Next]_vars PROVE PublicationInv'
  OBVIOUS
<1>0. ControlInv'
  BY ControlStep DEF PublicationInv
<1> SUFFICES ArcIdentifiesSnapshot' /\ GenerationTellsStaleness'
  BY <1>0 DEF PublicationInv
<1> USE DEF PublicationInv, ControlInv
<1>a. Writers \subseteq Threads /\ Workers \subseteq Threads
  BY DEF Threads
<1>b. ASSUME NEW t \in Threads, LoadFull(t), UNCHANGED current
      PROVE  ArcIdentifiesSnapshot' /\ GenerationTellsStaleness'
  BY <1>b DEF LoadFull, TypeOK, Snapshot, ArcIdentifiesSnapshot, GenerationTellsStaleness
<1>c. ASSUME UNCHANGED current,
             UNCHANGED held \/ \E t \in Threads : held' = [held EXCEPT ![t] = NoSnapshot]
      PROVE  ArcIdentifiesSnapshot' /\ GenerationTellsStaleness'
  BY <1>c DEF TypeOK, ArcIdentifiesSnapshot, GenerationTellsStaleness
<1>1. ASSUME NEW w \in Writers, Enter(w) \/ SpawnCompaction(w)
      PROVE  ArcIdentifiesSnapshot' /\ GenerationTellsStaleness'
  BY <1>1, <1>c DEF Enter, SpawnCompaction
<1>2. ASSUME NEW w \in Writers, Load(w)
      PROVE  ArcIdentifiesSnapshot' /\ GenerationTellsStaleness'
  BY <1>2, <1>a, <1>b DEF Load
<1>3. ASSUME NEW w \in Writers, Publish(w)
      PROVE  ArcIdentifiesSnapshot' /\ GenerationTellsStaleness'
  <2> DEFINE store == [base |-> held[w].base,
                       delta |-> Mutate(call[w].mutation, StoreOf(held[w]))]
  <2>1. w \in Threads /\ pc[w] = "swap" /\ held[w] # NoSnapshot /\ call[w] # NoCall
    BY <1>3, <1>a DEF Publish, HeldBetweenLoadAndSwap, CallUntilPublished
  <2>2. store \in Store
    BY <2>1, PublishStore
  <2>3. Swap(w, store)
    BY <1>3 DEF Publish
  <2> QED BY <2>1, <2>2, <2>3, SwapKeepsPublication
<1>4. ASSUME NEW w \in Writers, Retry(w) \/ LoseBatch(w)
      PROVE  ArcIdentifiesSnapshot' /\ GenerationTellsStaleness'
  BY <1>4, <1>a, <1>c DEF Retry, LoseBatch
<1>5. ASSUME NEW k \in Workers, LoadSource(k)
      PROVE  ArcIdentifiesSnapshot' /\ GenerationTellsStaleness'
  BY <1>5, <1>a, <1>b DEF LoadSource
<1>6. ASSUME NEW k \in Workers, PublishCompacted(k)
      PROVE  ArcIdentifiesSnapshot' /\ GenerationTellsStaleness'
  <2>1. k \in Threads /\ pc[k] = "swap" /\ held[k] \in Snapshot
    BY <1>6, <1>a DEF PublishCompacted, HeldBetweenLoadAndSwap, TypeOK
  <2>2. Compact(StoreOf(held[k])) \in Store
    BY <2>1, StoreOfType, CompactType
  <2> QED BY <1>6, <2>1, <2>2, SwapKeepsPublication DEF PublishCompacted
<1>7. ASSUME NEW k \in Workers, DiscardCompacted(k) \/ Panic(k) \/ ClearFlag(k)
      PROVE  ArcIdentifiesSnapshot' /\ GenerationTellsStaleness'
  BY <1>7, <1>a, <1>c DEF DiscardCompacted, Panic, ClearFlag
<1>8. CASE UNCHANGED vars
  BY <1>8, <1>c DEF vars
<1> QED BY <1>1, <1>2, <1>3, <1>4, <1>5, <1>6, <1>7, <1>8 DEF Next, WriterStep, WorkerStep

LEMMA PublicationInvariant == Spec => []PublicationInv
BY PublicationInit, PublicationStep, PTL DEF Spec

\* The compare-and-swap on the pointer is free of ABA, reused addresses or not.
THEOREM NoAba == Spec => []ArcIdentifiesSnapshot
<1>1. PublicationInv => ArcIdentifiesSnapshot
  BY DEF PublicationInv
<1> QED BY <1>1, PublicationInvariant, PTL

\* The generation says of a held snapshot whether it is still the published one.
THEOREM GenerationIsReliable == Spec => []GenerationTellsStaleness
<1>1. PublicationInv => GenerationTellsStaleness
  BY DEF PublicationInv
<1> QED BY <1>1, PublicationInvariant, PTL

-------------------------------------------------------------------------------
(***************************************************************************)
(* One compaction at a time.                                               *)
(***************************************************************************)
LEMMA OneWorkerStep ==
  ControlInv /\ OneWorkerBehindFlag /\ [Next]_vars => OneWorkerBehindFlag'
<1> SUFFICES ASSUME ControlInv, OneWorkerBehindFlag, [Next]_vars
             PROVE  OneWorkerBehindFlag'
  OBVIOUS
<1> USE DEF ControlInv
<1>a. Writers \cap Workers = {} /\ Writers \subseteq Threads /\ Workers \subseteq Threads
  BY GraphAssumption DEF GraphAssumption, Threads
<1>b. ASSUME NEW w \in Writers, NEW p, pc' = [pc EXCEPT ![w] = p], UNCHANGED compacting
      PROVE  OneWorkerBehindFlag'
  BY <1>a, <1>b DEF OneWorkerBehindFlag, TypeOK
<1>c. ASSUME NEW k \in Workers, NEW p, pc' = [pc EXCEPT ![k] = p],
             pc[k] # "none", p # "none", UNCHANGED compacting
      PROVE  OneWorkerBehindFlag'
  BY <1>a, <1>c DEF OneWorkerBehindFlag, TypeOK
<1>1. ASSUME NEW w \in Writers,
             Enter(w) \/ Load(w) \/ Publish(w) \/ Retry(w) \/ LoseBatch(w)
      PROVE  OneWorkerBehindFlag'
  <2>1. UNCHANGED compacting /\ \E p : pc' = [pc EXCEPT ![w] = p]
    BY <1>1 DEF Enter, Load, Publish, Retry, LoseBatch
  <2> QED BY <1>b, <2>1
<1>2. ASSUME NEW w \in Writers, SpawnCompaction(w)
      PROVE  OneWorkerBehindFlag'
  <2>1. CASE compacting
    BY <1>2, <1>b, <2>1 DEF SpawnCompaction
  <2>2. CASE ~compacting
    <3>1. PICK k \in Workers : pc' = [pc EXCEPT ![w] = "outside", ![k] = "load"]
      BY <1>2, <2>2 DEF SpawnCompaction
    <3>2. compacting' = TRUE
      BY <1>2, <2>2 DEF SpawnCompaction
    <3>3. \A j \in Workers : pc[j] = "none"
      BY <2>2 DEF OneWorkerBehindFlag
    <3> QED BY <1>a, <3>1, <3>2, <3>3 DEF OneWorkerBehindFlag, TypeOK
  <2> QED BY <2>1, <2>2
<1>3. ASSUME NEW k \in Workers,
             LoadSource(k) \/ PublishCompacted(k) \/ DiscardCompacted(k) \/ Panic(k)
      PROVE  OneWorkerBehindFlag'
  <2>1. /\ UNCHANGED compacting
        /\ pc[k] # "none"
        /\ \E p \in {"swap", "clear"} : pc' = [pc EXCEPT ![k] = p]
    BY <1>3 DEF LoadSource, PublishCompacted, DiscardCompacted, Panic
  <2> QED BY <1>c, <2>1
<1>4. ASSUME NEW k \in Workers, ClearFlag(k)
      PROVE  OneWorkerBehindFlag'
  <2>1. pc[k] # "none" /\ pc' = [pc EXCEPT ![k] = "none"] /\ compacting' = FALSE
    BY <1>4 DEF ClearFlag
  <2>2. \A j \in Workers \ {k} : pc[j] = "none"
    BY <2>1 DEF OneWorkerBehindFlag
  <2> QED BY <1>a, <2>1, <2>2 DEF OneWorkerBehindFlag, TypeOK
<1>5. CASE UNCHANGED vars
  BY <1>5 DEF vars, OneWorkerBehindFlag
<1> QED BY <1>1, <1>2, <1>3, <1>4, <1>5 DEF Next, WriterStep, WorkerStep

\* There is never more than one compaction in flight, and the flag says when.
THEOREM OneCompaction == Spec => []OneWorkerBehindFlag
<1>1. Init => OneWorkerBehindFlag
  BY GraphAssumption DEF Init, OneWorkerBehindFlag, GraphAssumption, Threads
<1> QED BY <1>1, ControlInit, ControlStep, OneWorkerStep, PTL DEF Spec

-------------------------------------------------------------------------------
(***************************************************************************)
(* The base stays closed.  No step but a compaction's changes it: a writer *)
(* publishes the base it loaded, and that is the published one.            *)
(***************************************************************************)
LEMMA BaseStep ==
  PublicationInv /\ BaseStaysClosed /\ [Next]_vars => BaseStaysClosed'
<1> SUFFICES ASSUME PublicationInv, BaseStaysClosed, [Next]_vars
             PROVE  BaseStaysClosed'
  OBVIOUS
<1>a. Writers \subseteq Threads /\ Workers \subseteq Threads
  BY DEF Threads
<1>1. ASSUME NEW w \in Writers, Publish(w)
      PROVE  BaseStaysClosed'
  <2>1. held[w] = current
    BY <1>1, <1>a, SwapsCurrent DEF Publish, Swap
  <2>2. current'.base = held[w].base
    BY <1>1 DEF Publish, Swap
  <2> QED BY <2>1, <2>2 DEF BaseStaysClosed
<1>2. ASSUME NEW k \in Workers, PublishCompacted(k)
      PROVE  BaseStaysClosed'
  <2>1. held[k] = current
    BY <1>2, <1>a, SwapsCurrent DEF PublishCompacted, Swap
  <2>2. current'.base = Compact(StoreOf(current)).base
    BY <1>2, <2>1 DEF PublishCompacted, Swap
  <2>3. StoreOf(current) \in Store /\ StoreOf(current).base = current.base
    BY StoreOfType DEF PublicationInv, ControlInv, TypeOK, StoreOf
  <2> QED BY <2>2, <2>3, CompactCloses DEF BaseStaysClosed
<1>3. ASSUME UNCHANGED current
      PROVE  BaseStaysClosed'
  BY <1>3 DEF BaseStaysClosed
<1> QED BY <1>1, <1>2, <1>3
        DEF Next, WriterStep, WorkerStep, vars, Enter, Load, Retry, LoseBatch,
            SpawnCompaction, LoadSource, DiscardCompacted, Panic, ClearFlag

\* Every base a compaction publishes passes BaseCsr::validate.
THEOREM BaseIsValid == Spec => []BaseStaysClosed
<1>1. Init => BaseStaysClosed
  BY GraphAssumption DEF Init, BaseStaysClosed, GraphAssumption
<1> QED BY <1>1, PublicationInit, PublicationStep, BaseStep, PTL DEF Spec

-------------------------------------------------------------------------------
(***************************************************************************)
(* Graph implements AtomicGraph.                                           *)
(***************************************************************************)
\* AtomicGraph's copy of DeltaStore, with the same constants, is DeltaStore.
LEMMA SameStore ==
  ASSUME NEW s
  PROVE  /\ AG!EmptyDelta = EmptyDelta
         /\ AG!View(s) = View(s)
         /\ AG!Compact(s) = Compact(s)
<1> USE DEF AG!Edge, Edge, AG!NoEdges, NoEdges
<1>1. AG!EmptyDelta = EmptyDelta
  BY DEF AG!EmptyDelta, EmptyDelta, AG!NoRows, NoRows
<1>2. \A n : AG!Neighbors(s, n) = Neighbors(s, n)
  BY DEF AG!Neighbors, Neighbors, AG!BaseRow, BaseRow
<1>3. AG!View(s) = View(s)
  BY <1>2 DEF AG!View, View
<1>4. AG!Covered(s) = Covered(s)
  BY DEF AG!Covered, Covered, AG!Mentioned, Mentioned,
         AG!Sources, Sources, AG!Targets, Targets
<1>5. AG!Compact(s) = Compact(s)
  BY <1>1, <1>2, <1>4 DEF AG!Compact, Compact
<1> QED BY <1>1, <1>3, <1>5

LEMMA SameMutation ==
  ASSUME NEW m, NEW s
  PROVE  AG!Applied(m, s) = Applied(m, s)
<1> USE DEF AG!Edge, Edge, AG!NoEdges, NoEdges
<1>1. AG!SetFileNodes(s.delta, m.file, m.nodes) = SetFileNodes(s.delta, m.file, m.nodes)
  BY DEF AG!SetFileNodes, SetFileNodes
<1>2. AG!AddEdges(s.delta, m.edges) = AddEdges(s.delta, m.edges)
  BY DEF AG!AddEdges, AddEdges, AG!AddRows, AddRows
<1>3. AG!ReplaceFileEdges(s.base, s.delta, m.file, m.parsed, m.defines)
        = ReplaceFileEdges(s.base, s.delta, m.file, m.parsed, m.defines)
  BY DEF AG!ReplaceFileEdges, ReplaceFileEdges, AG!AddRows, AddRows,
         AG!BaseRow, BaseRow, AG!Sources, Sources
<1>4. AG!ReplaceEdgesOfKind(s.delta, m.kind, m.links)
        = ReplaceEdgesOfKind(s.delta, m.kind, m.links)
  BY DEF AG!ReplaceEdgesOfKind, ReplaceEdgesOfKind, AG!AddRows, AddRows
<1>5. AG!Mutate(m, s) = Mutate(m, s)
  BY <1>1, <1>2, <1>3, <1>4 DEF AG!Mutate, Mutate
<1> QED BY <1>5 DEF AG!Applied, Applied

LEMMA AtomicInit == Init => AG!Init
<1> SUFFICES ASSUME Init PROVE AG!Init
  OBVIOUS
<1>1. StoreOf(current) = [base |-> InitBase, delta |-> AG!EmptyDelta]
  BY SameStore DEF Init, StoreOf
<1> QED BY <1>1 DEF Init, AG!Init

\* A successful swap changes the abstract store from what it is to what the
\* thread computed; the address and the generation are invisible.
LEMMA SwapIsAtomic ==
  ASSUME PublicationInv, NEW t \in Threads, pc[t] = "swap",
         NEW store \in Store, Swap(t, store)
  PROVE  StoreOf(current)' = store /\ StoreOf(held[t]) = StoreOf(current)
<1>1. held[t] # NoSnapshot /\ held[t] = current
  BY SwapsCurrent DEF Swap
<1>2. StoreOf(current') = store
  BY <1>1, SwapType DEF PublicationInv, ControlInv
<1> QED BY <1>1, <1>2 DEF StoreOf

LEMMA PublishCommits ==
  ASSUME PublicationInv, NEW w \in Writers, Publish(w)
  PROVE  AG!Commit(w)
<1> DEFINE m == call[w].mutation
           new == [base |-> held[w].base, delta |-> Mutate(m, StoreOf(held[w]))]
<1>1. w \in Threads /\ pc[w] = "swap"
  BY DEF Publish, Threads
<1>2. held[w] # NoSnapshot /\ call[w] # NoCall
  BY <1>1 DEF PublicationInv, ControlInv, HeldBetweenLoadAndSwap, CallUntilPublished
<1>3. new \in Store
  BY <1>2, PublishStore DEF PublicationInv, ControlInv
<1>4. Swap(w, new)
  BY DEF Publish
<1>5. StoreOf(current)' = new /\ StoreOf(held[w]) = StoreOf(current)
  BY <1>1, <1>3, <1>4, SwapIsAtomic
<1>6. new = Applied(m, StoreOf(current))
  BY <1>5 DEF Applied, StoreOf
<1>7. StoreOf(current)' = AG!Applied(m, StoreOf(current))
  BY <1>5, <1>6, SameMutation
<1>8. call' = [call EXCEPT ![w] = NoCall]
  BY DEF Publish
<1> QED BY <1>2, <1>7, <1>8 DEF AG!Commit

LEMMA CompactionFolds ==
  ASSUME PublicationInv, NEW k \in Workers, PublishCompacted(k)
  PROVE  AG!Fold
<1>1. k \in Threads /\ pc[k] = "swap" /\ held[k] \in Snapshot
  BY DEF PublishCompacted, Threads, PublicationInv, ControlInv, TypeOK, HeldBetweenLoadAndSwap
<1>2. Compact(StoreOf(held[k])) \in Store
  BY <1>1, StoreOfType, CompactType
<1>3. StoreOf(current)' = Compact(StoreOf(current))
  BY <1>1, <1>2, SwapIsAtomic DEF PublishCompacted
<1>4. StoreOf(current)' = AG!Compact(StoreOf(current))
  BY <1>3, SameStore
<1> QED BY <1>4 DEF AG!Fold, PublishCompacted

LEMMA AtomicStep == PublicationInv /\ [Next]_vars => [AG!Next]_AG!vars
<1> SUFFICES ASSUME PublicationInv, [Next]_vars PROVE [AG!Next]_AG!vars
  OBVIOUS
<1>a. ASSUME UNCHANGED <<current, call>>
      PROVE  [AG!Next]_AG!vars
  BY <1>a DEF AG!vars, StoreOf
<1>1. ASSUME NEW w \in Writers, Enter(w)
      PROVE  AG!Enter(w)
  <2>1. call[w] = NoCall
    BY <1>1 DEF Enter, PublicationInv, ControlInv, CallUntilPublished
  <2> QED BY <1>1, <2>1 DEF Enter, AG!Enter, StoreOf
<1>2. ASSUME NEW w \in Writers, LoseBatch(w)
      PROVE  AG!Drop(w)
  <2>1. call[w] # NoCall
    BY <1>2 DEF LoseBatch, PublicationInv, ControlInv, CallUntilPublished
  <2> QED BY <1>2, <2>1 DEF LoseBatch, AG!Drop, StoreOf
<1>3. ASSUME NEW w \in Writers, Load(w) \/ Retry(w) \/ SpawnCompaction(w)
      PROVE  UNCHANGED <<current, call>>
  BY <1>3 DEF Load, Retry, SpawnCompaction
<1>4. ASSUME NEW k \in Workers,
             LoadSource(k) \/ DiscardCompacted(k) \/ Panic(k) \/ ClearFlag(k)
      PROVE  UNCHANGED <<current, call>>
  BY <1>4 DEF LoadSource, DiscardCompacted, Panic, ClearFlag
<1>5. CASE UNCHANGED vars
  BY <1>5, <1>a DEF vars
<1> QED BY <1>1, <1>2, <1>3, <1>4, <1>5, <1>a, PublishCommits, CompactionFolds
        DEF Next, WriterStep, WorkerStep, AG!Next

\* Every call of update takes effect once, on the graph as it is then, and
\* nothing else but a compaction touches the store.
THEOREM GraphIsAtomic == Spec => ImplementsAtomicGraph
BY AtomicInit, AtomicStep, PublicationInvariant, PTL DEF Spec, ImplementsAtomicGraph, AG!Spec

\* No step but a caller's publication changes what a read returns.
THEOREM ReadsChangeByWritesOnly == Spec => CompactionIsInvisible
<1> DEFINE Step == View(StoreOf(current))' # View(StoreOf(current))
                     => \E w \in Writers : AG!Commit(w)
<1>1. PublicationInv /\ BaseStaysClosed /\ [Next]_vars => Step
  <2> SUFFICES ASSUME PublicationInv, BaseStaysClosed, [Next]_vars,
                      View(StoreOf(current))' # View(StoreOf(current))
               PROVE  \E w \in Writers : AG!Commit(w)
    OBVIOUS
  <2>1. ASSUME AG!Fold PROVE View(StoreOf(current))' = View(StoreOf(current))
    <3>1. StoreOf(current)' = Compact(StoreOf(current))
      BY <2>1, SameStore DEF AG!Fold
    <3>2. StoreOf(current) \in Store /\ BaseClosed(StoreOf(current).base)
      BY StoreOfType DEF PublicationInv, ControlInv, TypeOK, BaseStaysClosed, StoreOf
    <3>3. View(StoreOf(current)') = View(Compact(StoreOf(current)))
      BY <3>1
    <3> QED BY <3>2, <3>3, CompactKeepsView DEF View, Neighbors, StoreOf
  <2>2. ASSUME UNCHANGED StoreOf(current)
        PROVE  View(StoreOf(current))' = View(StoreOf(current))
    BY <2>2
  <2>3. [AG!Next]_AG!vars
    BY AtomicStep
  <2> QED BY <2>1, <2>2, <2>3 DEF AG!Next, AG!vars, AG!Enter, AG!Drop
<1>2. Step => [AG!View(StoreOf(current))' # AG!View(StoreOf(current))
                 => \E w \in Writers : AG!Commit(w)]_AG!vars
  BY SameStore
<1>3. Init => BaseStaysClosed
  BY GraphAssumption DEF Init, BaseStaysClosed, GraphAssumption
<1> QED BY <1>1, <1>2, <1>3, PublicationInit, PublicationStep, BaseStep, PTL
        DEF Spec, CompactionIsInvisible, AG!ViewChangesByCommitOnly

-------------------------------------------------------------------------------
(* GraphHistory                                                              *)

\* No compaction thread can still publish.
Quiet == \A k \in Workers : pc[k] \in {"none", "clear"}

\* How far the writer got, and what can still come between it and its swap.
Attempt(w) ==
  /\ tries[w] \in 0..2
  /\ pc[w] = "load" => tries[w] = 0 \/ (tries[w] = 1 /\ Quiet)
  /\ pc[w] = "swap" => \/ tries[w] = 1 /\ (Unchanged(w) \/ Quiet)
                       \/ tries[w] = 2 /\ Unchanged(w) /\ Quiet

AttemptInv ==
  /\ PublicationInv
  /\ OneWorkerBehindFlag
  /\ tries \in [Writers -> Nat]
  /\ (\E w \in Writers : Writers = {w}) => \A w \in Writers : Attempt(w)

LEMMA StepsOfGraph == [HNext]_hvars => [Next]_vars
BY DEF HNext, hvars, HEnter, HWriterStep, HLoad, HPublish, HWorkerStep, Next, WriterStep

LEMMA AttemptInit == HInit => AttemptInv
<1> SUFFICES ASSUME HInit PROVE AttemptInv
  OBVIOUS
<1>1. PublicationInv
  BY PublicationInit DEF HInit
<1>2. OneWorkerBehindFlag
  BY GraphAssumption DEF HInit, Init, OneWorkerBehindFlag, GraphAssumption, Threads
<1>3. \A w \in Writers : pc[w] = "outside" /\ tries[w] = 0
  BY DEF HInit, Init, Threads
<1> QED BY <1>1, <1>2, <1>3 DEF HInit, AttemptInv, Attempt

LEMMA AttemptStep == AttemptInv /\ [HNext]_hvars => AttemptInv'
<1> SUFFICES ASSUME AttemptInv, [HNext]_hvars PROVE AttemptInv'
  OBVIOUS
<1>1. PublicationInv' /\ OneWorkerBehindFlag'
  BY StepsOfGraph, PublicationStep, OneWorkerStep DEF AttemptInv, PublicationInv
<1>2. tries' \in [Writers -> Nat]
  BY DEF AttemptInv, HNext, HEnter, HLoad, HPublish, HWriterStep, HWorkerStep, hvars, history
<1>3. ASSUME NEW w \in Writers, Writers = {w}
      PROVE  Attempt(w)'
  <2>a. /\ Attempt(w) /\ TypeOK /\ w \in Threads /\ w \notin Workers
        /\ tries \in [Writers -> Nat]
        /\ Workers \subseteq Threads
    BY <1>3, GraphAssumption
       DEF AttemptInv, PublicationInv, ControlInv, GraphAssumption, Threads
  <2>b. pc \in [Threads -> WriterPc \cup WorkerPc]
    BY <2>a DEF TypeOK
  <2> USE DEF Attempt
  <2>1. CASE HEnter(w)
    <3>1. pc'[w] = "load" /\ tries'[w] = 0
      BY <2>1, <2>a, <2>b DEF HEnter, Enter
    <3> QED BY <3>1
  <2>2. CASE HLoad(w)
    <3>1. pc[w] = "load" /\ pc'[w] = "swap" /\ tries'[w] = tries[w] + 1
      BY <2>2, <2>a, <2>b DEF HLoad, Load
    <3>2. Unchanged(w)'
      BY <2>2, <2>a DEF HLoad, Load, LoadFull, Unchanged, TypeOK
    <3>3. Quiet => Quiet'
      BY <2>2, <2>a, <2>b DEF HLoad, Load, Quiet
    <3> QED BY <2>a, <3>1, <3>2, <3>3
  <2>3. CASE HPublish(w)
    <3>1. pc'[w] \in {"spawn", "outside"} /\ tries'[w] = tries[w]
      BY <2>3, <2>a, <2>b DEF HPublish, Publish
    <3> QED BY <2>a, <3>1
  <2>4. CASE (Retry(w) \/ LoseBatch(w)) /\ UNCHANGED history
    <3>1. /\ pc[w] = "swap" /\ ~Unchanged(w)
          /\ pc'[w] \in {"load", "outside"} /\ tries'[w] = tries[w]
      BY <2>4, <2>a, <2>b DEF Retry, LoseBatch, history
    <3>2. tries[w] = 1 /\ Quiet
      BY <2>a, <3>1
    <3>3. Quiet'
      BY <2>4, <2>a, <2>b, <3>2 DEF Retry, LoseBatch, Quiet
    <3> QED BY <3>1, <3>2, <3>3
  <2>5. CASE SpawnCompaction(w) /\ UNCHANGED history
    <3>1. pc'[w] = "outside" /\ tries'[w] = tries[w]
      BY <2>5, <2>a, <2>b DEF SpawnCompaction, history
    <3> QED BY <2>a, <3>1
  <2>6. CASE \E k \in Workers : HWorkerStep(k)
    <3>1. PICK k \in Workers : HWorkerStep(k)
      BY <2>6
    <3>2. tries'[w] = tries[w] /\ k # w
      BY <3>1, <2>a DEF HWorkerStep, history
    <3>3. \E p \in WorkerPc : pc' = [pc EXCEPT ![k] = p]
      BY <3>1 DEF HWorkerStep, WorkerStep, LoadSource, PublishCompacted,
                  DiscardCompacted, Panic, ClearFlag, WorkerPc
    <3>4. pc'[w] = pc[w]
      BY <2>b, <3>2, <3>3
    <3>5. CASE PublishCompacted(k)
      <4>1. pc[k] = "swap" /\ pc' = [pc EXCEPT ![k] = "clear"]
        BY <3>5 DEF PublishCompacted
      <4>2. \A j \in Workers \ {k} : pc[j] = "none"
        BY <4>1 DEF AttemptInv, OneWorkerBehindFlag
      <4>3. Quiet' /\ ~Quiet
        BY <2>a, <2>b, <4>1, <4>2 DEF Quiet
      <4> QED BY <2>a, <3>2, <3>4, <4>3
    <3>6. CASE ~PublishCompacted(k)
      <4>1. UNCHANGED current /\ held'[w] = held[w]
        BY <3>1, <3>2, <3>6, <2>a DEF HWorkerStep, WorkerStep, LoadSource, LoadFull,
           DiscardCompacted, Panic, ClearFlag, TypeOK
      <4>2. Unchanged(w)' <=> Unchanged(w)
        BY <4>1 DEF Unchanged
      <4>3. Quiet => Quiet'
        BY <3>1, <3>6, <2>a, <2>b DEF Quiet, HWorkerStep, WorkerStep, LoadSource,
           DiscardCompacted, Panic, ClearFlag
      <4> QED BY <2>a, <3>2, <3>4, <4>2, <4>3
    <3> QED BY <3>5, <3>6
  <2>7. CASE UNCHANGED hvars
    BY <2>7, <2>a DEF hvars, vars, history, Unchanged, Quiet
  <2> QED BY <1>3, <2>1, <2>2, <2>3, <2>4, <2>5, <2>6, <2>7 DEF HNext, HWriterStep
<1> QED BY <1>1, <1>2, <1>3 DEF AttemptInv

\* With one writer an update is published on its second attempt at the latest.
THEOREM AtMostOneRetry == HSpec => []SecondTryPublishes
<1>1. AttemptInv => SecondTryPublishes
  BY DEF AttemptInv, Attempt, SecondTryPublishes
<1> QED BY <1>1, AttemptInit, AttemptStep, PTL DEF HSpec

-------------------------------------------------------------------------------
(***************************************************************************)
(* The delta remembers what it was told since the last compaction.         *)
(***************************************************************************)
\* Each file owns what it was registered with since then.
ScopeInv == remembered = current.delta.fileNodes

\* What a call publishes is its mutation of the published store.
LEMMA PublishApplies ==
  ASSUME PublicationInv, NEW w \in Writers, Publish(w)
  PROVE  LET m == call[w].mutation
         IN  /\ m \in Mutation /\ call[w] \in Calls
             /\ StoreOf(current) \in Store
             /\ StoreOf(current') = Applied(m, StoreOf(current))
<1> DEFINE m == call[w].mutation
           new == [base |-> held[w].base, delta |-> Mutate(m, StoreOf(held[w]))]
<1>1. w \in Threads /\ pc[w] = "swap"
  BY DEF Publish, Threads
<1>2. held[w] # NoSnapshot /\ call[w] # NoCall
  BY <1>1 DEF PublicationInv, ControlInv, HeldBetweenLoadAndSwap, CallUntilPublished
<1>3. new \in Store
  BY <1>2, PublishStore DEF PublicationInv, ControlInv
<1>4. Swap(w, new)
  BY DEF Publish
<1>5. StoreOf(current)' = new /\ StoreOf(held[w]) = StoreOf(current)
  BY <1>1, <1>3, <1>4, SwapIsAtomic
<1>6. new = Applied(m, StoreOf(current)) /\ StoreOf(current') = StoreOf(current)'
  BY <1>5 DEF Applied, StoreOf
<1>7. call[w] \in Calls /\ m \in Mutation
  BY <1>2, GraphAssumption DEF PublicationInv, ControlInv, TypeOK, GraphAssumption, Call
<1>8. StoreOf(current) \in Store
  BY StoreOfType DEF PublicationInv, ControlInv, TypeOK
<1> QED BY <1>5, <1>6, <1>7, <1>8

LEMMA ScopeInit == HInit => ScopeInv
<1> SUFFICES ASSUME HInit PROVE ScopeInv
  OBVIOUS
<1>1. current.delta = EmptyDelta
  BY DEF HInit, Init
<1>2. EmptyDelta.fileNodes = [f \in Files |-> {}]
  BY DEF EmptyDelta
<1> QED BY <1>1, <1>2 DEF HInit, ScopeInv

LEMMA ScopeStep ==
  PublicationInv /\ ScopeInv /\ [HNext]_hvars => ScopeInv'
<1> SUFFICES ASSUME PublicationInv, ScopeInv, [HNext]_hvars
             PROVE  ScopeInv'
  OBVIOUS
<1>1. ASSUME NEW w \in Writers, HPublish(w) PROVE ScopeInv'
  <2> DEFINE m == call[w].mutation
             s == StoreOf(current)
  <2>1. /\ m \in Mutation /\ s \in Store /\ StoreOf(current') = Applied(m, s)
        /\ current'.base = StoreOf(current').base /\ current'.delta = StoreOf(current').delta
        /\ s.delta.fileNodes = remembered
    BY <1>1, PublishApplies DEF HPublish, StoreOf, ScopeInv
  <2>2. remembered' = CASE m.type = "own"     -> [remembered EXCEPT ![m.file] = m.nodes]
                        [] m.type = "replace" -> [remembered EXCEPT ![m.file] =
                                                        m.defines \cup Sources(m.parsed)]
                        [] OTHER              -> remembered
    BY <1>1 DEF HPublish, Owning
  <2>3. current'.delta = Mutate(m, s)
    BY <2>1 DEF Applied
  <2>4. s.delta \in Delta
    BY <2>1 DEF Store
  <2> HIDE DEF m, s
  <2>5. CASE m.type = "own"
    BY <2>1, <2>2, <2>3, <2>4, <2>5 DEF Mutate, SetFileNodes, ScopeInv, Delta
  <2>6. CASE m.type = "add"
    BY <2>1, <2>2, <2>3, <2>4, <2>6 DEF Mutate, AddEdges, ScopeInv, Delta
  <2>7. CASE m.type = "replace"
    <3>1. remembered' = [remembered EXCEPT ![m.file] = m.defines \cup Sources(m.parsed)]
      BY <2>2, <2>7
    <3>2. Mutate(m, s) = ReplaceFileEdges(s.base, s.delta, m.file, m.parsed, m.defines)
      BY <2>7 DEF Mutate
    <3>3. ReplaceFileEdges(s.base, s.delta, m.file, m.parsed, m.defines).fileNodes =
            [s.delta.fileNodes EXCEPT ![m.file] = m.defines \cup Sources(m.parsed)]
      BY DEF ReplaceFileEdges
    <3> QED BY <2>1, <2>3, <3>1, <3>2, <3>3 DEF ScopeInv
  <2>8. CASE m.type = "relink"
    BY <2>1, <2>2, <2>3, <2>4, <2>8 DEF Mutate, ReplaceEdgesOfKind, ScopeInv, Delta
  <2> QED BY <2>1, <2>5, <2>6, <2>7, <2>8 DEF Mutation
<1>2. ASSUME NEW k \in Workers, HWorkerStep(k), PublishCompacted(k) PROVE ScopeInv'
  <2>1. k \in Threads /\ pc[k] = "swap" /\ held[k] # NoSnapshot
    BY <1>2 DEF PublishCompacted, Threads, PublicationInv, ControlInv, HeldBetweenLoadAndSwap
  <2>2. current'.delta = EmptyDelta
    BY <1>2 DEF PublishCompacted, Swap, Compact
  <2>3. current'.arc # current.arc
    BY <1>2 DEF PublishCompacted, Swap, Live
  <2>4. remembered' = [f \in Files |-> {}]
    BY <1>2, <2>3 DEF HWorkerStep
  <2> QED BY <2>2, <2>4 DEF ScopeInv, EmptyDelta
<1>3. ASSUME UNCHANGED <<current, remembered>> PROVE ScopeInv'
  BY <1>3 DEF ScopeInv
<1>4. CASE UNCHANGED hvars
  BY <1>3, <1>4 DEF hvars, vars, history
<1>5. ASSUME NEW w \in Writers, HEnter(w) PROVE ScopeInv'
  BY <1>3, <1>5 DEF HEnter, Enter
<1>6. ASSUME NEW w \in Writers, HWriterStep(w) PROVE ScopeInv'
  BY <1>1, <1>3, <1>6 DEF HWriterStep, HLoad, Load, Retry, LoseBatch, SpawnCompaction, history
<1>7. ASSUME NEW k \in Workers, HWorkerStep(k) PROVE ScopeInv'
  <2>1. CASE PublishCompacted(k)
    BY <1>2, <1>7, <2>1
  <2>2. CASE ~PublishCompacted(k)
    <3>1. UNCHANGED current
      BY <1>7, <2>2 DEF HWorkerStep, WorkerStep, LoadSource, DiscardCompacted, Panic, ClearFlag
    <3> QED BY <1>3, <1>7, <3>1 DEF HWorkerStep
  <2> QED BY <2>1, <2>2
<1> QED BY <1>4, <1>5, <1>6, <1>7 DEF HNext

\* A file's edges stay scoped whatever the writers and the compaction threads do:
\* what leaves the nodes a file was registered with since the last compaction is
\* exactly what was just parsed (delta.rs:55).
THEOREM ScopeIsKept == HSpec => ScopedSinceCompaction
<1>1. PublicationInv /\ ScopeInv => [Scoped(remembered)]_hvars
  <2> SUFFICES ASSUME PublicationInv, ScopeInv, NEW w \in Writers, HPublish(w),
                      call[w].mutation.type = "replace",
                      NEW n \in remembered[call[w].mutation.file]
               PROVE  View(StoreOf(current))'[n] = call[w].mutation.parsed[n]
    BY DEF Scoped
  <2> DEFINE m == call[w].mutation
             s == StoreOf(current)
  <2>1. /\ m \in Mutation /\ s \in Store /\ StoreOf(current') = Applied(m, s)
        /\ s.delta.fileNodes = remembered
    BY PublishApplies DEF HPublish, StoreOf, ScopeInv
  <2>2. /\ m.file \in Files /\ m.parsed \in Rows /\ m.defines \in SUBSET Nodes
        /\ m = [type |-> "replace", file |-> m.file, parsed |-> m.parsed, defines |-> m.defines]
    <3> HIDE DEF m
    <3>1. m.type = "replace"
      BY DEF m
    <3> QED BY <2>1, <3>1 DEF Mutation
  <2>3. n \in s.delta.fileNodes[m.file]
    BY <2>1
  <2>4. View(StoreOf(current))' = View(StoreOf(current'))
    BY DEF View, Neighbors, StoreOf
  <2> HIDE DEF m, s
  <2>5. View(Applied(m, s))[n] = m.parsed[n]
    BY <2>1, <2>2, <2>3, ReplaceScopesFile
  <2> QED BY <2>1, <2>4, <2>5 DEF m
<1>2. [HNext]_hvars => [Next]_vars
  BY StepsOfGraph
<1>3. HInit => PublicationInv
  BY PublicationInit DEF HInit
<1> QED BY <1>1, <1>2, <1>3, PublicationStep, ScopeInit, ScopeStep, PTL
        DEF HSpec, ScopedSinceCompaction

\* Re-linking a kind of which the base has no edge leaves exactly the new set, each
\* once, whatever happened before (delta.rs:102).
THEOREM LinksAreReplaced == HSpec => BufferedLinksReplaced
<1>1. PublicationInv => [Relinked(NotStored)]_hvars
  <2> SUFFICES ASSUME PublicationInv, NEW w \in Writers, HPublish(w),
                      call[w].mutation.type = "relink", call[w].mutation.kind \in NotStored,
                      NEW n \in Nodes, NEW e \in Edge, e.kind = call[w].mutation.kind
               PROVE  View(StoreOf(current))'[n][e] = call[w].mutation.links[n][e]
    BY DEF Relinked
  <2> DEFINE m == call[w].mutation
             s == StoreOf(current)
  <2>1. /\ m \in Mutation /\ s \in Store /\ StoreOf(current') = Applied(m, s)
    BY PublishApplies DEF HPublish
  <2>2. s.base.rows[n][e] = 0
    BY DEF NotStored, StoreOf
  <2>3. BaseRow(s.base, n)[e] = 0
    BY <2>1, <2>2 DEF BaseRow, NoEdges
  <2>4. View(StoreOf(current))' = View(StoreOf(current'))
    BY DEF View, Neighbors, StoreOf
  <2>5. m.type = "relink" /\ e.kind = m.kind
    OBVIOUS
  <2> HIDE DEF m, s
  <2>6. m.links \in Rows
    BY <2>1, <2>5 DEF Mutation
  <2>7. m.links[n][e] \in Nat
    BY <2>6 DEF Rows
  <2>8. Applied(m, s) = [base |-> s.base, delta |-> ReplaceEdgesOfKind(s.delta, m.kind, m.links)]
    BY <2>5 DEF Applied, Mutate
  <2>9. Applied(m, s).delta.added[n][e] = m.links[n][e]
    <3> DEFINE kept == [a \in Nodes |-> [b \in Edge |->
                          IF b.kind = m.kind THEN 0 ELSE s.delta.added[a][b]]]
    <3>1. s.delta = [added |-> s.delta.added, tombstoned |-> s.delta.tombstoned,
                     fileNodes |-> s.delta.fileNodes]
      BY <2>1 DEF Store, Delta
    <3>2. Applied(m, s).delta.added = AddRows(kept, m.links)
      BY <2>8, <3>1 DEF ReplaceEdgesOfKind
    <3>3. kept[n][e] = 0
      BY <2>5
    <3> HIDE DEF kept
    <3>4. AddRows(kept, m.links)[n][e] = kept[n][e] + m.links[n][e]
      BY DEF AddRows
    <3> QED BY <2>7, <3>2, <3>3, <3>4
  <2>10. BaseRow(Applied(m, s).base, n)[e] = 0
    BY <2>3, <2>8
  <2>11. View(Applied(m, s))[n][e] = m.links[n][e]
    BY <2>7, <2>9, <2>10 DEF View, Neighbors
  <2> QED BY <2>1, <2>4, <2>11 DEF m
<1>2. [HNext]_hvars => [Next]_vars
  BY StepsOfGraph
<1>3. HInit => PublicationInv
  BY PublicationInit DEF HInit
<1> QED BY <1>1, <1>2, <1>3, PublicationStep, PTL DEF HSpec, BufferedLinksReplaced
===============================================================================
