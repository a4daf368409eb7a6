------------------------------ MODULE DeltaStore ------------------------------
(***************************************************************************)
(* The data a graph snapshot is made of: the immutable base CSR (csr.rs),  *)
(* the delta store buffered over it (delta.rs), the union view a reader    *)
(* sees and the compaction that folds one into the other (graph.rs).       *)
(*                                                                         *)
(* An edge keeps its target and its kind; timestamp, authority and         *)
(* confidence are carried along by the code and decide nothing here.  The  *)
(* graph is a multigraph, so the edges leaving a node are a bag: a         *)
(* function from edges to how many copies there are.  The order of the     *)
(* copies is not modelled.                                                 *)
(***************************************************************************)
EXTENDS Integers, FiniteSets, Functions

CONSTANTS Nodes,      \* the node ids, u32 in the code
          Files,      \* the interned file keys
          Kinds,      \* the edge kinds
          Threshold   \* COMPACTION_THRESHOLD

ASSUME DeltaAssumption ==
  /\ Nodes \subseteq Nat
  /\ Threshold \in Nat \ {0}

Edge    == [target : Nodes, kind : Kinds]
NoEdges == [e \in Edge |-> 0]
Rows    == [Nodes -> [Edge -> Nat]]     \* per node, the bag of edges leaving it
NoRows  == [n \in Nodes |-> NoEdges]

AddRows(r, s) == [n \in Nodes |-> [e \in Edge |-> r[n][e] + s[n][e]]]

\* Nodes an edge of `rows` leaves, and nodes one enters.
Sources(rows) == {n \in Nodes : \E e \in Edge : rows[n][e] > 0}
Targets(rows) == {m \in Nodes : \E n \in Nodes, e \in Edge :
                                   rows[n][e] > 0 /\ e.target = m}

-------------------------------------------------------------------------------
(***************************************************************************)
(* Base CSR: `ids` is the set of node ids that have a row, 0 up to         *)
(* node_count - 1 in the code.                                             *)
(***************************************************************************)
Base == [ids : SUBSET Nodes, rows : Rows]

\* BaseCsr::edge_range is empty for a node past the last row.
BaseRow(base, n) == IF n \in base.ids THEN base.rows[n] ELSE NoEdges

\* The layout invariant BaseCsr::validate tests on a file: rows start at 0
\* without a gap, and every edge stays inside them.
BaseClosed(base) ==
  /\ \A n \in base.ids : \A m \in Nodes : m < n => m \in base.ids
  /\ Sources(base.rows) \subseteq base.ids
  /\ Targets(base.rows) \subseteq base.ids

-------------------------------------------------------------------------------
(***************************************************************************)
(* Delta store.                                                            *)
(***************************************************************************)
Delta == [added      : Rows,
          tombstoned : SUBSET (Nodes \X Nodes),
          fileNodes  : [Files -> SUBSET Nodes]]

EmptyDelta == [added      |-> NoRows,
               tombstoned |-> {},
               fileNodes  |-> [f \in Files |-> {}]]

Store == [base : Base, delta : Delta]

\* DeltaStore::len and the test against the threshold in Graph::update.
DeltaLen(d) ==
  LET copies == [p \in Nodes \X Edge |-> d.added[p[1]][p[2]]]
  IN  SumFunction(copies) + Cardinality(d.tombstoned)

Oversized(d) == DeltaLen(d) >= Threshold

\* Faulty variant: the targets of added edges are forgotten.
MentionedAsSource(d) == Sources(d.added) \cup UNION {d.fileNodes[f] : f \in Files}

\* DeltaStore::max_node: every id the delta mentions, as source, as target
\* or as a node of a file.
Mentioned(d) ==
  Sources(d.added) \cup Targets(d.added) \cup UNION {d.fileNodes[f] : f \in Files}

SetFileNodes(d, f, nodes) == [d EXCEPT !.fileNodes[f] = nodes]

AddEdges(d, edges) == [d EXCEPT !.added = AddRows(d.added, edges)]

\* Faulty variant: base edges are not tombstoned.
ReplaceBufferedEdges(base, d, f, parsed, defines) ==
  [added      |-> AddRows([n \in Nodes |-> IF n \in d.fileNodes[f] THEN NoEdges
                                                               ELSE d.added[n]], parsed),
   tombstoned |-> d.tombstoned,
   fileNodes  |-> [d.fileNodes EXCEPT ![f] = defines \cup Sources(parsed)]]

\* File-level scoping: the edges leaving the nodes the file owned go, buffered
\* ones at once and base ones behind a tombstone, and the parsed ones come.
ReplaceFileEdges(base, d, f, parsed, defines) ==
  LET owned   == d.fileNodes[f]
      kept    == [n \in Nodes |-> IF n \in owned THEN NoEdges ELSE d.added[n]]
      masked  == {p \in owned \X Nodes :
                    \E e \in Edge : e.target = p[2] /\ BaseRow(base, p[1])[e] > 0}
  IN  [added      |-> AddRows(kept, parsed),
       tombstoned |-> d.tombstoned \cup masked,
       fileNodes  |-> [d.fileNodes EXCEPT ![f] = defines \cup Sources(parsed)]]

\* Faulty variant: the old edges of the kind stay.
AddEdgesOfKind(d, kind, links) == AddEdges(d, links)

\* Every *buffered* edge of the kind goes; a copy in the base stays.
ReplaceEdgesOfKind(d, kind, links) ==
  LET kept == [n \in Nodes |->
                 [e \in Edge |-> IF e.kind = kind THEN 0 ELSE d.added[n][e]]]
  IN  [d EXCEPT !.added = AddRows(kept, links)]

-------------------------------------------------------------------------------
(***************************************************************************)
(* The union view, and compaction.                                         *)
(***************************************************************************)
\* GraphSnapshot::neighbors: base edges minus tombstones, then delta edges.
Neighbors(s, n) ==
  [e \in Edge |->
     (IF <<n, e.target>> \in s.delta.tombstoned THEN 0 ELSE BaseRow(s.base, n)[e])
     + s.delta.added[n][e]]

View(s) == [n \in Nodes |-> Neighbors(s, n)]

\* GraphSnapshot::width: every row of the base, and every id up to the highest
\* the delta mentions.
Covered(s) ==
  s.base.ids \cup {n \in Nodes : \E m \in Mentioned(s.delta) : n <= m}

\* Faulty variant: the base is rebuilt without looking at the tombstones.
CompactUnmasked(s) ==
  [base  |-> [ids |-> Covered(s), rows |-> AddRows(s.base.rows, s.delta.added)],
   delta |-> EmptyDelta]

\* GraphSnapshot::compact: the rows of the union view become the base, and the
\* delta starts empty -- its file ownership included.
Compact(s) ==
  [base  |-> [ids  |-> Covered(s),
              rows |-> [n \in Nodes |-> IF n \in Covered(s) THEN Neighbors(s, n)
                                                            ELSE NoEdges]],
   delta |-> EmptyDelta]

-------------------------------------------------------------------------------
(***************************************************************************)
(* The mutations the callers of Graph::update and Graph::update_batch pass *)
(* as their closure.                                                       *)
(***************************************************************************)
Mutation ==
       [type : {"own"},     file : Files, nodes : SUBSET Nodes]
  \cup [type : {"add"},     edges : Rows]
  \cup [type : {"replace"}, file : Files, parsed : Rows, defines : SUBSET Nodes]
  \cup [type : {"relink"},  kind : Kinds, links : Rows]

Mutate(m, s) ==
  CASE m.type = "own"     -> SetFileNodes(s.delta, m.file, m.nodes)
    [] m.type = "add"     -> AddEdges(s.delta, m.edges)
    [] m.type = "replace" -> ReplaceFileEdges(s.base, s.delta, m.file, m.parsed, m.defines)
    [] m.type = "relink"  -> ReplaceEdgesOfKind(s.delta, m.kind, m.links)

Applied(m, s) == [base |-> s.base, delta |-> Mutate(m, s)]
===============================================================================
