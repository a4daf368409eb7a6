---------------------------- MODULE AnalyseProofs -----------------------------
(***************************************************************************)
(* Ids are never used twice, and no link misleads: for any files, names,   *)
(* texts and ids, over any sequence of analyses, edits, locks, failed      *)
(* writes and crashes.                                                     *)
(***************************************************************************)
EXTENDS Analyse, FiniteSetTheorems, TLAPS

-------------------------------------------------------------------------------
(***************************************************************************)
(* The registry.                                                           *)
(***************************************************************************)
\* A registry whose names have nodes of their own, below the next id.
RegistryOK(r) ==
  /\ r = [node |-> r.node, next |-> r.next]
  /\ r.next \in Nat
  /\ r.node \in [Known(r) -> Nat]
  /\ \A s \in Known(r) : r.node[s] < r.next
  /\ IsInjective(r.node)

LEMMA EmptyRegistryOK ==
  ASSUME NEW count \in Nat
  PROVE  RegistryOK(NewRegistry(count)) /\ Known(NewRegistry(count)) = {}
<1>1. DOMAIN <<>> = {}
  OBVIOUS
<1> QED BY <1>1 DEF RegistryOK, NewRegistry, Known, IsInjective

LEMMA RestrictedOK ==
  ASSUME NEW r, RegistryOK(r), NEW S \in SUBSET Known(r)
  PROVE  /\ RegistryOK([r EXCEPT !.node = Restrict(@, S)])
         /\ [r EXCEPT !.node = Restrict(@, S)] = [node |-> Restrict(r.node, S), next |-> r.next]
         /\ DOMAIN Restrict(r.node, S) = S
         /\ \A s \in S : Restrict(r.node, S)[s] = r.node[s]
<1>1. [r EXCEPT !.node = Restrict(@, S)] = [node |-> Restrict(r.node, S), next |-> r.next]
  BY DEF RegistryOK
<1>2. /\ DOMAIN Restrict(r.node, S) = S
      /\ \A s \in S : Restrict(r.node, S)[s] = r.node[s]
  BY DEF Restrict
<1>3. RegistryOK([node |-> Restrict(r.node, S), next |-> r.next])
  BY DEF RegistryOK, Restrict, Known, IsInjective
<1> QED BY <1>1, <1>2, <1>3

LEMMA FreshIdsExist ==
  ASSUME NEW r, r.next \in Nat, NEW new, IsFiniteSet(new)
  PROVE  /\ FreshIds(r, new) \in [new -> r.next .. r.next + Cardinality(new) - 1]
         /\ IsInjective(FreshIds(r, new))
<1> DEFINE I == r.next .. r.next + Cardinality(new) - 1
<1>1. Cardinality(new) \in Nat
  BY FS_CardinalityType
<1>2. IsFiniteSet(I) /\ Cardinality(I) = Cardinality(new)
  <2>1. r.next \in Int /\ r.next + Cardinality(new) - 1 \in Int
    BY <1>1
  <2>2. /\ IsFiniteSet(I)
        /\ Cardinality(I) = IF r.next > r.next + Cardinality(new) - 1 THEN 0
                            ELSE (r.next + Cardinality(new) - 1) - r.next + 1
    BY <2>1, FS_Interval
  <2> QED BY <1>1, <2>2
<1>3. PICK g : g \in Bijection(new, I)
  BY <1>2, FS_SameCardinalityBij DEF ExistsBijection
<1>4. \E id \in [new -> I] : IsInjective(id)
  BY <1>3 DEF Bijection, Injection
<1>5. FreshIds(r, new) = CHOOSE id \in [new -> I] : IsInjective(id)
  BY DEF FreshIds
<1> HIDE DEF I
<1>6. FreshIds(r, new) \in [new -> I] /\ IsInjective(FreshIds(r, new))
  BY <1>4, <1>5
<1> QED BY <1>6 DEF I

\* get_or_mint gives ids that no name had, and keeps the others.
LEMMA MintOK ==
  ASSUME NEW r, RegistryOK(r), NEW symbols, IsFiniteSet(symbols)
  PROVE  LET m == Mint(r, symbols)
         IN  /\ RegistryOK(m)
             /\ Known(m) = Known(r) \cup symbols
             /\ r.next <= m.next
             /\ \A s \in Known(r) : m.node[s] = r.node[s]
             /\ \A s \in Known(m) \ Known(r) : r.next <= m.node[s]
<1> DEFINE new == symbols \ Known(r)
           ids == FreshIds(r, new)
           m   == Mint(r, symbols)
<1>1. IsFiniteSet(new)
  BY FS_Subset
<1>2. Cardinality(new) \in Nat
  BY <1>1, FS_CardinalityType
<1>3. /\ ids \in [new -> r.next .. r.next + Cardinality(new) - 1]
      /\ IsInjective(ids)
      /\ r.next \in Nat
  BY <1>1, FreshIdsExist DEF RegistryOK
<1>4. m = [node |-> [s \in Known(r) \cup symbols |-> IF s \in new THEN ids[s] ELSE r.node[s]],
           next |-> r.next + Cardinality(new)]
  BY DEF Mint
<1>a. \A s \in new : ids[s] \in Nat /\ r.next <= ids[s] /\ ids[s] < r.next + Cardinality(new)
  BY <1>2, <1>3
<1> HIDE DEF ids, m
<1>5. /\ Known(m) = Known(r) \cup symbols
      /\ \A s \in Known(m) : s \in Known(r) \/ s \in new
  BY <1>4 DEF Known
<1>6. m.next = r.next + Cardinality(new) /\ m.next \in Nat /\ r.next <= m.next
  BY <1>2, <1>3, <1>4
<1>7. \A s \in Known(r) :
         m.node[s] = r.node[s] /\ m.node[s] \in Nat /\ r.node[s] < r.next /\ m.node[s] < m.next
  <2>1. \A s \in Known(r) : m.node[s] = r.node[s]
    BY <1>4
  <2>2. \A s \in Known(r) : r.node[s] \in Nat /\ r.node[s] < r.next
    BY DEF RegistryOK
  <2> QED BY <1>3, <1>6, <2>1, <2>2
<1>8. \A s \in Known(m) \ Known(r) :
         s \in new /\ m.node[s] = ids[s] /\ m.node[s] \in Nat /\ r.next <= m.node[s] /\ m.node[s] < m.next
  <2>1. \A s \in new : m.node[s] = ids[s]
    BY <1>4
  <2> QED BY <1>a, <1>5, <1>6, <2>1
<1>9. m.node \in [Known(m) -> Nat] /\ \A s \in Known(m) : m.node[s] < m.next
  <2>1. \A s \in Known(m) : m.node[s] \in Nat /\ m.node[s] < m.next
    BY <1>7, <1>8
  <2>2. m.node = [s \in Known(m) |-> m.node[s]]
    BY <1>4, <1>5
  <2> QED BY <2>1, <2>2
<1>10. IsInjective(m.node)
  <2>1. DOMAIN m.node = Known(m)
    BY DEF Known
  <2>2. ASSUME NEW a \in Known(m), NEW b \in Known(m), m.node[a] = m.node[b]
        PROVE  a = b
    <3>1. CASE a \in Known(r) /\ b \in Known(r)
      BY <1>7, <2>2, <3>1 DEF RegistryOK, IsInjective, Known
    <3>2. CASE a \notin Known(r) /\ b \notin Known(r)
      <4>1. ids[a] = ids[b] /\ a \in new /\ b \in new
        BY <1>8, <2>2, <3>2
      <4>2. DOMAIN ids = new
        BY <1>3
      <4> QED BY <1>3, <4>1, <4>2 DEF IsInjective
    <3>3. CASE a \in Known(r) /\ b \notin Known(r)
      BY <1>3, <1>7, <1>8, <2>2, <3>3
    <3>4. CASE a \notin Known(r) /\ b \in Known(r)
      BY <1>3, <1>7, <1>8, <2>2, <3>4
    <3> QED BY <3>1, <3>2, <3>3, <3>4
  <2> QED BY <2>1, <2>2 DEF IsInjective
<1>11. m = [node |-> m.node, next |-> m.next]
  BY <1>4
<1>12. RegistryOK(m)
  BY <1>6, <1>9, <1>10, <1>11 DEF RegistryOK
<1> QED BY <1>5, <1>6, <1>7, <1>8, <1>12 DEF m

\* What minting does to a registry: it grows by names with new ids.
Grows(r, m) ==
  /\ r.next <= m.next
  /\ Known(r) \subseteq Known(m)
  /\ \A s \in Known(r) : m.node[s] = r.node[s]
  /\ \A s \in Known(m) \ Known(r) : r.next <= m.node[s]

LEMMA SymbolsAreFinite == IsFiniteSet(Symbol)
<1> DEFINE S == Files \cup {NoFile}
           T == Names \cup {Module}
           g == [p \in S \X T |-> [file |-> p[1], name |-> p[2]]]
<1>1. IsFiniteSet(S) /\ IsFiniteSet(T)
  BY RegistryAssumption, FS_AddElement
<1>2. IsFiniteSet(S \X T)
  BY <1>1, FS_Product
<1>3. g \in [S \X T -> Symbol]
  BY DEF Symbol
<1>4. \A y \in Symbol : \E p \in S \X T : g[p] = y
  <2> SUFFICES ASSUME NEW y \in Symbol PROVE \E p \in S \X T : g[p] = y
    OBVIOUS
  <2>1. y.file \in S /\ y.name \in T /\ y = [file |-> y.file, name |-> y.name]
    BY DEF Symbol
  <2>2. <<y.file, y.name>> \in S \X T
    BY <2>1
  <2>3. g[<<y.file, y.name>>] = y
    BY <2>1, <2>2
  <2> QED BY <2>2, <2>3
<1> HIDE DEF g
<1>5. g \in Surjection(S \X T, Symbol)
  BY <1>3, <1>4 DEF Surjection
<1> QED BY <1>2, <1>5, FS_Surjection

\* The ids below k.
Below(k) == {i \in Nat : i < k}

\* Every edge of the rows leaves and enters an id below k.
RowsBelow(rows, k) ==
  \A n \in Nodes, e \in Edge : rows[n][e] > 0 => n < k /\ e.target < k

LEMMA PairRowsOK ==
  ASSUME NEW pairs, NEW kind, NEW k, pairs \subseteq Below(k) \X Below(k)
  PROVE  /\ PairRows(pairs, kind) \in Rows
         /\ RowsBelow(PairRows(pairs, kind), k)
         /\ \A n \in Nodes, e \in Edge :
               PairRows(pairs, kind)[n][e] > 0 => e.kind = kind /\ <<n, e.target>> \in pairs
<1>1. \A n \in Nodes, e \in Edge :
         PairRows(pairs, kind)[n][e] = IF e.kind = kind /\ <<n, e.target>> \in pairs THEN 1 ELSE 0
  BY DEF PairRows
<1>2. PairRows(pairs, kind) \in Rows
  BY DEF PairRows, Rows
<1>3. \A n \in Nodes, e \in Edge :
         PairRows(pairs, kind)[n][e] > 0 => e.kind = kind /\ <<n, e.target>> \in pairs
  BY <1>1
<1>4. RowsBelow(PairRows(pairs, kind), k)
  BY <1>3 DEF RowsBelow, Below
<1> QED BY <1>2, <1>3, <1>4

\* The facts of a file mint what they name, and are calls between known ids.
LEMMA PrepareOK ==
  ASSUME NEW r, RegistryOK(r), NEW f \in Files, NEW text \in Text
  PROVE  LET p == PrepareFacts(r, f, text)
         IN  /\ RegistryOK(p.reg) /\ Grows(r, p.reg)
             /\ p.edges \in Rows /\ RowsBelow(p.edges, p.reg.next)
             /\ \A n \in Nodes, e \in Edge : p.edges[n][e] > 0 => e.kind # "link"
             /\ p.nodes \subseteq Below(p.reg.next)
<1> DEFINE defined == {Def(f, n) : n \in text.defines}
           first   == Mint(r, defined)
           ends    == {<<Def(f, c[1]), Callee(first, f, c[2])>> : c \in text.calls}
           named   == {e[1] : e \in ends} \cup {e[2] : e \in ends}
           second  == Mint(first, named)
           pairs   == {<<second.node[e[1]], second.node[e[2]]>> : e \in ends}
<1>1. text.defines \subseteq Names /\ text.calls \subseteq (Names \cup {Module}) \X Names
  BY DEF Text
<1>2. defined \subseteq Symbol
  BY <1>1 DEF Def, Symbol
<1>3. \A e \in ends : e[1] \in Symbol /\ e[2] \in Symbol
  <2> SUFFICES ASSUME NEW e \in ends PROVE e[1] \in Symbol /\ e[2] \in Symbol
    OBVIOUS
  <2>1. PICK c \in text.calls : e = <<Def(f, c[1]), Callee(first, f, c[2])>>
    OBVIOUS
  <2>2. c[1] \in Names \cup {Module} /\ c[2] \in Names
    BY <1>1
  <2>3. Def(f, c[1]) \in Symbol /\ Callee(first, f, c[2]) \in Symbol
    BY <2>2 DEF Def, Callee, Bare, Symbol
  <2> QED BY <2>1, <2>3
<1>4. IsFiniteSet(defined) /\ IsFiniteSet(named)
  <2>1. named \subseteq Symbol
    <3> HIDE DEF ends
    <3> QED BY <1>3
  <2> QED BY <1>2, <2>1, SymbolsAreFinite, FS_Subset
<1> HIDE DEF first
<1>5. /\ RegistryOK(first)
      /\ Known(first) = Known(r) \cup defined
      /\ r.next <= first.next
      /\ \A s \in Known(r) : first.node[s] = r.node[s]
      /\ \A s \in Known(first) \ Known(r) : r.next <= first.node[s]
  BY <1>4, MintOK DEF first
<1> HIDE DEF second
<1>6. /\ RegistryOK(second)
      /\ Known(second) = Known(first) \cup named
      /\ first.next <= second.next
      /\ \A s \in Known(first) : second.node[s] = first.node[s]
      /\ \A s \in Known(second) \ Known(first) : first.next <= second.node[s]
  BY <1>4, <1>5, MintOK DEF second
<1>7. r.next \in Nat /\ first.next \in Nat /\ second.next \in Nat
  BY <1>5, <1>6 DEF RegistryOK
<1>8. Grows(r, second)
  <2>1. \A s \in Known(r) : second.node[s] = r.node[s]
    BY <1>5, <1>6
  <2>2. ASSUME NEW s \in Known(second) \ Known(r) PROVE r.next <= second.node[s]
    <3>1. CASE s \in Known(first)
      BY <1>5, <1>6, <2>2, <3>1
    <3>2. CASE s \notin Known(first)
      <4>1. first.next <= second.node[s] /\ second.node[s] \in Nat
        BY <1>6, <2>2, <3>2 DEF RegistryOK
      <4> QED BY <1>5, <1>7, <4>1
    <3> QED BY <3>1, <3>2
  <2>3. r.next <= second.next
    BY <1>5, <1>6, <1>7
  <2> QED BY <1>5, <1>6, <2>1, <2>2, <2>3 DEF Grows
<1>9. \A s \in Known(second) : second.node[s] \in Below(second.next)
  BY <1>6 DEF RegistryOK, Below
<1>10. pairs \subseteq Below(second.next) \X Below(second.next)
  <2>1. \A e \in ends : e[1] \in Known(second) /\ e[2] \in Known(second)
    <3>1. \A e \in ends : e[1] \in named /\ e[2] \in named
      <4> HIDE DEF ends
      <4> QED OBVIOUS
    <3> QED BY <1>6, <3>1
  <2> HIDE DEF ends
  <2> QED BY <1>9, <2>1
<1>11. NodesOf(second, defined) \subseteq Below(second.next)
  <2>1. defined \subseteq Known(second)
    BY <1>5, <1>6
  <2> HIDE DEF defined
  <2> QED BY <1>9, <2>1 DEF NodesOf
<1>12. PrepareFacts(r, f, text) =
         [reg |-> second, edges |-> PairRows(pairs, "call"), nodes |-> NodesOf(second, defined)]
  BY DEF PrepareFacts, first, second
<1> HIDE DEF pairs
<1>13. /\ PairRows(pairs, "call") \in Rows
       /\ RowsBelow(PairRows(pairs, "call"), second.next)
       /\ \A n \in Nodes, e \in Edge : PairRows(pairs, "call")[n][e] > 0 => e.kind = "call"
  BY <1>10, PairRowsOK
<1> QED BY <1>6, <1>8, <1>11, <1>12, <1>13

-------------------------------------------------------------------------------
(***************************************************************************)
(* The graph.                                                              *)
(***************************************************************************)
\* Everything a delta mentions is an id below k.
DeltaOK(d, k) ==
  /\ d = [added |-> d.added, tombstoned |-> d.tombstoned, fileNodes |-> d.fileNodes]
  /\ d.added \in Rows /\ RowsBelow(d.added, k)
  /\ d.fileNodes \in [Files -> SUBSET Below(k)]

BaseOK(base, k) == base \in Base /\ BaseClosed(base) /\ base.ids \subseteq Below(k)

GraphOK(st, k) ==
  /\ st = [base |-> st.base, delta |-> st.delta]
  /\ BaseOK(st.base, k)
  /\ DeltaOK(st.delta, k)

LEMMA AddedEdges ==
  ASSUME NEW a \in Rows, NEW b \in Rows, NEW n \in Nodes, NEW e \in Edge
  PROVE  AddRows(a, b) \in Rows /\ (AddRows(a, b)[n][e] > 0 => a[n][e] > 0 \/ b[n][e] > 0)
<1>1. AddRows(a, b) \in Rows
  BY DEF AddRows, Rows
<1>2. AddRows(a, b)[n][e] = a[n][e] + b[n][e] /\ a[n][e] \in Nat /\ b[n][e] \in Nat
  BY DEF AddRows, Rows
<1> QED BY <1>1, <1>2

LEMMA DeltaWeakens ==
  ASSUME NEW d, NEW k \in Nat, NEW m \in Nat, k <= m, DeltaOK(d, k)
  PROVE  DeltaOK(d, m)
<1>1. Below(k) \subseteq Below(m)
  BY DEF Below
<1>2. RowsBelow(d.added, m)
  <2>1. \A n \in Nodes, e \in Edge : n \in Nat /\ e.target \in Nat
    BY DeltaAssumption DEF Edge
  <2> QED BY <2>1 DEF DeltaOK, RowsBelow
<1>3. d.fileNodes \in [Files -> SUBSET Below(m)]
  BY <1>1 DEF DeltaOK
<1> QED BY <1>2, <1>3 DEF DeltaOK

LEMMA GraphWeakens ==
  ASSUME NEW st, NEW k \in Nat, NEW m \in Nat, k <= m, GraphOK(st, k)
  PROVE  GraphOK(st, m)
<1>1. Below(k) \subseteq Below(m)
  BY DEF Below
<1> QED BY <1>1, DeltaWeakens DEF GraphOK, BaseOK

LEMMA EmptyGraphOK ==
  ASSUME NEW k
  PROVE  BaseOK(EmptyGraph, k) /\ DeltaOK(EmptyDelta, k)
<1>1. NoRows \in Rows /\ RowsBelow(NoRows, k)
  BY DEF NoRows, NoEdges, Rows, RowsBelow
<1>2. \A n \in Nodes, e \in Edge : ~(NoRows[n][e] > 0)
  BY DEF NoRows, NoEdges
<1>3. BaseClosed(EmptyGraph)
  BY <1>2 DEF BaseClosed, EmptyGraph, Sources, Targets
<1>4. BaseOK(EmptyGraph, k)
  BY <1>1, <1>3 DEF BaseOK, Base, EmptyGraph
<1>5. DeltaOK(EmptyDelta, k)
  BY <1>1 DEF DeltaOK, EmptyDelta
<1> QED BY <1>4, <1>5

\* set_file_nodes.
LEMMA OwnOK ==
  ASSUME NEW d, NEW k, DeltaOK(d, k), NEW f \in Files, NEW nodes \in SUBSET Below(k)
  PROVE  /\ DeltaOK(SetFileNodes(d, f, nodes), k)
         /\ SetFileNodes(d, f, nodes).added = d.added
<1>1. SetFileNodes(d, f, nodes) =
        [added |-> d.added, tombstoned |-> d.tombstoned,
         fileNodes |-> [d.fileNodes EXCEPT ![f] = nodes]]
  BY DEF SetFileNodes, DeltaOK
<1>2. [d.fileNodes EXCEPT ![f] = nodes] \in [Files -> SUBSET Below(k)]
  BY DEF DeltaOK
<1> QED BY <1>1, <1>2 DEF DeltaOK

\* replace_file_edges: what is buffered afterwards was buffered or is parsed.
LEMMA ReplaceOK ==
  ASSUME NEW base, NEW d, NEW k, DeltaOK(d, k), NEW f \in Files,
         NEW rows \in Rows, RowsBelow(rows, k), NEW defines \in SUBSET Below(k)
  PROVE  LET new == ReplaceFileEdges(base, d, f, rows, defines)
         IN  /\ DeltaOK(new, k)
             /\ \A n \in Nodes, e \in Edge :
                  new.added[n][e] > 0 => d.added[n][e] > 0 \/ rows[n][e] > 0
<1> DEFINE kept == [n \in Nodes |-> IF n \in d.fileNodes[f] THEN NoEdges ELSE d.added[n]]
           new  == ReplaceFileEdges(base, d, f, rows, defines)
<1>1. kept \in Rows /\ d.added \in Rows
  BY DEF DeltaOK, Rows, NoEdges
<1>2. \A n \in Nodes, e \in Edge : kept[n][e] > 0 => d.added[n][e] > 0
  BY DEF NoEdges
<1>3. new.added = AddRows(kept, rows)
  BY DEF ReplaceFileEdges
<1>4. new.fileNodes = [d.fileNodes EXCEPT ![f] = defines \cup Sources(rows)]
  BY DEF ReplaceFileEdges
<1>5. new = [added |-> new.added, tombstoned |-> new.tombstoned, fileNodes |-> new.fileNodes]
  BY DEF ReplaceFileEdges
<1> HIDE DEF kept, new
<1>6. \A n \in Nodes, e \in Edge :
         new.added[n][e] > 0 => d.added[n][e] > 0 \/ rows[n][e] > 0
  BY <1>1, <1>2, <1>3, AddedEdges
<1>7. new.added \in Rows
  BY <1>1, <1>3 DEF AddRows, Rows
<1>8. RowsBelow(new.added, k)
  BY <1>6 DEF RowsBelow, DeltaOK
<1>9. defines \cup Sources(rows) \subseteq Below(k)
  BY DeltaAssumption DEF Sources, RowsBelow, Below
<1>10. new.fileNodes \in [Files -> SUBSET Below(k)]
  BY <1>4, <1>9 DEF DeltaOK
<1> QED BY <1>5, <1>6, <1>7, <1>8, <1>10 DEF DeltaOK, new

\* replace_edges_of_kind: what is buffered afterwards was buffered or is new.
LEMMA RelinkOK ==
  ASSUME NEW d, NEW k, DeltaOK(d, k), NEW kind, NEW rows \in Rows, RowsBelow(rows, k)
  PROVE  LET new == ReplaceEdgesOfKind(d, kind, rows)
         IN  /\ DeltaOK(new, k)
             /\ \A n \in Nodes, e \in Edge :
                  new.added[n][e] > 0 => d.added[n][e] > 0 \/ rows[n][e] > 0
<1> DEFINE kept == [n \in Nodes |-> [e \in Edge |-> IF e.kind = kind THEN 0 ELSE d.added[n][e]]]
           new  == ReplaceEdgesOfKind(d, kind, rows)
<1>1. kept \in Rows /\ d.added \in Rows
  BY DEF DeltaOK, Rows
<1>2. \A n \in Nodes, e \in Edge : kept[n][e] > 0 => d.added[n][e] > 0
  OBVIOUS
<1>3. new = [added |-> AddRows(kept, rows), tombstoned |-> d.tombstoned,
             fileNodes |-> d.fileNodes]
  BY DEF ReplaceEdgesOfKind, DeltaOK
<1> HIDE DEF kept, new
<1>4. \A n \in Nodes, e \in Edge :
         new.added[n][e] > 0 => d.added[n][e] > 0 \/ rows[n][e] > 0
  BY <1>1, <1>2, <1>3, AddedEdges
<1>5. new.added \in Rows
  BY <1>1, <1>3 DEF AddRows, Rows
<1>6. RowsBelow(new.added, k)
  BY <1>4 DEF RowsBelow, DeltaOK
<1> QED BY <1>3, <1>4, <1>5, <1>6 DEF DeltaOK, new

\* A reader sees no edge that neither the base nor the delta holds.
LEMMA ViewedEdges ==
  ASSUME NEW st, NEW k, GraphOK(st, k), NEW n \in Nodes, NEW e \in Edge
  PROVE  /\ Neighbors(st, n)[e] \in Nat
         /\ Neighbors(st, n)[e] > 0 => st.base.rows[n][e] > 0 \/ st.delta.added[n][e] > 0
<1> DEFINE base  == IF <<n, e.target>> \in st.delta.tombstoned THEN 0 ELSE BaseRow(st.base, n)[e]
           added == st.delta.added[n][e]
<1>1. Neighbors(st, n)[e] = base + added
  BY DEF Neighbors
<1>2. added \in Nat /\ st.base.rows[n][e] \in Nat
  BY DEF GraphOK, BaseOK, DeltaOK, Base, Rows
<1>3. base \in Nat /\ (base > 0 => st.base.rows[n][e] > 0)
  BY <1>2 DEF BaseRow, NoEdges
<1> HIDE DEF base, added
<1>4. base + added \in Nat /\ (base + added > 0 => base > 0 \/ added > 0)
  BY <1>2, <1>3
<1> QED BY <1>1, <1>3, <1>4 DEF added

LEMMA EdgesBelow ==
  ASSUME NEW st, NEW k, GraphOK(st, k), NEW n \in Nodes, NEW e \in Edge,
         Neighbors(st, n)[e] > 0
  PROVE  n < k /\ e.target < k
<1>1. CASE st.base.rows[n][e] > 0
  <2>1. n \in Sources(st.base.rows) /\ e.target \in Targets(st.base.rows)
    BY <1>1 DEF Sources, Targets, Edge
  <2> QED BY <2>1 DEF GraphOK, BaseOK, BaseClosed, Below
<1>2. CASE st.delta.added[n][e] > 0
  BY <1>2 DEF GraphOK, DeltaOK, RowsBelow
<1> QED BY <1>1, <1>2, ViewedEdges

LEMMA ReferencedBelow ==
  ASSUME NEW st, NEW k, GraphOK(st, k)
  PROVE  \A n \in Referenced(st) : n < k
<1>1. \A n \in Nodes : View(st)[n] = Neighbors(st, n)
  BY DEF View
<1> SUFFICES ASSUME NEW m \in Referenced(st) PROVE m < k
  OBVIOUS
<1>2. \/ m \in Nodes /\ \E e \in Edge : View(st)[m][e] > 0
      \/ \E e \in Edge : m = e.target /\ \E n \in Nodes : View(st)[n][e] > 0
  BY DEF Referenced
<1> QED BY <1>1, <1>2, EdgesBelow

\* compact keeps edges and makes none.
LEMMA CompactOK ==
  ASSUME NEW st, NEW k \in Nat, GraphOK(st, k)
  PROVE  LET b == Compact(st).base
         IN  /\ BaseOK(b, k)
             /\ \A n \in Nodes, e \in Edge :
                  b.rows[n][e] > 0 => st.base.rows[n][e] > 0 \/ st.delta.added[n][e] > 0
<1> DEFINE b == Compact(st).base
<1>1. b = [ids  |-> Covered(st),
           rows |-> [n \in Nodes |-> IF n \in Covered(st) THEN Neighbors(st, n) ELSE NoEdges]]
  BY DEF Compact
<1>2. \A n \in Nodes, e \in Edge : b.rows[n][e] \in Nat
  BY <1>1, ViewedEdges DEF NoEdges
<1>3. \A n \in Nodes, e \in Edge : b.rows[n][e] > 0 => n \in Covered(st) /\ Neighbors(st, n)[e] > 0
  BY <1>1 DEF NoEdges
<1>4. Covered(st) \subseteq Nodes
  BY DEF Covered, GraphOK, BaseOK, Base
<1>5. b \in Base
  <2>1. \A n \in Nodes : b.rows[n] \in [Edge -> Nat]
    <3> SUFFICES ASSUME NEW n \in Nodes PROVE b.rows[n] \in [Edge -> Nat]
      OBVIOUS
    <3>1. b.rows[n] = Neighbors(st, n) \/ b.rows[n] = NoEdges
      BY <1>1
    <3>2. Neighbors(st, n) \in [Edge -> Nat]
      <4>1. \A e \in Edge : Neighbors(st, n)[e] \in Nat
        BY ViewedEdges
      <4>2. Neighbors(st, n) = [e \in Edge |-> Neighbors(st, n)[e]]
        BY DEF Neighbors
      <4> QED BY <4>1, <4>2
    <3> QED BY <3>1, <3>2 DEF NoEdges
  <2>2. b.rows = [n \in Nodes |-> b.rows[n]]
    BY <1>1
  <2>3. b.rows \in Rows
    BY <2>1, <2>2 DEF Rows
  <2> QED BY <1>1, <1>4, <2>3 DEF Base
<1> HIDE DEF b
<1>6. Mentioned(st.delta) \subseteq Below(k)
  <2>1. Sources(st.delta.added) \subseteq Below(k)
    BY DeltaAssumption DEF Sources, GraphOK, DeltaOK, RowsBelow, Below
  <2>2. Targets(st.delta.added) \subseteq Below(k)
    BY DeltaAssumption DEF Targets, GraphOK, DeltaOK, RowsBelow, Below
  <2>3. \A f \in Files : st.delta.fileNodes[f] \subseteq Below(k)
    BY DEF GraphOK, DeltaOK
  <2> QED BY <2>1, <2>2, <2>3 DEF Mentioned
<1>7. Covered(st) \subseteq Below(k)
  <2> SUFFICES ASSUME NEW n \in Covered(st) PROVE n \in Below(k)
    OBVIOUS
  <2>1. CASE n \in st.base.ids
    BY <2>1 DEF GraphOK, BaseOK
  <2>2. CASE n \notin st.base.ids
    <3>1. PICK m \in Mentioned(st.delta) : n \in Nodes /\ n <= m
      BY <2>2 DEF Covered
    <3>2. m \in Nat /\ m < k
      BY <1>6, <3>1 DEF Below
    <3>3. n \in Nat
      BY <3>1, DeltaAssumption
    <3>4. Below(k) = {i \in Nat : i < k}
      BY DEF Below
    <3> QED BY <3>1, <3>2, <3>3, <3>4
  <2> QED BY <2>1, <2>2
<1>8. \A n \in Covered(st) : \A m \in Nodes : m < n => m \in Covered(st)
  <2> SUFFICES ASSUME NEW n \in Covered(st), NEW m \in Nodes, m < n
               PROVE  m \in Covered(st)
    OBVIOUS
  <2>1. CASE n \in st.base.ids
    BY <2>1 DEF GraphOK, BaseOK, BaseClosed, Covered
  <2>2. CASE n \notin st.base.ids
    <3>1. PICK j \in Mentioned(st.delta) : n \in Nodes /\ n <= j
      BY <2>2 DEF Covered
    <3>2. j \in Nat /\ n \in Nat /\ m \in Nat
      BY <1>6, <3>1, DeltaAssumption DEF Below
    <3>3. m <= j
      BY <3>1, <3>2
    <3> QED BY <3>1, <3>3 DEF Covered
  <2> QED BY <2>1, <2>2
<1>9. \A n \in Nodes, e \in Edge : b.rows[n][e] > 0 => e.target \in Covered(st)
  <2> SUFFICES ASSUME NEW n \in Nodes, NEW e \in Edge, b.rows[n][e] > 0
               PROVE  e.target \in Covered(st)
    OBVIOUS
  <2>1. e.target \in Nodes
    BY DEF Edge
  <2>2. CASE st.base.rows[n][e] > 0
    BY <2>1, <2>2 DEF GraphOK, BaseOK, BaseClosed, Targets, Covered
  <2>3. CASE st.delta.added[n][e] > 0
    <3>1. e.target \in Mentioned(st.delta)
      BY <2>1, <2>3 DEF Mentioned, Targets
    <3>2. e.target <= e.target
      BY <2>1, DeltaAssumption
    <3> QED BY <2>1, <3>1, <3>2 DEF Covered
  <2> QED BY <1>3, <2>2, <2>3, ViewedEdges
<1>10. BaseClosed(b)
  <2>1. Sources(b.rows) \subseteq b.ids
    BY <1>1, <1>3 DEF Sources
  <2>2. Targets(b.rows) \subseteq b.ids
    BY <1>1, <1>9 DEF Targets
  <2> QED BY <1>1, <1>8, <2>1, <2>2 DEF BaseClosed
<1>11. BaseOK(b, k)
  BY <1>1, <1>5, <1>7, <1>10 DEF BaseOK
<1> QED BY <1>3, <1>11, ViewedEdges DEF b

\* A base without gaps has ids below their number, so that ids start past them.
LEMMA IdsBelowCount ==
  ASSUME NEW base, NEW k \in Nat, BaseOK(base, k)
  PROVE  /\ Cardinality(base.ids) \in Nat
         /\ BaseOK(base, Cardinality(base.ids))
<1>1. IsFiniteSet(base.ids)
  <2>1. IsFiniteSet(0 .. k - 1)
    BY FS_Interval
  <2>2. base.ids \subseteq 0 .. k - 1
    BY DEF BaseOK, Below
  <2> QED BY <2>1, <2>2, FS_Subset
<1>2. Cardinality(base.ids) \in Nat
  BY <1>1, FS_CardinalityType
<1>3. ASSUME NEW n \in base.ids PROVE n \in Nat /\ n < Cardinality(base.ids)
  <2>1. n \in Nodes /\ n \in Nat
    BY DeltaAssumption DEF BaseOK, Base
  <2>2. 0 .. n \subseteq base.ids
    <3> SUFFICES ASSUME NEW m \in 0 .. n PROVE m \in base.ids
      OBVIOUS
    <3>1. m \in Nodes
      BY <2>1, RegistryAssumption
    <3>2. m = n \/ m < n
      BY <2>1
    <3> QED BY <3>1, <3>2 DEF BaseOK, BaseClosed
  <2>3. Cardinality(0 .. n) = n + 1
    <3>1. Cardinality(0 .. n) = IF 0 > n THEN 0 ELSE n - 0 + 1
      BY <2>1, FS_Interval
    <3> QED BY <2>1, <3>1
  <2>4. Cardinality(0 .. n) <= Cardinality(base.ids)
    BY <1>1, <2>2, FS_Subset
  <2> QED BY <1>2, <2>1, <2>3, <2>4
<1>4. base.ids \subseteq Below(Cardinality(base.ids))
  BY <1>3 DEF Below
<1> QED BY <1>2, <1>4 DEF BaseOK

-------------------------------------------------------------------------------
(***************************************************************************)
(* Links.                                                                  *)
(***************************************************************************)
\* A link of the rows leaves a placeholder and leads to a definition of its
\* name, as far as its ends have names.
LinksFit(node, rows) ==
  \A n \in Nodes, e \in Edge : e.kind = "link" /\ rows[n][e] > 0 =>
    \A s \in DOMAIN node :
      /\ node[s] = n => ~Qualified(s)
      /\ node[s] = e.target =>
           Qualified(s) /\ \A p \in DOMAIN node : node[p] = n => s.name = p.name

\* Fewer names, and fewer edges, fit as well.
LEMMA FitsLess ==
  ASSUME NEW node, NEW less, NEW rows, LinksFit(node, rows),
         DOMAIN less \subseteq DOMAIN node, \A s \in DOMAIN less : less[s] = node[s]
  PROVE  LinksFit(less, rows)
BY DEF LinksFit

LEMMA FitsUnion ==
  ASSUME NEW node, NEW a, NEW b, NEW rows, LinksFit(node, a), LinksFit(node, b),
         \A n \in Nodes, e \in Edge :
            e.kind = "link" /\ rows[n][e] > 0 => a[n][e] > 0 \/ b[n][e] > 0
  PROVE  LinksFit(node, rows)
BY DEF LinksFit

LEMMA FitsNone ==
  ASSUME NEW node, NEW rows,
         \A n \in Nodes, e \in Edge : rows[n][e] > 0 => e.kind # "link"
  PROVE  LinksFit(node, rows)
BY DEF LinksFit

\* A name that is minted gets an id no edge has.
LEMMA FitsGrown ==
  ASSUME NEW r, NEW m, RegistryOK(r), RegistryOK(m), Grows(r, m),
         NEW rows, RowsBelow(rows, r.next), LinksFit(r.node, rows)
  PROVE  LinksFit(m.node, rows)
<1> SUFFICES ASSUME NEW n \in Nodes, NEW e \in Edge, e.kind = "link", rows[n][e] > 0,
                    NEW s \in DOMAIN m.node
             PROVE  /\ m.node[s] = n => ~Qualified(s)
                    /\ m.node[s] = e.target =>
                         Qualified(s) /\ \A p \in DOMAIN m.node : m.node[p] = n => s.name = p.name
  BY DEF LinksFit
<1>1. n < r.next /\ e.target < r.next /\ n \in Nat /\ e.target \in Nat /\ r.next \in Nat
  BY DeltaAssumption DEF RowsBelow, Edge, RegistryOK
<1>2. ASSUME NEW q \in DOMAIN m.node, m.node[q] = n \/ m.node[q] = e.target
      PROVE  q \in DOMAIN r.node /\ r.node[q] = m.node[q]
  <2>1. CASE q \notin DOMAIN r.node
    <3>1. r.next <= m.node[q] /\ m.node[q] \in Nat
      BY <2>1 DEF Grows, Known, RegistryOK
    <3> QED BY <1>1, <1>2, <3>1
  <2> QED BY <2>1 DEF Grows, Known
<1> QED BY <1>2 DEF LinksFit

-------------------------------------------------------------------------------
(***************************************************************************)
(* An analysis: a registry and the graph whose ids it hands out.           *)
(***************************************************************************)
AnalysisOK(r, st) ==
  /\ RegistryOK(r)
  /\ GraphOK(st, r.next)
  /\ LinksFit(r.node, st.base.rows)
  /\ LinksFit(r.node, st.delta.added)

\* Forgetting names disturbs nothing.
LEMMA ForgetOK ==
  ASSUME NEW r, NEW st, AnalysisOK(r, st), NEW S \in SUBSET Known(r)
  PROVE  AnalysisOK([r EXCEPT !.node = Restrict(@, S)], st)
<1> DEFINE m == [r EXCEPT !.node = Restrict(@, S)]
<1>1. /\ RegistryOK(m) /\ m.next = r.next /\ m.node = Restrict(r.node, S)
      /\ DOMAIN m.node = S
      /\ \A s \in S : m.node[s] = r.node[s]
  <2>1. RegistryOK(r)
    BY DEF AnalysisOK
  <2>2. /\ RegistryOK(m)
        /\ m = [node |-> Restrict(r.node, S), next |-> r.next]
        /\ DOMAIN Restrict(r.node, S) = S
        /\ \A s \in S : Restrict(r.node, S)[s] = r.node[s]
    BY <2>1, RestrictedOK
  <2> HIDE DEF m
  <2> QED BY <2>2
<1> HIDE DEF m
<1>2. LinksFit(m.node, st.base.rows) /\ LinksFit(m.node, st.delta.added)
  BY <1>1, FitsLess DEF AnalysisOK, Known
<1> QED BY <1>1, <1>2 DEF AnalysisOK, m

\* A delta that holds nothing new of links may take the place of another.
LEMMA NewDeltaOK ==
  ASSUME NEW r, NEW st, AnalysisOK(r, st), NEW d, DeltaOK(d, r.next),
         LinksFit(r.node, d.added)
  PROVE  AnalysisOK(r, [st EXCEPT !.delta = d])
<1>1. [st EXCEPT !.delta = d] = [base |-> st.base, delta |-> d]
  BY DEF AnalysisOK, GraphOK
<1> QED BY <1>1 DEF AnalysisOK, GraphOK

LEMMA OwnedOK ==
  ASSUME NEW r, NEW st, AnalysisOK(r, st), NEW f \in Files
  PROVE  AnalysisOK(r, [st EXCEPT !.delta = SetFileNodes(@, f, NodesOf(r, SymbolsOf(r, f)))])
<1> DEFINE d == SetFileNodes(st.delta, f, NodesOf(r, SymbolsOf(r, f)))
<1>1. NodesOf(r, SymbolsOf(r, f)) \subseteq Below(r.next)
  <2>1. \A s \in Known(r) : r.node[s] \in Below(r.next)
    BY DEF AnalysisOK, RegistryOK, Below
  <2> QED BY <2>1 DEF NodesOf, SymbolsOf
<1>2. DeltaOK(d, r.next) /\ d.added = st.delta.added
  BY <1>1, OwnOK DEF AnalysisOK, GraphOK
<1>3. [st EXCEPT !.delta = SetFileNodes(@, f, NodesOf(r, SymbolsOf(r, f)))]
        = [st EXCEPT !.delta = d]
  BY DEF AnalysisOK, GraphOK
<1> HIDE DEF d
<1>4. AnalysisOK(r, [st EXCEPT !.delta = d])
  BY <1>2, NewDeltaOK DEF AnalysisOK
<1> QED BY <1>3, <1>4

\* apply_facts_into.
LEMMA ApplyFactsOK ==
  ASSUME NEW r, NEW st, AnalysisOK(r, st), NEW f \in Files, NEW text \in Text
  PROVE  AnalysisOK(ApplyFacts(r, st, f, text).reg, ApplyFacts(r, st, f, text).store)
<1> DEFINE facts == PrepareFacts(r, f, text)
           d     == ReplaceFileEdges(st.base, st.delta, f, facts.edges, facts.nodes)
           gone  == st.delta.fileNodes[f] \ facts.nodes
           kept  == {s \in Known(facts.reg) : facts.reg.node[s] \notin gone}
           st2   == [st EXCEPT !.delta = d]
<1>1. /\ ApplyFacts(r, st, f, text).reg = [facts.reg EXCEPT !.node = Restrict(@, kept)]
      /\ ApplyFacts(r, st, f, text).store = st2
  BY DEF ApplyFacts, ForgetNodes
<1> HIDE DEF facts
<1>2. /\ RegistryOK(facts.reg) /\ Grows(r, facts.reg)
      /\ facts.edges \in Rows /\ RowsBelow(facts.edges, facts.reg.next)
      /\ \A n \in Nodes, e \in Edge : facts.edges[n][e] > 0 => e.kind # "link"
      /\ facts.nodes \subseteq Below(facts.reg.next)
  BY PrepareOK DEF facts, AnalysisOK
<1>3. r.next \in Nat /\ facts.reg.next \in Nat /\ r.next <= facts.reg.next
  BY <1>2 DEF AnalysisOK, RegistryOK, Grows
<1>4. GraphOK(st, facts.reg.next)
  BY <1>3, GraphWeakens DEF AnalysisOK
<1>5. RowsBelow(st.base.rows, r.next)
  <2> SUFFICES ASSUME NEW n \in Nodes, NEW e \in Edge, st.base.rows[n][e] > 0
               PROVE  n < r.next /\ e.target < r.next
    BY DEF RowsBelow
  <2>1. n \in Sources(st.base.rows) /\ e.target \in Targets(st.base.rows)
    BY DEF Sources, Targets, Edge
  <2> QED BY <2>1 DEF AnalysisOK, GraphOK, BaseOK, BaseClosed, Below
<1>6. RowsBelow(st.delta.added, r.next)
  BY DEF AnalysisOK, GraphOK, DeltaOK
<1>7. LinksFit(facts.reg.node, st.base.rows) /\ LinksFit(facts.reg.node, st.delta.added)
  BY <1>2, <1>5, <1>6, FitsGrown DEF AnalysisOK
<1>8. AnalysisOK(facts.reg, st)
  BY <1>2, <1>4, <1>7 DEF AnalysisOK
<1>9. /\ DeltaOK(d, facts.reg.next)
      /\ \A n \in Nodes, e \in Edge :
           d.added[n][e] > 0 => st.delta.added[n][e] > 0 \/ facts.edges[n][e] > 0
  BY <1>2, <1>4, ReplaceOK DEF GraphOK
<1> HIDE DEF d
<1>10. LinksFit(facts.reg.node, facts.edges)
  BY <1>2, FitsNone
<1>11. LinksFit(facts.reg.node, d.added)
  BY <1>7, <1>9, <1>10, FitsUnion
<1>12. AnalysisOK(facts.reg, st2)
  BY <1>8, <1>9, <1>11, NewDeltaOK
<1> HIDE DEF st2
<1>13. AnalysisOK([facts.reg EXCEPT !.node = Restrict(@, kept)], st2)
  BY <1>12, ForgetOK
<1> QED BY <1>1, <1>13

\* A file that is gone.
LEMMA VanishOK ==
  ASSUME NEW r, NEW st, AnalysisOK(r, st), NEW f \in Files
  PROVE  AnalysisOK(Vanish(r, st, f).reg, Vanish(r, st, f).store)
<1> DEFINE d   == ReplaceFileEdges(st.base, st.delta, f, NoRows, st.delta.fileNodes[f])
           st2 == [st EXCEPT !.delta = d]
           left == Known(r) \ SymbolsOf(r, f)
<1>1. /\ Vanish(r, st, f).reg = [r EXCEPT !.node = Restrict(@, left)]
      /\ Vanish(r, st, f).store = st2
  BY DEF Vanish, ForgetFile
<1>2. NoRows \in Rows /\ \A n \in Nodes, e \in Edge : ~(NoRows[n][e] > 0)
  BY DEF NoRows, NoEdges, Rows
<1>3. RowsBelow(NoRows, r.next)
  BY <1>2 DEF RowsBelow
<1>4. st.delta.fileNodes[f] \in SUBSET Below(r.next)
  BY DEF AnalysisOK, GraphOK, DeltaOK
<1>5. /\ DeltaOK(d, r.next)
      /\ \A n \in Nodes, e \in Edge :
           d.added[n][e] > 0 => st.delta.added[n][e] > 0 \/ NoRows[n][e] > 0
  <2>1. DeltaOK(st.delta, r.next)
    BY DEF AnalysisOK, GraphOK
  <2>2. \A owned \in SUBSET Below(r.next) :
          LET new == ReplaceFileEdges(st.base, st.delta, f, NoRows, owned)
          IN  /\ DeltaOK(new, r.next)
              /\ \A n \in Nodes, e \in Edge :
                   new.added[n][e] > 0 => st.delta.added[n][e] > 0 \/ NoRows[n][e] > 0
    BY <1>2, <1>3, <2>1, ReplaceOK
  <2> QED BY <1>4, <2>2
<1> HIDE DEF d
<1>6. LinksFit(r.node, d.added)
  BY <1>2, <1>5, FitsUnion DEF AnalysisOK
<1>7. AnalysisOK(r, st2)
  BY <1>5, <1>6, NewDeltaOK
<1> HIDE DEF st2
<1>8. AnalysisOK([r EXCEPT !.node = Restrict(@, left)], st2)
  BY <1>7, ForgetOK
<1> QED BY <1>1, <1>8

\* link_placeholders_quiet.
LEMMA LinkedOK ==
  ASSUME NEW r, NEW st, AnalysisOK(r, st)
  PROVE  AnalysisOK(r, LinkPlaceholders(r, st))
<1> DEFINE pairs == {<<r.node[l[1]], r.node[l[2]]>> : l \in Links(r)}
           rows  == PairRows(pairs, "link")
           d     == ReplaceEdgesOfKind(st.delta, "link", rows)
<1>1. LinkPlaceholders(r, st) = st \/ LinkPlaceholders(r, st) = [st EXCEPT !.delta = d]
  BY DEF LinkPlaceholders
<1>2. ASSUME NEW l \in Links(r)
      PROVE  /\ l[1] \in Known(r) /\ ~Qualified(l[1])
             /\ l[2] \in Known(r) /\ Qualified(l[2]) /\ l[2].name = l[1].name
  <2>1. l[1] \in Known(r) /\ ~Qualified(l[1]) /\ l[2] \in Defining(r, l[1].name)
    BY DEF Links
  <2> QED BY <2>1 DEF Defining
<1>4. \A p \in pairs : \E l \in Links(r) : p = <<r.node[l[1]], r.node[l[2]]>>
  OBVIOUS
<1>3. pairs \subseteq Below(r.next) \X Below(r.next)
  <2>1. \A s \in Known(r) : r.node[s] \in Below(r.next)
    BY DEF AnalysisOK, RegistryOK, Below
  <2>2. ASSUME NEW p \in pairs PROVE p \in Below(r.next) \X Below(r.next)
    <3>1. PICK l \in Links(r) : p = <<r.node[l[1]], r.node[l[2]]>>
      BY <1>4
    <3>2. r.node[l[1]] \in Below(r.next) /\ r.node[l[2]] \in Below(r.next)
      BY <1>2, <2>1
    <3> QED BY <3>1, <3>2
  <2> HIDE DEF pairs
  <2> QED BY <2>2
<1> HIDE DEF pairs
<1>5. /\ rows \in Rows /\ RowsBelow(rows, r.next)
      /\ \A n \in Nodes, e \in Edge :
           rows[n][e] > 0 => e.kind = "link" /\ <<n, e.target>> \in pairs
  BY <1>3, PairRowsOK
<1> HIDE DEF rows
<1>6. LinksFit(r.node, rows)
  <2> SUFFICES ASSUME NEW n \in Nodes, NEW e \in Edge, rows[n][e] > 0, NEW s \in DOMAIN r.node
               PROVE  /\ r.node[s] = n => ~Qualified(s)
                      /\ r.node[s] = e.target =>
                           Qualified(s) /\ \A p \in DOMAIN r.node : r.node[p] = n => s.name = p.name
    BY DEF LinksFit
  <2>1. PICK l \in Links(r) : <<n, e.target>> = <<r.node[l[1]], r.node[l[2]]>>
    BY <1>4, <1>5
  <2>2. n = r.node[l[1]] /\ e.target = r.node[l[2]]
    BY <2>1
  <2>3. \A q \in DOMAIN r.node : /\ r.node[q] = n => q = l[1]
                                 /\ r.node[q] = e.target => q = l[2]
    BY <1>2, <2>2 DEF AnalysisOK, RegistryOK, IsInjective, Known
  <2> QED BY <1>2, <2>3
<1>7. /\ DeltaOK(d, r.next)
      /\ \A n \in Nodes, e \in Edge :
           d.added[n][e] > 0 => st.delta.added[n][e] > 0 \/ rows[n][e] > 0
  BY <1>5, RelinkOK DEF AnalysisOK, GraphOK
<1> HIDE DEF d
<1>8. LinksFit(r.node, d.added)
  BY <1>6, <1>7, FitsUnion DEF AnalysisOK
<1>9. AnalysisOK(r, [st EXCEPT !.delta = d])
  BY <1>7, <1>8, NewDeltaOK
<1> QED BY <1>1, <1>9

LEMMA ForgetOrphansOK ==
  ASSUME NEW r, NEW st, AnalysisOK(r, st), NEW referenced
  PROVE  AnalysisOK(ForgetOrphans(r, referenced), st)
<1> DEFINE S == {s \in Known(r) : Qualified(s) \/ r.node[s] \in referenced}
<1>1. ForgetOrphans(r, referenced) = [r EXCEPT !.node = Restrict(@, S)]
  BY DEF ForgetOrphans
<1>2. S \in SUBSET Known(r)
  OBVIOUS
<1> HIDE DEF S
<1> QED BY <1>1, <1>2, ForgetOK

-------------------------------------------------------------------------------
(***************************************************************************)
(* What is stored, and what the next start makes of it.                    *)
(***************************************************************************)
SnapshotOK(s) ==
  /\ Cardinality(s.base.ids) \in Nat
  /\ BaseOK(s.base, Cardinality(s.base.ids))
  /\ s.names \in [DOMAIN s.names -> s.base.ids]
  /\ IsInjective(s.names)
  /\ LinksFit(s.names, s.base.rows)

\* store_snapshot.
LEMMA StoredOK ==
  ASSUME NEW r, NEW st, AnalysisOK(r, st), NEW s,
         s.base = Compact(st).base,
         s.names = Restrict(r.node, {x \in Known(r) : r.node[x] \in s.base.ids})
  PROVE  SnapshotOK(s)
<1> DEFINE S == {x \in Known(r) : r.node[x] \in s.base.ids}
<1>1. r.next \in Nat /\ RegistryOK(r) /\ GraphOK(st, r.next)
  BY DEF AnalysisOK, RegistryOK
<1>2. /\ BaseOK(s.base, r.next)
      /\ \A n \in Nodes, e \in Edge :
           s.base.rows[n][e] > 0 => st.base.rows[n][e] > 0 \/ st.delta.added[n][e] > 0
  BY <1>1, CompactOK
<1>3. Cardinality(s.base.ids) \in Nat /\ BaseOK(s.base, Cardinality(s.base.ids))
  BY <1>1, <1>2, IdsBelowCount
<1>4. DOMAIN s.names = S /\ \A x \in S : s.names[x] = r.node[x]
  BY DEF Restrict
<1>5. s.names \in [DOMAIN s.names -> s.base.ids]
  BY DEF Restrict
<1>6. IsInjective(s.names)
  BY <1>1, <1>4 DEF RegistryOK, IsInjective, Known
<1>7. LinksFit(r.node, s.base.rows)
  BY <1>2, FitsUnion DEF AnalysisOK
<1>8. LinksFit(s.names, s.base.rows)
  BY <1>4, <1>7, FitsLess DEF Known
<1> QED BY <1>3, <1>5, <1>6, <1>8 DEF SnapshotOK

\* An analysis begins with the stored graph, or with none.
LEMMA RestoredOK ==
  ASSUME NEW s, SnapshotOK(s)
  PROVE  AnalysisOK(Restored(s), StoreOver(s.base))
<1> DEFINE k == Cardinality(s.base.ids)
<1>1. Restored(s) = [node |-> s.names, next |-> k]
  BY DEF Restored
<1>2. StoreOver(s.base) = [base |-> s.base, delta |-> EmptyDelta]
  BY DEF StoreOver
<1>3. k \in Nat /\ BaseOK(s.base, k)
  BY DEF SnapshotOK
<1> HIDE DEF k
<1>4. GraphOK(StoreOver(s.base), k)
  BY <1>2, <1>3, EmptyGraphOK DEF GraphOK
<1>5. RegistryOK([node |-> s.names, next |-> k])
  <2>1. s.base.ids \subseteq Below(k)
    BY <1>3 DEF BaseOK
  <2>2. \A x \in DOMAIN s.names : s.names[x] \in Nat /\ s.names[x] < k
    BY <2>1 DEF SnapshotOK, Below
  <2>3. s.names \in [DOMAIN s.names -> Nat]
    BY <2>2 DEF SnapshotOK
  <2> QED BY <1>3, <2>2, <2>3 DEF RegistryOK, Known, SnapshotOK
<1>6. LinksFit(s.names, EmptyDelta.added)
  <2>1. \A n \in Nodes, e \in Edge : ~(EmptyDelta.added[n][e] > 0)
    BY DEF EmptyDelta, NoRows, NoEdges
  <2> QED BY <2>1, FitsNone
<1> QED BY <1>1, <1>2, <1>4, <1>5, <1>6 DEF AnalysisOK, SnapshotOK

LEMMA FreshStartOK == AnalysisOK(NewRegistry(0), StoreOver(EmptyGraph))
<1>1. RegistryOK(NewRegistry(0))
  BY EmptyRegistryOK
<1>2. StoreOver(EmptyGraph) = [base |-> EmptyGraph, delta |-> EmptyDelta]
  BY DEF StoreOver
<1>3. GraphOK(StoreOver(EmptyGraph), 0)
  BY <1>2, EmptyGraphOK DEF GraphOK
<1>4. NewRegistry(0).next = 0
  BY DEF NewRegistry
<1>5. \A n \in Nodes, e \in Edge : ~(NoRows[n][e] > 0)
  BY DEF NoRows, NoEdges
<1>6. StoreOver(EmptyGraph).base.rows = NoRows /\ StoreOver(EmptyGraph).delta.added = NoRows
  BY <1>2 DEF EmptyGraph, EmptyDelta
<1>7. LinksFit(NewRegistry(0).node, NoRows)
  BY <1>5, FitsNone
<1> QED BY <1>1, <1>3, <1>4, <1>6, <1>7 DEF AnalysisOK

-------------------------------------------------------------------------------
(***************************************************************************)
(* The invariant.                                                          *)
(***************************************************************************)
IdInv ==
  /\ AnalysisOK(reg, store)
  /\ \A s \in Snapshots : SnapshotOK(s)
  /\ disk \in [Files -> Text \cup {Absent}]
  /\ \A f \in DOMAIN parsed : parsed[f] \in Text \cup {Unread}

LEMMA InitIds == Init => IdInv
<1> SUFFICES ASSUME Init PROVE IdInv
  OBVIOUS
<1>1. AnalysisOK(reg, store)
  BY FreshStartOK DEF Init
<1>2. Snapshots = {}
  BY DEF Init, Snapshots
<1>3. disk \in [Files -> Text \cup {Absent}]
  <2>1. disk = [f \in Files |-> disk[f]] /\ \A f \in Files : disk[f] \in Texts[f] \cup {Absent}
    BY DEF Init
  <2> QED BY <2>1, AnalyseAssumption
<1>4. DOMAIN parsed = {}
  BY DEF Init
<1> QED BY <1>1, <1>2, <1>3, <1>4 DEF IdInv

LEMMA FoldIds ==
  ASSUME IdInv, NEW f \in Files, Fold(f)
  PROVE  AnalysisOK(reg', store')
<1>1. f \in DOMAIN parsed /\ parsed[f] \in Text \cup {Unread}
  BY DEF Fold, NextToFold, IdInv
<1>2. AnalysisOK(reg, store) /\ AnalysisOK(reg, OwnedAgain(f))
  BY OwnedOK DEF IdInv, OwnedAgain
<1>3. CASE FoldRefreshed(f)
  <2>1. CASE Becomes(Vanish(reg, OwnedAgain(f), f))
    BY <1>2, <2>1, VanishOK DEF Becomes
  <2>2. CASE Becomes(ApplyFacts(reg, OwnedAgain(f), f, parsed[f])) /\ parsed[f] # Unread
    BY <1>1, <1>2, <2>2, ApplyFactsOK DEF Becomes
  <2>3. CASE Becomes([reg |-> reg, store |-> OwnedAgain(f)])
    BY <1>2, <2>3 DEF Becomes
  <2> QED BY <1>3, <2>1, <2>2, <2>3 DEF FoldRefreshed, Forgets
<1>4. CASE FoldBuilt(f)
  <2>1. CASE parsed[f] = Unread
    BY <1>2, <1>4, <2>1 DEF FoldBuilt, result
  <2>2. CASE parsed[f] # Unread
    <3>1. Becomes(ApplyFacts(reg, store, f, parsed[f]))
      BY <1>4, <2>2 DEF FoldBuilt
    <3> QED BY <1>1, <1>2, <2>2, <3>1, ApplyFactsOK DEF Becomes
  <2> QED BY <2>1, <2>2
<1> QED BY <1>3, <1>4 DEF Fold

LEMMA StepIds == IdInv /\ [Next]_vars => IdInv'
<1> SUFFICES ASSUME IdInv, [Next]_vars PROVE IdInv'
  OBVIOUS
<1> USE DEF world, progress, result
<1>1. ASSUME NEW f \in Files, Change(f) PROVE IdInv'
  <2>1. PICK t \in (Texts[f] \cup {Absent}) \ {disk[f]} : disk' = [disk EXCEPT ![f] = t]
    BY <1>1 DEF Change
  <2>2. t \in Text \cup {Absent}
    BY <2>1, AnalyseAssumption
  <2>3. disk' \in [Files -> Text \cup {Absent}]
    BY <2>1, <2>2 DEF IdInv
  <2>4. UNCHANGED <<cache, pending, parsed, reg, store>>
    BY <1>1 DEF Change
  <2> QED BY <2>3, <2>4 DEF IdInv, Snapshots
<1>2. ASSUME NEW f \in Files, Lock(f) PROVE IdInv'
  BY <1>2 DEF Lock, IdInv, Snapshots
<1>3. ASSUME NEW f \in Files, Parse(f) PROVE IdInv'
  <2>1. DOMAIN parsed' = DOMAIN parsed \cup {f}
    BY <1>3 DEF Parse
  <2>2. ASSUME NEW g \in DOMAIN parsed' PROVE parsed'[g] \in Text \cup {Unread}
    <3>1. CASE g # f
      BY <1>3, <2>1, <3>1 DEF Parse, IdInv
    <3>2. CASE g = f
      <4>1. parsed'[f] = IF Readable(f) THEN disk[f] ELSE Unread
        BY <1>3 DEF Parse
      <4> QED BY <3>2, <4>1 DEF Readable, IdInv
    <3> QED BY <3>1, <3>2
  <2>3. UNCHANGED <<disk, cache, pending, reg, store>>
    BY <1>3 DEF Parse
  <2> QED BY <2>2, <2>3 DEF IdInv, Snapshots
<1>4. ASSUME NEW f \in Files, Fold(f) PROVE IdInv'
  <2>1. AnalysisOK(reg', store')
    BY <1>4, FoldIds
  <2>2. UNCHANGED <<disk, cache, pending, parsed>>
    BY <1>4 DEF Fold
  <2> QED BY <2>1, <2>2 DEF IdInv, Snapshots
<1>5. CASE Begin
  <2>1. UNCHANGED <<disk, cache, pending>> /\ DOMAIN parsed' = {}
    BY <1>5 DEF Begin
  <2>2. AnalysisOK(reg', store')
    <3>1. CASE Loadable
      <4>1. cache \in Snapshots
        BY <3>1 DEF Loadable, Snapshots
      <4>2. reg' = Restored(cache) /\ store' = StoreOver(cache.base)
        BY <1>5, <3>1 DEF Begin, Start
      <4> QED BY <4>1, <4>2, RestoredOK DEF IdInv
    <3>2. CASE ~Loadable
      <4>1. reg' = NewRegistry(0) /\ store' = StoreOver(EmptyGraph)
        BY <1>5, <3>2 DEF Begin, Start
      <4> QED BY <4>1, FreshStartOK
    <3> QED BY <3>1, <3>2
  <2> QED BY <2>1, <2>2 DEF IdInv, Snapshots
<1>6. CASE Link
  <2>1. store' = LinkPlaceholders(reg, store)
    BY <1>6 DEF Link
  <2>2. AnalysisOK(reg, store')
    BY <2>1, LinkedOK DEF IdInv
  <2>3. reg' = ForgetOrphans(reg, Referenced(store')) \/ reg' = reg
    BY <1>6 DEF Link
  <2>4. AnalysisOK(reg', store')
    BY <2>2, <2>3, ForgetOrphansOK
  <2>5. UNCHANGED <<disk, cache, pending, parsed>>
    BY <1>6 DEF Link
  <2> QED BY <2>4, <2>5 DEF IdInv, Snapshots
<1>7. CASE StartWrite
  <2>1. pending' = Snapshot /\ cache' = Torn /\ UNCHANGED <<disk, parsed, reg, store>>
    BY <1>7 DEF StartWrite
  <2>2. /\ Snapshot.base = Compact(store).base
        /\ Snapshot.names = Restrict(reg.node, {x \in Known(reg) : reg.node[x] \in Snapshot.base.ids})
    BY DEF Snapshot
  <2>3. SnapshotOK(Snapshot)
    BY <2>2, StoredOK DEF IdInv
  <2>4. Snapshots' \subseteq {Snapshot}
    BY <2>1 DEF Snapshots
  <2> QED BY <2>1, <2>3, <2>4 DEF IdInv
<1>8. CASE FinishWrite
  <2>1. cache' = pending /\ pending' = NoCache /\ UNCHANGED <<disk, parsed, reg, store>>
    BY <1>8 DEF FinishWrite
  <2>2. Snapshots' \subseteq Snapshots
    BY <2>1 DEF Snapshots
  <2> QED BY <2>1, <2>2 DEF IdInv
<1>9. CASE FailWrite
  <2>1. pending' = NoCache /\ UNCHANGED <<disk, cache, parsed, reg, store>>
    BY <1>9 DEF FailWrite
  <2>2. Snapshots' \subseteq Snapshots
    BY <2>1 DEF Snapshots
  <2> QED BY <2>1, <2>2 DEF IdInv
<1>10. CASE Crash
  <2>1. /\ reg' = NewRegistry(0) /\ store' = StoreOver(EmptyGraph)
        /\ DOMAIN parsed' = {} /\ pending' = NoCache /\ UNCHANGED <<disk, cache>>
    BY <1>10 DEF Crash
  <2>2. Snapshots' \subseteq Snapshots
    BY <2>1 DEF Snapshots
  <2>3. AnalysisOK(reg', store')
    BY <2>1, FreshStartOK
  <2> QED BY <2>1, <2>2, <2>3 DEF IdInv
<1>11. CASE UNCHANGED vars
  BY <1>11 DEF vars, IdInv, Snapshots
<1> QED
  BY <1>1, <1>2, <1>3, <1>4, <1>5, <1>6, <1>7, <1>8, <1>9, <1>10, <1>11 DEF Next

LEMMA IdInvariant == Spec => []IdInv
BY InitIds, StepIds, PTL DEF Spec

-------------------------------------------------------------------------------
\* A node has one name, in every analysis and in everything that is stored and
\* restored: get_or_mint and SymbolRegistry::new never give an id twice.
THEOREM NodesHaveOneName == Spec => []OneSymbolPerNode
<1>1. IdInv => OneSymbolPerNode
  BY DEF IdInv, AnalysisOK, RegistryOK, SnapshotOK, OneSymbolPerNode
<1> QED BY <1>1, IdInvariant, PTL

\* No edge waits for the symbol that is minted next, whatever was forgotten,
\* stored and restored before (forget_file, GraphSnapshot::width).
THEOREM MintedIdsAreUnused == Spec => []FreshIdsAreUnused
<1>1. IdInv => FreshIdsAreUnused
  BY ReferencedBelow DEF IdInv, AnalysisOK, FreshIdsAreUnused
<1> QED BY <1>1, IdInvariant, PTL

\* A link leaves a placeholder, and where it leads to a named node the name is
\* the placeholder's (resolve.rs, link_placeholders_quiet).  A model with finitely
\* many ids may run out of them, which the code does not.
THEOREM LinksLeadToTheirName ==
  ASSUME Nodes = Nat
  PROVE  Spec => []LinksNeverMislead
<1>1. IdInv => LinksNeverMislead
  <2> SUFFICES ASSUME IdInv, NEW l \in NamedEdges(reg, store, "link")
               PROVE  /\ ~Qualified(l[1])
                      /\ l[2] # Unnamed => Qualified(l[2]) /\ l[2].name = l[1].name
    BY DEF LinksNeverMislead
  <2> DEFINE Name(m) == IF \E s \in Known(reg) : reg.node[s] = m
                        THEN CHOOSE s \in Known(reg) : reg.node[s] = m ELSE Unnamed
  <2>1. PICK s \in Known(reg), e \in Edge :
          /\ e.kind = "link" /\ View(store)[reg.node[s]][e] > 0
          /\ l = <<s, Name(e.target)>>
    BY DEF NamedEdges
  <2>2. reg.node[s] \in Nodes
    BY DEF IdInv, AnalysisOK, RegistryOK
  <2>3. Neighbors(store, reg.node[s])[e] > 0
    BY <2>1, <2>2 DEF View
  <2>4. store.base.rows[reg.node[s]][e] > 0 \/ store.delta.added[reg.node[s]][e] > 0
    BY <2>2, <2>3, ViewedEdges DEF IdInv, AnalysisOK
  <2>5. \A p \in Known(reg) :
          /\ reg.node[p] = reg.node[s] => ~Qualified(p)
          /\ reg.node[p] = e.target => Qualified(p) /\ p.name = s.name
    BY <2>1, <2>2, <2>4 DEF IdInv, AnalysisOK, LinksFit, Known
  <2>6. Name(e.target) # Unnamed =>
          Name(e.target) \in Known(reg) /\ reg.node[Name(e.target)] = e.target
    OBVIOUS
  <2> HIDE DEF Name
  <2> QED BY <2>1, <2>5, <2>6
<1> QED BY <1>1, IdInvariant, PTL
===============================================================================
