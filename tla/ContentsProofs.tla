----------------------------- MODULE ContentsProofs -----------------------------
(***************************************************************************)
(* What an analysis knows is what the tree says: for any files, names and  *)
(* texts, over any sequence of analyses, edits and locks at any moment,    *)
(* failed writes and crashes - for every file that is not in doubt.        *)
(***************************************************************************)
EXTENDS AnalyseProofs

-------------------------------------------------------------------------------
(***************************************************************************)
(* What ingesting a file does to the names.                                *)
(***************************************************************************)
\* Forgetting names leaves the others their nodes.
LEMMA Forgotten ==
  ASSUME NEW r, RegistryOK(r), NEW S \in SUBSET Known(r)
  PROVE  LET m == [r EXCEPT !.node = Restrict(@, S)]
         IN  /\ RegistryOK(m) /\ m.next = r.next
             /\ Known(m) = S
             /\ \A s \in S : m.node[s] = r.node[s]
<1> DEFINE m == [r EXCEPT !.node = Restrict(@, S)]
<1>1. /\ RegistryOK(m)
      /\ m = [node |-> Restrict(r.node, S), next |-> r.next]
      /\ DOMAIN Restrict(r.node, S) = S
      /\ \A s \in S : Restrict(r.node, S)[s] = r.node[s]
  BY RestrictedOK
<1> HIDE DEF m
<1> QED BY <1>1 DEF m, Known

Defined(f, text) == {Def(f, n) : n \in text.defines}

\* The calls of a text between symbols, for a registry that knows the names of
\* `known`.
Ends(known, f, text) ==
  {<<Def(f, c[1]), IF Def(f, c[2]) \in known \cup Defined(f, text)
                   THEN Def(f, c[2]) ELSE Bare(c[2])>> : c \in text.calls}

EndNames(known, f, text) ==
  {e[1] : e \in Ends(known, f, text)} \cup {e[2] : e \in Ends(known, f, text)}

LEMMA EndsAreSymbols ==
  ASSUME NEW known, NEW f \in Files, NEW text \in Text
  PROVE  /\ Defined(f, text) \subseteq Symbol
         /\ \A e \in Ends(known, f, text) :
              /\ e = <<e[1], e[2]>>
              /\ e[1] \in Symbol /\ e[2] \in Symbol
              /\ \E c \in text.calls : e[1] = Def(f, c[1])
              /\ Qualified(e[2]) => e[2] \in known \cup Defined(f, text)
         /\ EndNames(known, f, text) \subseteq Symbol
<1>1. text.defines \subseteq Names /\ text.calls \subseteq (Names \cup {Module}) \X Names
  BY DEF Text
<1>2. Defined(f, text) \subseteq Symbol
  BY <1>1 DEF Defined, Def, Symbol
<1>3. ASSUME NEW e \in Ends(known, f, text)
      PROVE  /\ e = <<e[1], e[2]>>
             /\ e[1] \in Symbol /\ e[2] \in Symbol
             /\ \E c \in text.calls : e[1] = Def(f, c[1])
             /\ Qualified(e[2]) => e[2] \in known \cup Defined(f, text)
  <2>1. PICK c \in text.calls :
          e = <<Def(f, c[1]), IF Def(f, c[2]) \in known \cup Defined(f, text)
                              THEN Def(f, c[2]) ELSE Bare(c[2])>>
    BY DEF Ends
  <2>2. c[1] \in Names \cup {Module} /\ c[2] \in Names
    BY <1>1
  <2>3. Def(f, c[1]) \in Symbol /\ Def(f, c[2]) \in Symbol /\ Bare(c[2]) \in Symbol
    BY <2>2 DEF Def, Bare, Symbol
  <2>4. ~Qualified(Bare(c[2]))
    BY DEF Bare, Qualified
  <2>5. CASE Def(f, c[2]) \in known \cup Defined(f, text)
    BY <2>1, <2>3, <2>5
  <2>6. CASE Def(f, c[2]) \notin known \cup Defined(f, text)
    BY <2>1, <2>3, <2>4, <2>6
  <2> QED BY <2>5, <2>6
<1>4. EndNames(known, f, text) \subseteq Symbol
  <2>1. ASSUME NEW s \in EndNames(known, f, text) PROVE s \in Symbol
    <3>1. \E e \in Ends(known, f, text) : s = e[1] \/ s = e[2]
      BY DEF EndNames
    <3> QED BY <1>3, <3>1
  <2> QED BY <2>1
<1> QED BY <1>2, <1>3, <1>4

\* prepare_facts, name by name.
LEMMA PreparedNames ==
  ASSUME NEW r, RegistryOK(r), NEW f \in Files, NEW text \in Text
  PROVE  LET p == PrepareFacts(r, f, text)
         IN  /\ Known(p.reg) = Known(r) \cup Defined(f, text) \cup EndNames(Known(r), f, text)
             /\ \A s \in Known(r) : p.reg.node[s] = r.node[s]
             /\ p.nodes = NodesOf(p.reg, Defined(f, text))
             /\ p.edges = PairRows({<<p.reg.node[e[1]], p.reg.node[e[2]]>> :
                                      e \in Ends(Known(r), f, text)}, "call")
<1> DEFINE defined == Defined(f, text)
           first   == Mint(r, defined)
           ends    == {<<Def(f, c[1]), Callee(first, f, c[2])>> : c \in text.calls}
           named   == {e[1] : e \in ends} \cup {e[2] : e \in ends}
           second  == Mint(first, named)
           pairs   == {<<second.node[e[1]], second.node[e[2]]>> : e \in ends}
<1>1. IsFiniteSet(defined)
  <2>1. defined \subseteq Symbol
    BY EndsAreSymbols
  <2> QED BY <2>1, SymbolsAreFinite, FS_Subset
<1> HIDE DEF first
<1>2. /\ RegistryOK(first)
      /\ Known(first) = Known(r) \cup defined
      /\ \A s \in Known(r) : first.node[s] = r.node[s]
  <2> HIDE DEF defined
  <2> QED BY <1>1, MintOK DEF first
<1>3. ends = Ends(Known(r), f, text)
  BY <1>2 DEF Ends, Callee
<1>4. named = EndNames(Known(r), f, text)
  <2> HIDE DEF ends
  <2> QED BY <1>3 DEF EndNames
<1>5. IsFiniteSet(named)
  <2>1. EndNames(Known(r), f, text) \subseteq Symbol
    BY EndsAreSymbols
  <2> HIDE DEF named
  <2> QED BY <1>4, <2>1, SymbolsAreFinite, FS_Subset
<1>6. PrepareFacts(r, f, text) =
         [reg |-> second, edges |-> PairRows(pairs, "call"), nodes |-> NodesOf(second, defined)]
  BY DEF PrepareFacts, first, Defined
<1> HIDE DEF second, named
<1>7. /\ Known(second) = Known(first) \cup named
      /\ \A s \in Known(first) : second.node[s] = first.node[s]
  BY <1>2, <1>5, MintOK DEF second
<1>8. pairs = {<<second.node[e[1]], second.node[e[2]]>> : e \in Ends(Known(r), f, text)}
  <2> HIDE DEF ends
  <2> QED BY <1>3
<1> HIDE DEF pairs, defined
<1>9. \A s \in Known(r) : second.node[s] = r.node[s]
  BY <1>2, <1>7
<1>10. Known(second) = Known(r) \cup defined \cup EndNames(Known(r), f, text)
  BY <1>2, <1>4, <1>7
<1> QED BY <1>6, <1>8, <1>9, <1>10 DEF defined

LEMMA PreparedKnown ==
  ASSUME NEW r, RegistryOK(r), NEW f \in Files, NEW text \in Text
  PROVE  Known(PrepareFacts(r, f, text).reg)
            = Known(r) \cup Defined(f, text) \cup EndNames(Known(r), f, text)
BY PreparedNames

\* apply_facts_into forgets what the file owned and does not define again,
\* if it owned exactly the nodes of its names.
LEMMA AppliedNames ==
  ASSUME NEW r, RegistryOK(r), NEW st, NEW f \in Files, NEW text \in Text,
         st.delta.fileNodes[f] = NodesOf(r, SymbolsOf(r, f))
  PROVE  LET a == ApplyFacts(r, st, f, text)
             p == PrepareFacts(r, f, text)
         IN  /\ Known(a.reg) = (Known(r) \cup Defined(f, text) \cup EndNames(Known(r), f, text))
                                  \ (SymbolsOf(r, f) \ Defined(f, text))
             /\ \A s \in Known(a.reg) : a.reg.node[s] = p.reg.node[s]
             /\ \A s \in Known(a.reg) \cap Known(r) : a.reg.node[s] = r.node[s]
<1> DEFINE a == ApplyFacts(r, st, f, text)
           p == PrepareFacts(r, f, text)
           gone == st.delta.fileNodes[f] \ p.nodes
           kept == {s \in Known(p.reg) : p.reg.node[s] \notin gone}
<1>1. a.reg = [p.reg EXCEPT !.node = Restrict(@, kept)]
  BY DEF ApplyFacts, ForgetNodes
<1> HIDE DEF p
<1>2. RegistryOK(p.reg)
  BY PrepareOK DEF p
<1>3. /\ Known(p.reg) = Known(r) \cup Defined(f, text) \cup EndNames(Known(r), f, text)
      /\ \A s \in Known(r) : p.reg.node[s] = r.node[s]
      /\ p.nodes = NodesOf(p.reg, Defined(f, text))
  BY PreparedNames DEF p
<1>4. /\ a.reg = [node |-> Restrict(p.reg.node, kept), next |-> p.reg.next]
      /\ DOMAIN Restrict(p.reg.node, kept) = kept
      /\ \A s \in kept : Restrict(p.reg.node, kept)[s] = p.reg.node[s]
  <2>1. kept \in SUBSET Known(p.reg)
    OBVIOUS
  <2> HIDE DEF kept, a
  <2> QED BY <1>1, <1>2, <2>1, RestrictedOK
<1> HIDE DEF a
<1>5. Known(a.reg) = kept /\ \A s \in kept : a.reg.node[s] = p.reg.node[s]
  <2> HIDE DEF kept
  <2> QED BY <1>4 DEF Known
<1>6. ASSUME NEW s \in Known(p.reg)
      PROVE  p.reg.node[s] \in gone <=> s \in SymbolsOf(r, f) \ Defined(f, text)
  <2>1. \A o \in Known(p.reg) : p.reg.node[o] = p.reg.node[s] => o = s
    BY <1>2 DEF RegistryOK, IsInjective, Known
  <2>2. p.reg.node[s] \in st.delta.fileNodes[f] <=> s \in SymbolsOf(r, f)
    <3>1. \A o \in SymbolsOf(r, f) : o \in Known(r) /\ o \in Known(p.reg)
      BY <1>3 DEF SymbolsOf
    <3> QED BY <1>3, <2>1, <3>1 DEF NodesOf
  <2>3. p.reg.node[s] \in p.nodes <=> s \in Defined(f, text)
    BY <1>3, <2>1 DEF NodesOf
  <2> QED BY <2>2, <2>3
<1>7. kept = Known(p.reg) \ (SymbolsOf(r, f) \ Defined(f, text))
  <2> HIDE DEF gone
  <2> QED BY <1>6
<1> HIDE DEF kept
<1>8. Known(a.reg) = (Known(r) \cup Defined(f, text) \cup EndNames(Known(r), f, text))
                        \ (SymbolsOf(r, f) \ Defined(f, text))
  BY <1>3, <1>5, <1>7
<1>9. \A s \in Known(a.reg) : a.reg.node[s] = p.reg.node[s]
  BY <1>5
<1> QED BY <1>3, <1>8, <1>9 DEF a, p

\* Every caller is a definition of the text, or its top level: a scanner opens
\* the scope of a definition where it reports the definition (scope.rs,
\* open_definition_with_body_docs and record_call).
Scoped(text) == \A c \in text.calls : c[1] \in text.defines \cup {Module}

\* After apply_facts_into the file has the names its text defines; other files
\* keep theirs, and so do the placeholders.
LEMMA AppliedContents ==
  ASSUME NEW r, RegistryOK(r), NEW st, NEW f \in Files, NEW text \in Text, Scoped(text),
         st.delta.fileNodes[f] = NodesOf(r, SymbolsOf(r, f)),
         Known(r) \subseteq Symbol
  PROVE  LET a == ApplyFacts(r, st, f, text)
         IN  /\ Known(a.reg) \subseteq Symbol
             /\ NamedIn(Known(a.reg), f) = Defined(f, text)
             /\ \A g \in Files \ {f} : SymbolsOf(a.reg, g) = SymbolsOf(r, g)
             /\ \A s \in Known(r) : ~Qualified(s) => s \in Known(a.reg)
<1> DEFINE a == ApplyFacts(r, st, f, text)
<1>1. Known(a.reg) = (Known(r) \cup Defined(f, text) \cup EndNames(Known(r), f, text))
                        \ (SymbolsOf(r, f) \ Defined(f, text))
  BY AppliedNames
<1> HIDE DEF a
<1>2. /\ Defined(f, text) \subseteq Symbol
      /\ EndNames(Known(r), f, text) \subseteq Symbol
  BY EndsAreSymbols
<1>3. \A s \in Defined(f, text) : s.file = f /\ s.name # Module /\ Qualified(s)
  BY RegistryAssumption DEF Defined, Def, Text, Qualified
<1>4. ASSUME NEW s \in EndNames(Known(r), f, text)
      PROVE  \/ s.file = f /\ (s.name # Module => s \in Known(r) \cup Defined(f, text))
             \/ s.file # f /\ (s \in Known(r) \/ ~Qualified(s))
  <2>1. PICK e \in Ends(Known(r), f, text) : s = e[1] \/ s = e[2]
    BY DEF EndNames
  <2>2. CASE s = e[1]
    <3>1. PICK c \in text.calls : e[1] = Def(f, c[1])
      BY EndsAreSymbols
    <3>2. c[1] \in text.defines \/ c[1] = Module
      BY DEF Scoped
    <3> QED BY <2>2, <3>1, <3>2 DEF Def, Defined
  <2>3. CASE s = e[2]
    <3>1. Qualified(s) => s \in Known(r) \cup Defined(f, text)
      BY <2>3, EndsAreSymbols
    <3>2. CASE Qualified(s)
      BY <1>3, <3>1, <3>2
    <3>3. CASE ~Qualified(s)
      <4>1. s.file = NoFile /\ NoFile # f
        BY <3>3, RegistryAssumption DEF Qualified
      <4> QED BY <3>3, <4>1
    <3> QED BY <3>2, <3>3
  <2> QED BY <2>1, <2>2, <2>3
<1>5. Known(a.reg) \subseteq Symbol
  BY <1>1, <1>2
<1>6. NamedIn(Known(a.reg), f) = Defined(f, text)
  <2>1. ASSUME NEW s \in NamedIn(Known(a.reg), f) PROVE s \in Defined(f, text)
    <3>1. s \in Known(a.reg) /\ s.file = f /\ s.name # Module
      BY DEF NamedIn
    <3>2. s \in Known(r) => s \in SymbolsOf(r, f)
      BY <3>1 DEF SymbolsOf
    <3> QED BY <1>1, <1>4, <3>1, <3>2
  <2>2. ASSUME NEW s \in Defined(f, text) PROVE s \in NamedIn(Known(a.reg), f)
    BY <1>1, <1>3, <2>2 DEF NamedIn
  <2> QED BY <2>1, <2>2
<1>7. ASSUME NEW g \in Files \ {f} PROVE SymbolsOf(a.reg, g) = SymbolsOf(r, g)
  <2>1. ASSUME NEW s \in Known(a.reg), s.file = g PROVE s \in Known(r)
    <3>1. Qualified(s)
      BY <2>1, RegistryAssumption DEF Qualified
    <3> QED BY <1>1, <1>3, <1>4, <2>1, <3>1
  <2>2. ASSUME NEW s \in Known(r), s.file = g PROVE s \in Known(a.reg)
    <3>1. s \notin SymbolsOf(r, f)
      BY <2>2 DEF SymbolsOf
    <3> QED BY <1>1, <3>1
  <2> QED BY <2>1, <2>2 DEF SymbolsOf
<1>8. ASSUME NEW s \in Known(r), ~Qualified(s) PROVE s \in Known(a.reg)
  <2>1. s.file # f
    BY <1>8, RegistryAssumption DEF Qualified
  <2> QED BY <1>1, <2>1 DEF SymbolsOf
<1> QED BY <1>5, <1>6, <1>7, <1>8 DEF a

-------------------------------------------------------------------------------
(***************************************************************************)
(* Types.                                                                  *)
(***************************************************************************)
TypeInv ==
  /\ pc \in {"idle", "parse", "store", "write", "served"}
  /\ mode \in {"refresh", "build"}
  /\ walked \subseteq Files /\ paths \subseteq Files
  /\ DOMAIN parsed \subseteq paths /\ folded \subseteq paths
  /\ Known(reg) \subseteq Symbol
  /\ store.delta.tombstoned \subseteq Nodes \X Nodes
  /\ \A s \in Snapshots : DOMAIN s.names \subseteq Symbol /\ DOMAIN s.sources \subseteq Files

LEMMA MaskedPairs ==
  ASSUME NEW base \in Base, NEW d, d.tombstoned \subseteq Nodes \X Nodes, NEW f, NEW rows,
         NEW defines
  PROVE  ReplaceFileEdges(base, d, f, rows, defines).tombstoned \subseteq Nodes \X Nodes
<1> DEFINE masked == {p \in d.fileNodes[f] \X Nodes :
                        \E e \in Edge : e.target = p[2] /\ BaseRow(base, p[1])[e] > 0}
<1>1. ReplaceFileEdges(base, d, f, rows, defines).tombstoned = d.tombstoned \cup masked
  BY DEF ReplaceFileEdges
<1>2. ASSUME NEW p \in masked PROVE p \in Nodes \X Nodes
  <2>1. p[1] \in base.ids
    BY DEF BaseRow, NoEdges
  <2>2. p = <<p[1], p[2]>> /\ p[2] \in Nodes
    OBVIOUS
  <2> QED BY <2>1, <2>2 DEF Base
<1> QED BY <1>1, <1>2

LEMMA InitTypes == Init => TypeInv
<1> SUFFICES ASSUME Init PROVE TypeInv
  OBVIOUS
<1>1. DOMAIN parsed = {} /\ Known(reg) = {} /\ Snapshots = {}
  BY EmptyRegistryOK DEF Init, Snapshots
<1>2. store.delta.tombstoned = {}
  BY DEF Init, StoreOver, EmptyDelta
<1> QED BY <1>1, <1>2 DEF Init, TypeInv

\* Folding a file types the names and the tombstones.
LEMMA FoldTypes ==
  ASSUME IdInv, TypeInv, NEW f \in Files, Fold(f)
  PROVE  Known(reg') \subseteq Symbol /\ store'.delta.tombstoned \subseteq Nodes \X Nodes
<1>1. f \in DOMAIN parsed /\ parsed[f] \in Text \cup {Unread}
  BY DEF Fold, NextToFold, IdInv
<1>2. /\ AnalysisOK(reg, store) /\ AnalysisOK(reg, OwnedAgain(f))
  BY OwnedOK DEF IdInv, OwnedAgain
<1>3. /\ store.base \in Base /\ OwnedAgain(f).base = store.base
      /\ OwnedAgain(f).delta.tombstoned = store.delta.tombstoned
  BY <1>2 DEF AnalysisOK, GraphOK, BaseOK, DeltaOK, OwnedAgain, SetFileNodes
<1>4. ASSUME NEW st, AnalysisOK(reg, st), st.base \in Base,
             st.delta.tombstoned \subseteq Nodes \X Nodes, parsed[f] # Unread
      PROVE  /\ Known(ApplyFacts(reg, st, f, parsed[f]).reg) \subseteq Symbol
             /\ ApplyFacts(reg, st, f, parsed[f]).store.delta.tombstoned \subseteq Nodes \X Nodes
  <2> DEFINE p == PrepareFacts(reg, f, parsed[f])
             a == ApplyFacts(reg, st, f, parsed[f])
  <2>1. parsed[f] \in Text /\ RegistryOK(reg)
    BY <1>1, <1>4 DEF AnalysisOK
  <2>2. /\ RegistryOK(p.reg)
        /\ Known(p.reg) = Known(reg) \cup Defined(f, parsed[f]) \cup EndNames(Known(reg), f, parsed[f])
    <3>1. RegistryOK(p.reg)
      BY <2>1, PrepareOK
    <3>2. Known(p.reg) = Known(reg) \cup Defined(f, parsed[f]) \cup EndNames(Known(reg), f, parsed[f])
      BY <2>1, PreparedKnown
    <3> QED BY <3>1, <3>2
  <2>3. Known(p.reg) \subseteq Symbol
    <3>1. Defined(f, parsed[f]) \subseteq Symbol /\ EndNames(Known(reg), f, parsed[f]) \subseteq Symbol
      BY <2>1, EndsAreSymbols
    <3>2. Known(reg) \subseteq Symbol
      BY DEF TypeInv
    <3> QED BY <2>2, <3>1, <3>2
  <2>4. a.reg = ForgetNodes(p.reg, st.delta.fileNodes[f] \ p.nodes)
    BY DEF ApplyFacts
  <2>5. a.store.delta = ReplaceFileEdges(st.base, st.delta, f, p.edges, p.nodes)
    BY <1>4 DEF ApplyFacts, AnalysisOK, GraphOK
  <2> HIDE DEF p, a
  <2>6. \A gone : Known(ForgetNodes(p.reg, gone)) \subseteq Known(p.reg)
    <3> SUFFICES ASSUME NEW gone PROVE Known(ForgetNodes(p.reg, gone)) \subseteq Known(p.reg)
      OBVIOUS
    <3> DEFINE S == {s \in Known(p.reg) : p.reg.node[s] \notin gone}
    <3>1. S \in SUBSET Known(p.reg)
      OBVIOUS
    <3>2. ForgetNodes(p.reg, gone) = [p.reg EXCEPT !.node = Restrict(@, S)]
      BY DEF ForgetNodes
    <3> HIDE DEF S
    <3> QED BY <2>2, <3>1, <3>2, Forgotten
  <2> QED BY <1>4, <2>3, <2>4, <2>5, <2>6, MaskedPairs DEF a
<1>5. ASSUME Becomes(Vanish(reg, OwnedAgain(f), f))
      PROVE  Known(reg') \subseteq Symbol /\ store'.delta.tombstoned \subseteq Nodes \X Nodes
  <2>1. reg' = [reg EXCEPT !.node = Restrict(@, Known(reg) \ SymbolsOf(reg, f))]
    BY <1>5 DEF Becomes, Vanish, ForgetFile
  <2>2. Known(reg') \subseteq Known(reg)
    <3>1. Known(reg) \ SymbolsOf(reg, f) \in SUBSET Known(reg)
      OBVIOUS
    <3> QED BY <1>2, <2>1, <3>1, Forgotten DEF AnalysisOK
  <2>3. store'.delta = ReplaceFileEdges(OwnedAgain(f).base, OwnedAgain(f).delta, f, NoRows,
                                        OwnedAgain(f).delta.fileNodes[f])
    BY <1>2, <1>5 DEF Becomes, Vanish, AnalysisOK, GraphOK
  <2> QED BY <1>3, <2>2, <2>3, MaskedPairs DEF TypeInv
<1>6. CASE FoldRefreshed(f)
  <2>1. CASE Becomes(Vanish(reg, OwnedAgain(f), f))
    BY <1>5, <2>1
  <2>2. CASE Becomes(ApplyFacts(reg, OwnedAgain(f), f, parsed[f])) /\ parsed[f] # Unread
    BY <1>2, <1>3, <1>4, <2>2 DEF Becomes, TypeInv
  <2>3. CASE Becomes([reg |-> reg, store |-> OwnedAgain(f)])
    BY <1>3, <2>3 DEF Becomes, TypeInv
  <2> QED BY <1>6, <2>1, <2>2, <2>3 DEF FoldRefreshed, Forgets
<1>7. CASE FoldBuilt(f)
  <2>1. CASE parsed[f] = Unread
    BY <1>7, <2>1 DEF FoldBuilt, result, TypeInv
  <2>2. CASE parsed[f] # Unread
    <3>1. Becomes(ApplyFacts(reg, store, f, parsed[f]))
      BY <1>7, <2>2 DEF FoldBuilt
    <3> QED BY <1>2, <1>3, <1>4, <2>2, <3>1 DEF Becomes, TypeInv
  <2> QED BY <2>1, <2>2
<1> QED BY <1>6, <1>7 DEF Fold

LEMMA StepTypes == IdInv /\ TypeInv /\ [Next]_vars => TypeInv'
<1> SUFFICES ASSUME IdInv, TypeInv, [Next]_vars PROVE TypeInv'
  OBVIOUS
<1> USE DEF world, progress, result
<1>0. Tree \subseteq Files
  BY DEF Tree
<1>1. ASSUME NEW f \in Files, Change(f) PROVE TypeInv'
  BY <1>1 DEF Change, TypeInv, Snapshots
<1>2. ASSUME NEW f \in Files, Lock(f) PROVE TypeInv'
  BY <1>2 DEF Lock, TypeInv, Snapshots
<1>3. ASSUME NEW f \in Files, Parse(f) PROVE TypeInv'
  <2>1. DOMAIN parsed' = DOMAIN parsed \cup {f} /\ f \in paths
    BY <1>3 DEF Parse
  <2> QED BY <1>3, <2>1 DEF Parse, TypeInv, Snapshots
<1>4. ASSUME NEW f \in Files, Fold(f) PROVE TypeInv'
  <2>1. Known(reg') \subseteq Symbol /\ store'.delta.tombstoned \subseteq Nodes \X Nodes
    BY <1>4, FoldTypes
  <2>2. folded' = folded \cup {f} /\ f \in paths
    BY <1>4 DEF Fold, NextToFold
  <2> QED BY <1>4, <2>1, <2>2 DEF Fold, TypeInv, Snapshots
<1>5. CASE Begin
  <2>1. DOMAIN parsed' = {} /\ folded' = {} /\ walked' = Tree /\ UNCHANGED <<cache, pending>>
    BY <1>5 DEF Begin
  <2>2. /\ pc' \in {"parse", "served"} /\ mode' \in {"refresh", "build"}
        /\ paths' \subseteq Files /\ Known(reg') \subseteq Symbol
        /\ store'.delta.tombstoned = {}
    <3>1. \A base : StoreOver(base).delta.tombstoned = {}
      BY DEF StoreOver, EmptyDelta
    <3>2. CASE Loadable
      <4>1. Start("refresh", Stale \cup Added, Restored(cache), cache.base)
        BY <1>5, <3>2 DEF Begin
      <4>2. cache \in Snapshots
        BY <3>2 DEF Loadable, Snapshots
      <4>3. Known(Restored(cache)) \subseteq Symbol
        BY <4>2 DEF TypeInv, Known, Restored
      <4>4. Stale \cup Added \subseteq Files
        BY <1>0, <4>2 DEF Stale, Added, TypeInv
      <4> QED BY <3>1, <4>1, <4>3, <4>4 DEF Start
    <3>3. CASE ~Loadable
      <4>1. Start("build", Tree, NewRegistry(0), EmptyGraph)
        BY <1>5, <3>3 DEF Begin
      <4>2. Known(NewRegistry(0)) = {}
        BY EmptyRegistryOK
      <4> QED BY <1>0, <3>1, <4>1, <4>2 DEF Start
    <3> QED BY <3>2, <3>3
  <2> QED BY <1>0, <2>1, <2>2 DEF TypeInv, Snapshots
<1>6. CASE Link
  <2>1. store' = LinkPlaceholders(reg, store)
    BY <1>6 DEF Link
  <2>2. store'.delta.tombstoned = store.delta.tombstoned
    BY <2>1 DEF LinkPlaceholders, ReplaceEdgesOfKind, IdInv, AnalysisOK, GraphOK, DeltaOK
  <2>3. Known(reg') \subseteq Known(reg)
    <3>1. \A referenced : Known(ForgetOrphans(reg, referenced)) \subseteq Known(reg)
      <4> SUFFICES ASSUME NEW referenced
                   PROVE  Known(ForgetOrphans(reg, referenced)) \subseteq Known(reg)
        OBVIOUS
      <4> DEFINE S == {s \in Known(reg) : Qualified(s) \/ reg.node[s] \in referenced}
      <4>1. S \in SUBSET Known(reg)
        OBVIOUS
      <4>2. ForgetOrphans(reg, referenced) = [reg EXCEPT !.node = Restrict(@, S)]
        BY DEF ForgetOrphans
      <4> HIDE DEF S
      <4> QED BY <4>1, <4>2, Forgotten DEF IdInv, AnalysisOK
    <3> QED BY <1>6, <3>1 DEF Link
  <2> QED BY <1>6, <2>2, <2>3 DEF Link, TypeInv, Snapshots
<1>7. CASE StartWrite
  <2>1. pending' = Snapshot /\ cache' = Torn
    BY <1>7 DEF StartWrite
  <2>2. /\ DOMAIN Snapshot.names \subseteq Known(reg)
        /\ DOMAIN Snapshot.sources \subseteq Files
    BY <1>0 DEF Snapshot, Restrict
  <2>3. Snapshots' \subseteq {Snapshot}
    BY <2>1 DEF Snapshots
  <2> HIDE DEF result, progress
  <2>4. UNCHANGED <<mode, walked, paths, parsed, folded, reg, store>> /\ pc' = "write"
    BY <1>7 DEF StartWrite, result, progress
  <2> QED BY <2>2, <2>3, <2>4 DEF TypeInv
<1>8. CASE FinishWrite
  <2>1. Snapshots' \subseteq Snapshots
    BY <1>8 DEF FinishWrite, Snapshots
  <2> QED BY <1>8, <2>1 DEF FinishWrite, TypeInv
<1>9. CASE FailWrite
  <2>1. Snapshots' \subseteq Snapshots
    BY <1>9 DEF FailWrite, Snapshots
  <2> QED BY <1>9, <2>1 DEF FailWrite, TypeInv
<1>10. CASE Crash
  <2>1. Snapshots' \subseteq Snapshots
    BY <1>10 DEF Crash, Snapshots
  <2>2. Known(reg') = {} /\ DOMAIN parsed' = {}
    BY <1>10, EmptyRegistryOK DEF Crash
  <2>3. store'.delta.tombstoned = {}
    BY <1>10 DEF Crash, StoreOver, EmptyDelta
  <2> QED BY <1>10, <2>1, <2>2, <2>3 DEF Crash, TypeInv
<1>11. CASE UNCHANGED vars
  BY <1>11 DEF vars, TypeInv, Snapshots
<1> QED
  BY <1>1, <1>2, <1>3, <1>4, <1>5, <1>6, <1>7, <1>8, <1>9, <1>10, <1>11 DEF Next

LEMMA TypeInvariant == Spec => []TypeInv
BY InitTypes, StepTypes, IdInvariant, PTL DEF Spec

\* The registry, the graph and what is stored are what their types say, in every
\* analysis (main.rs, snapshot.rs).  Ids never run out.
THEOREM AnalysisTyped ==
  ASSUME Nodes = Nat
  PROVE  Spec => []TypeOK
<1>1. IdInv /\ TypeInv => TypeOK
  <2> SUFFICES ASSUME IdInv, TypeInv PROVE TypeOK
    OBVIOUS
  <2>1. /\ reg.next \in Nat /\ \A s \in Known(reg) : reg.node[s] \in Nat /\ reg.node[s] < reg.next
        /\ GraphOK(store, reg.next)
    BY DEF IdInv, AnalysisOK, RegistryOK
  <2>2. NodesOf(reg, Known(reg)) \subseteq Nodes \cap 0 .. reg.next - 1
    BY <2>1 DEF NodesOf
  <2>3. store.delta \in Delta
    <3>1. store.delta.fileNodes \in [Files -> SUBSET Nodes]
      BY <2>1 DEF GraphOK, DeltaOK, Below
    <3> QED BY <2>1, <3>1 DEF GraphOK, DeltaOK, Delta, TypeInv
  <2>4. store \in Store
    BY <2>1, <2>3 DEF GraphOK, BaseOK, Store
  <2>5. \A s \in Snapshots : s.base \in Base
    BY DEF IdInv, SnapshotOK, BaseOK
  <2> QED BY <2>2, <2>4, <2>5 DEF TypeOK, TypeInv
<1> QED BY <1>1, IdInvariant, TypeInvariant, PTL

-------------------------------------------------------------------------------
(***************************************************************************)
(* Definitions.                                                            *)
(***************************************************************************)
\* Ids never run out, and callers are definitions of their text.
Scanned ==
  /\ Nodes = Nat
  /\ \A f \in Files : \A t \in Texts[f] : Scoped(t)

\* What is stored of a file that was not in doubt is what the file meant at the
\* time recorded for it; of such a file with no time, nothing is stored.
SnapshotMeant(s) ==
  /\ \A f \in DOMAIN s.sources : s.sources[f] \in Nat /\ s.sources[f] <= mtime[f]
  /\ \A f \in DOMAIN s.sources \ s.doubt :
       disk[f] # Absent /\ mtime[f] = s.sources[f] => NamedIn(DOMAIN s.names, f) = Meant(f)
  /\ \A f \in Files \ (DOMAIN s.sources \cup s.doubt) : NamedIn(DOMAIN s.names, f) = {}

\* The files that were folded or left out have the definitions they mean, or are
\* in doubt.
ContentsInv ==
  /\ mtime \in [Files -> Nat]
  /\ \A f \in Files : disk[f] \in Texts[f] \cup {Absent}
  /\ \A f \in DOMAIN parsed : parsed[f] \in Texts[f] \cup {Unread}
  /\ \A s \in Snapshots : SnapshotMeant(s)
  /\ pc # "parse" => paths \subseteq folded
  /\ pc = "parse" /\ mode = "build" =>
       \A f \in paths \ folded : SymbolsOf(reg, f) = {} /\ store.delta.fileNodes[f] = {}
  /\ pc # "idle" =>
       \A f \in Files \ (paths \ folded) : f \notin doubt => NamedIn(Known(reg), f) = Meant(f)
  /\ \A s \in Known(reg) : Qualified(s) /\ s.name # Module =>
       reg.node[s] \in store.base.ids \cup store.delta.fileNodes[s.file]

LEMMA MeantDefined ==
  ASSUME NEW f \in Files
  PROVE  /\ disk[f] = Absent => Meant(f) = {}
         /\ disk[f] # Absent => Meant(f) = Defined(f, disk[f])
BY DEF Meant, Defined

LEMMA SameContents ==
  ASSUME NEW r, NEW m, NEW g, SymbolsOf(m, g) = SymbolsOf(r, g)
  PROVE  NamedIn(Known(m), g) = NamedIn(Known(r), g)
<1>1. NamedIn(Known(m), g) = {s \in SymbolsOf(m, g) : s.name # Module}
  BY DEF NamedIn, SymbolsOf
<1>2. NamedIn(Known(r), g) = {s \in SymbolsOf(r, g) : s.name # Module}
  BY DEF NamedIn, SymbolsOf
<1> QED BY <1>1, <1>2

\* A fold gives the file the graph's record of what it owns, or finds it right:
\* a build owns nothing of a file before it reads it.
FoldsOver(f, st) ==
  /\ AnalysisOK(reg, st)
  /\ st.base = store.base
  /\ st.delta.added = store.delta.added /\ st.delta.tombstoned = store.delta.tombstoned
  /\ st.delta.fileNodes[f] = NodesOf(reg, SymbolsOf(reg, f))
  /\ \A g \in Files \ {f} : st.delta.fileNodes[g] = store.delta.fileNodes[g]

LEMMA WhatAFoldDoes ==
  ASSUME Scanned, IdInv, TypeInv, ContentsInv, NEW f \in Files, Fold(f)
  PROVE  /\ \A g \in Files \ {f} : g \in doubt' <=> g \in doubt
         /\ \E st : /\ FoldsOver(f, st)
                    /\ \/ /\ Becomes(Vanish(reg, st, f))
                          /\ f \notin doubt' => disk[f] = Absent
                       \/ /\ parsed[f] \in Texts[f]
                          /\ Becomes(ApplyFacts(reg, st, f, parsed[f]))
                          /\ f \notin doubt' => disk[f] = parsed[f]
                       \/ /\ Becomes([reg |-> reg, store |-> st])
                          /\ f \notin doubt' => disk[f] = Absent /\ SymbolsOf(reg, f) = {}
<1>1. /\ pc = "parse" /\ f \in DOMAIN parsed /\ f \in paths \ folded
      /\ parsed[f] \in Texts[f] \cup {Unread}
  BY DEF Fold, NextToFold, ContentsInv
<1>2. ASSUME NEW text, Shows(f, text)
      PROVE  /\ \A g \in Files \ {f} : g \in doubt' <=> g \in doubt
             /\ f \notin doubt' => disk[f] = text
  BY <1>2 DEF Shows
<1>3. CASE mode = "refresh"
  <2>1. FoldsOver(f, OwnedAgain(f))
    <3>1. AnalysisOK(reg, OwnedAgain(f))
      BY OwnedOK DEF OwnedAgain, IdInv
    <3>2. /\ OwnedAgain(f).base = store.base
          /\ OwnedAgain(f).delta.added = store.delta.added
          /\ OwnedAgain(f).delta.tombstoned = store.delta.tombstoned
          /\ OwnedAgain(f).delta.fileNodes =
               [store.delta.fileNodes EXCEPT ![f] = NodesOf(reg, SymbolsOf(reg, f))]
          /\ store.delta.fileNodes = [g \in Files |-> store.delta.fileNodes[g]]
      BY DEF OwnedAgain, SetFileNodes, IdInv, AnalysisOK, GraphOK, DeltaOK
    <3> HIDE DEF OwnedAgain
    <3> QED BY <3>1, <3>2 DEF FoldsOver
  <2>2. FoldRefreshed(f)
    BY <1>3 DEF Fold
  <2>3. CASE Forgets(f)
    BY <1>2, <2>1, <2>3 DEF Forgets
  <2>4. CASE /\ parsed[f] # Unread
             /\ Becomes(ApplyFacts(reg, OwnedAgain(f), f, parsed[f]))
             /\ Shows(f, parsed[f])
    BY <1>1, <1>2, <2>1, <2>4
  <2>5. CASE /\ Becomes([reg |-> reg, store |-> OwnedAgain(f)])
             /\ doubt' = doubt \cup {f}
    BY <2>1, <2>5
  <2> QED BY <2>2, <2>3, <2>4, <2>5 DEF FoldRefreshed
<1>4. CASE mode # "refresh"
  <2>1. mode = "build" /\ FoldBuilt(f)
    BY <1>4 DEF Fold, TypeInv
  <2>2. SymbolsOf(reg, f) = {} /\ store.delta.fileNodes[f] = {}
    BY <1>1, <2>1 DEF ContentsInv
  <2>3. NodesOf(reg, SymbolsOf(reg, f)) = {}
    BY <2>2 DEF NodesOf
  <2>4. FoldsOver(f, store)
    BY <2>2, <2>3 DEF FoldsOver, IdInv
  <2>5. CASE parsed[f] = Unread /\ UNCHANGED result /\ Shows(f, Absent)
    <3>1. Becomes([reg |-> reg, store |-> store])
      BY <2>5 DEF Becomes, result
    <3>2. /\ \A g \in Files \ {f} : g \in doubt' <=> g \in doubt
          /\ f \notin doubt' => disk[f] = Absent
      BY <1>2, <2>5
    <3> QED BY <2>2, <2>4, <3>1, <3>2
  <2>6. CASE /\ parsed[f] # Unread
             /\ Becomes(ApplyFacts(reg, store, f, parsed[f])) /\ Shows(f, parsed[f])
    <3>1. /\ \A g \in Files \ {f} : g \in doubt' <=> g \in doubt
          /\ f \notin doubt' => disk[f] = parsed[f]
      BY <1>2, <2>6
    <3> QED BY <1>1, <2>4, <2>6, <3>1
  <2> QED BY <2>1, <2>5, <2>6 DEF FoldBuilt
<1> QED BY <1>3, <1>4

\* A fold gives the file its definitions, with nodes it owns, and leaves the
\* other files alone.
LEMMA FoldContents ==
  ASSUME Scanned, IdInv, TypeInv, ContentsInv, NEW f \in Files, Fold(f)
  PROVE  /\ f \notin doubt' => NamedIn(Known(reg'), f) = Meant(f)
         /\ \A s \in NamedIn(Known(reg'), f) :
              s \in Known(reg) \/ (parsed[f] \in Texts[f] /\ s \in Defined(f, parsed[f]))
         /\ \A g \in Files \ {f} : /\ SymbolsOf(reg', g) = SymbolsOf(reg, g)
                                   /\ store'.delta.fileNodes[g] = store.delta.fileNodes[g]
         /\ \A s \in Known(reg') : Qualified(s) /\ s.name # Module =>
              reg'.node[s] \in store'.base.ids \cup store'.delta.fileNodes[s.file]
<1>1. PICK st :
        /\ FoldsOver(f, st)
        /\ \/ Becomes(Vanish(reg, st, f)) /\ (f \notin doubt' => disk[f] = Absent)
           \/ /\ parsed[f] \in Texts[f] /\ Becomes(ApplyFacts(reg, st, f, parsed[f]))
              /\ f \notin doubt' => disk[f] = parsed[f]
           \/ /\ Becomes([reg |-> reg, store |-> st])
              /\ f \notin doubt' => disk[f] = Absent /\ SymbolsOf(reg, f) = {}
  BY WhatAFoldDoes
<1>2. RegistryOK(reg) /\ Known(reg) \subseteq Symbol /\ st = [base |-> st.base, delta |-> st.delta]
  BY <1>1 DEF FoldsOver, AnalysisOK, GraphOK, TypeInv
<1>3. st.delta.fileNodes \in [Files -> SUBSET Below(reg.next)]
  BY <1>1 DEF FoldsOver, AnalysisOK, GraphOK, DeltaOK
<1>4. ASSUME NEW s \in Known(reg'), Qualified(s), s.name # Module, s.file # f,
             s \in Known(reg), reg'.node[s] = reg.node[s], s.file \in Files,
             store'.base = store.base,
             store'.delta.fileNodes[s.file] = store.delta.fileNodes[s.file]
      PROVE  reg'.node[s] \in store'.base.ids \cup store'.delta.fileNodes[s.file]
  BY <1>4 DEF ContentsInv
<1>5. CASE Becomes(Vanish(reg, st, f)) /\ (f \notin doubt' => disk[f] = Absent)
  <2>1. /\ reg' = [reg EXCEPT !.node = Restrict(@, Known(reg) \ SymbolsOf(reg, f))]
        /\ store' = [st EXCEPT !.delta =
                       ReplaceFileEdges(st.base, @, f, NoRows, @.fileNodes[f])]
    BY <1>5 DEF Becomes, Vanish, ForgetFile
  <2>2. Known(reg) \ SymbolsOf(reg, f) \in SUBSET Known(reg)
    OBVIOUS
  <2>3. /\ Known(reg') = Known(reg) \ SymbolsOf(reg, f)
        /\ \A s \in Known(reg') : reg'.node[s] = reg.node[s]
    BY <1>2, <2>1, <2>2, Forgotten
  <2>4. /\ store'.base = store.base
        /\ \A g \in Files \ {f} : store'.delta.fileNodes[g] = store.delta.fileNodes[g]
    <3>1. store' = [base |-> st.base,
                    delta |-> ReplaceFileEdges(st.base, st.delta, f, NoRows, st.delta.fileNodes[f])]
      BY <1>2, <2>1
    <3>2. \A g \in Files \ {f} : store'.delta.fileNodes[g] = st.delta.fileNodes[g]
      BY <1>3, <3>1 DEF ReplaceFileEdges
    <3> QED BY <1>1, <3>1, <3>2 DEF FoldsOver
  <2>5. NamedIn(Known(reg'), f) = {}
    BY <2>3 DEF NamedIn, SymbolsOf
  <2>6. \A g \in Files \ {f} : SymbolsOf(reg', g) = SymbolsOf(reg, g)
    BY <2>3 DEF SymbolsOf
  <2>7. ASSUME NEW s \in Known(reg'), Qualified(s), s.name # Module
        PROVE  reg'.node[s] \in store'.base.ids \cup store'.delta.fileNodes[s.file]
    <3>1. s \in Known(reg) /\ s.file # f
      BY <2>3 DEF SymbolsOf
    <3>2. s.file \in Files
      BY <1>2, <2>7, <3>1 DEF Symbol, Qualified
    <3> QED BY <1>4, <2>3, <2>4, <2>7, <3>1, <3>2
  <2> QED BY <1>5, <2>4, <2>5, <2>6, <2>7, MeantDefined
<1>6. CASE /\ parsed[f] \in Texts[f] /\ Becomes(ApplyFacts(reg, st, f, parsed[f]))
           /\ f \notin doubt' => disk[f] = parsed[f]
  <2>0. parsed[f] \in Text /\ Scoped(parsed[f]) /\ parsed[f] # Absent
    BY <1>6, AnalyseAssumption DEF Scanned
  <2> DEFINE a == ApplyFacts(reg, st, f, parsed[f])
             p == PrepareFacts(reg, f, parsed[f])
  <2>1. reg' = a.reg /\ store' = a.store
    BY <1>6 DEF Becomes
  <2>2. /\ Known(a.reg) \subseteq Symbol
        /\ NamedIn(Known(a.reg), f) = Defined(f, parsed[f])
        /\ \A g \in Files \ {f} : SymbolsOf(a.reg, g) = SymbolsOf(reg, g)
    BY <1>1, <1>2, <2>0, AppliedContents DEF FoldsOver
  <2>3. /\ \A s \in Known(a.reg) : a.reg.node[s] = p.reg.node[s]
        /\ \A s \in Known(a.reg) \cap Known(reg) : a.reg.node[s] = reg.node[s]
    BY <1>1, <1>2, <2>0, AppliedNames DEF FoldsOver
  <2>4. p.nodes = NodesOf(p.reg, Defined(f, parsed[f]))
    <3> DEFINE text == parsed[f]
    <3>1. text \in Text
      BY <2>0
    <3> HIDE DEF p, text
    <3>2. LET q == PrepareFacts(reg, f, text) IN q.nodes = NodesOf(q.reg, Defined(f, text))
      BY <1>2, <3>1, PreparedNames
    <3> QED BY <3>2 DEF p, text
  <2>5. a.store = [base |-> st.base,
                   delta |-> ReplaceFileEdges(st.base, st.delta, f, p.edges, p.nodes)]
    BY <1>2 DEF ApplyFacts
  <2> HIDE DEF a, p
  <2>6. /\ store'.base = store.base
        /\ \A g \in Files \ {f} : store'.delta.fileNodes[g] = store.delta.fileNodes[g]
        /\ p.nodes \subseteq store'.delta.fileNodes[f]
    <3>1. \A g \in Files \ {f} : store'.delta.fileNodes[g] = st.delta.fileNodes[g]
      BY <1>3, <2>1, <2>5 DEF ReplaceFileEdges
    <3>2. p.nodes \subseteq store'.delta.fileNodes[f]
      BY <1>3, <2>1, <2>5 DEF ReplaceFileEdges
    <3> QED BY <1>1, <2>1, <2>5, <3>1, <3>2 DEF FoldsOver
  <2>7. f \notin doubt' => NamedIn(Known(reg'), f) = Meant(f)
    BY <1>6, <2>0, <2>1, <2>2, MeantDefined
  <2>8. ASSUME NEW s \in Known(reg'), Qualified(s), s.name # Module
        PROVE  reg'.node[s] \in store'.base.ids \cup store'.delta.fileNodes[s.file]
    <3>0. s \in Known(a.reg) /\ s.file \in Files
      BY <2>1, <2>2, <2>8 DEF Symbol, Qualified
    <3>1. CASE s.file = f
      <4>1. s \in Defined(f, parsed[f])
        BY <2>2, <2>8, <3>0, <3>1 DEF NamedIn
      <4>2. p.reg.node[s] \in p.nodes
        BY <2>4, <4>1 DEF NodesOf
      <4> QED BY <2>1, <2>3, <2>6, <3>0, <3>1, <4>2
    <3>2. CASE s.file # f
      <4>1. s \in Known(reg)
        BY <2>2, <3>0, <3>2 DEF SymbolsOf
      <4> QED BY <1>4, <2>1, <2>3, <2>6, <2>8, <3>0, <3>2, <4>1
    <3> QED BY <3>1, <3>2
  <2> QED BY <1>6, <2>1, <2>2, <2>6, <2>7, <2>8
<1>7. CASE /\ Becomes([reg |-> reg, store |-> st])
           /\ f \notin doubt' => disk[f] = Absent /\ SymbolsOf(reg, f) = {}
  <2>1. reg' = reg /\ store' = st /\ store'.base = store.base
    BY <1>1, <1>7 DEF Becomes, FoldsOver
  <2>2. f \notin doubt' => NamedIn(Known(reg'), f) = Meant(f)
    BY <1>7, <2>1, MeantDefined DEF NamedIn, SymbolsOf
  <2>3. \A g \in Files \ {f} : /\ SymbolsOf(reg', g) = SymbolsOf(reg, g)
                               /\ store'.delta.fileNodes[g] = store.delta.fileNodes[g]
    BY <1>1, <2>1 DEF FoldsOver
  <2>4. ASSUME NEW s \in Known(reg'), Qualified(s), s.name # Module
        PROVE  reg'.node[s] \in store'.base.ids \cup store'.delta.fileNodes[s.file]
    <3>1. CASE s.file = f
      BY <1>1, <2>1, <3>1 DEF FoldsOver, NodesOf, SymbolsOf
    <3>2. CASE s.file # f
      <4>1. s.file \in Files
        BY <1>2, <2>1, <2>4 DEF Symbol, Qualified
      <4> QED BY <1>4, <2>1, <2>3, <2>4, <3>2, <4>1
    <3> QED BY <3>1, <3>2
  <2>5. \A s \in NamedIn(Known(reg'), f) : s \in Known(reg)
    BY <2>1 DEF NamedIn
  <2> QED BY <2>2, <2>3, <2>4, <2>5
<1> QED BY <1>1, <1>5, <1>6, <1>7

LEMMA InitContents == Init => ContentsInv
<1> SUFFICES ASSUME Init PROVE ContentsInv
  OBVIOUS
<1>1. Known(reg) = {} /\ Snapshots = {} /\ DOMAIN parsed = {}
  BY EmptyRegistryOK DEF Init, Snapshots
<1> QED BY <1>1 DEF Init, ContentsInv

\* What is stored stays right when the tree changes, because a change gives the
\* file a time that was not recorded.
LEMMA ChangeKeepsMeaning ==
  ASSUME ContentsInv, NEW f \in Files, Change(f), NEW s \in Snapshots,
         DOMAIN s.sources \subseteq Files
  PROVE  SnapshotMeant(s)'
<1>1. /\ mtime' = [mtime EXCEPT ![f] = mtime[f] + 1]
      /\ \A g \in Files \ {f} : disk'[g] = disk[g]
  <2>1. PICK t \in (Texts[f] \cup {Absent}) \ {disk[f]} : disk' = [disk EXCEPT ![f] = t]
    BY DEF Change
  <2> QED BY <2>1 DEF Change
<1>2. mtime \in [Files -> Nat] /\ SnapshotMeant(s)
  BY DEF ContentsInv
<1>3. \A g \in DOMAIN s.sources : s.sources[g] \in Nat /\ s.sources[g] <= mtime[g] /\ g \in Files
  BY <1>2 DEF SnapshotMeant
<1>4. mtime'[f] = mtime[f] + 1 /\ \A g \in Files \ {f} : mtime'[g] = mtime[g]
  BY <1>1, <1>2
<1>5. \A g \in DOMAIN s.sources : s.sources[g] \in Nat /\ s.sources[g] <= mtime'[g]
  BY <1>2, <1>3, <1>4
<1>6. ASSUME NEW g \in DOMAIN s.sources \ s.doubt, disk'[g] # Absent, mtime'[g] = s.sources[g]
      PROVE  NamedIn(DOMAIN s.names, g) = Meant(g)'
  <2>1. g # f
    BY <1>2, <1>3, <1>4, <1>6
  <2>2. mtime[g] = s.sources[g] /\ disk'[g] = disk[g]
    BY <1>1, <1>3, <1>4, <1>6, <2>1
  <2>3. Meant(g)' = Meant(g)
    BY <2>2 DEF Meant
  <2> QED BY <1>2, <1>6, <2>2, <2>3 DEF SnapshotMeant
<1> QED BY <1>2, <1>5, <1>6 DEF SnapshotMeant

\* The definitions an analysis knows are covered by the compacted graph.
LEMMA NamesCovered ==
  ASSUME Scanned, IdInv, TypeInv, ContentsInv,
         NEW s \in Known(reg), Qualified(s), s.name # Module
  PROVE  reg.node[s] \in Covered(store)
<1>1. reg.node[s] \in store.base.ids \cup store.delta.fileNodes[s.file]
  BY DEF ContentsInv
<1>2. reg.node[s] \in Nat /\ s.file \in Files
  BY DEF IdInv, AnalysisOK, RegistryOK, TypeInv, Symbol, Qualified
<1>3. CASE reg.node[s] \in store.base.ids
  BY <1>3 DEF Covered
<1>4. CASE reg.node[s] \in store.delta.fileNodes[s.file]
  <2>1. reg.node[s] \in Mentioned(store.delta)
    BY <1>2, <1>4 DEF Mentioned
  <2>2. reg.node[s] <= reg.node[s] /\ reg.node[s] \in Nodes
    BY <1>2 DEF Scanned
  <2> QED BY <2>1, <2>2 DEF Covered
<1> QED BY <1>1, <1>3, <1>4

\* What is stored is what the analysis knows, at the times it knows it for.
LEMMA SnapshotIsMeant ==
  ASSUME Scanned, IdInv, TypeInv, ContentsInv, pc = "store"
  PROVE  SnapshotMeant(Snapshot)
<1>1. /\ paths \subseteq folded
      /\ \A f \in Files : f \notin doubt => NamedIn(Known(reg), f) = Meant(f)
  BY DEF ContentsInv
<1>2. /\ Snapshot.base.ids = Covered(store)
      /\ Snapshot.names = Restrict(reg.node, {s \in Known(reg) : reg.node[s] \in Snapshot.base.ids})
      /\ Snapshot.sources = [f \in walked \cap Tree |-> mtime[f]]
      /\ Snapshot.doubt = doubt \cup (Tree \ walked)
  BY DEF Snapshot, Compact
<1>3. DOMAIN Snapshot.names = {s \in Known(reg) : reg.node[s] \in Covered(store)}
  BY <1>2 DEF Restrict
<1>4. /\ DOMAIN Snapshot.sources = walked \cap Tree
      /\ \A f \in walked \cap Tree : Snapshot.sources[f] = mtime[f]
  BY <1>2
<1>5. \A s \in Known(reg) : Qualified(s) /\ s.name # Module => reg.node[s] \in Covered(store)
  BY NamesCovered
<1>6. ASSUME NEW f \in Files, f \notin doubt PROVE NamedIn(DOMAIN Snapshot.names, f) = Meant(f)
  <2>1. \A s \in NamedIn(Known(reg), f) : Qualified(s)
    BY RegistryAssumption DEF NamedIn, Qualified
  <2>2. NamedIn(DOMAIN Snapshot.names, f) = NamedIn(Known(reg), f)
    BY <1>3, <1>5, <2>1 DEF NamedIn
  <2> QED BY <1>1, <1>6, <2>2
<1>7. \A f \in Files \ Tree : Meant(f) = {}
  BY DEF Tree, Meant
<1>8. \A f \in Tree : f \in Files /\ mtime[f] \in Nat /\ mtime[f] <= mtime[f]
  BY DEF Tree, ContentsInv
<1>9. ASSUME NEW f \in Files \ (DOMAIN Snapshot.sources \cup Snapshot.doubt)
      PROVE  NamedIn(DOMAIN Snapshot.names, f) = {}
  <2>1. f \notin doubt /\ f \notin Tree
    BY <1>2, <1>4
  <2> QED BY <1>6, <1>7, <2>1
<1>10. ASSUME NEW f \in DOMAIN Snapshot.sources \ Snapshot.doubt
       PROVE  NamedIn(DOMAIN Snapshot.names, f) = Meant(f)
  <2>1. f \notin doubt /\ f \in Files
    BY <1>2, <1>4, <1>8
  <2> QED BY <1>6, <2>1
<1> QED BY <1>4, <1>8, <1>9, <1>10 DEF SnapshotMeant

\* A refresh begins with what is right of the files it leaves out.
LEMMA BeginContents ==
  ASSUME IdInv, TypeInv, ContentsInv, Begin
  PROVE  ContentsInv'
<1> USE DEF world, progress, result
<1>1. /\ DOMAIN parsed' = {} /\ folded' = {}
      /\ UNCHANGED <<disk, mtime, locked, cache, pending>>
  BY DEF Begin
<1>2. Tree' = Tree /\ Snapshots' = Snapshots /\ (\A f \in Files : Meant(f)' = Meant(f))
  BY <1>1 DEF Tree, Snapshots, Meant
<1>3. \A s \in Snapshots' : SnapshotMeant(s)'
  <2>1. \A s : SnapshotMeant(s) => SnapshotMeant(s)'
    BY <1>1 DEF SnapshotMeant, Meant
  <2> QED BY <1>2, <2>1 DEF ContentsInv
<1>4. CASE Loadable
  <2>1. Start("refresh", Stale \cup Added, Restored(cache), cache.base) /\ doubt' = cache.doubt
    BY <1>4 DEF Begin
  <2>2. cache \in Snapshots
    BY <1>4 DEF Loadable, Snapshots
  <2>3. /\ mode' = "refresh" /\ paths' = Stale \cup Added
        /\ Known(reg') = DOMAIN cache.names
        /\ \A s \in Known(reg') : reg'.node[s] = cache.names[s]
        /\ store'.base = cache.base
        /\ pc' = IF paths' = {} THEN "served" ELSE "parse"
    BY <2>1 DEF Start, Restored, Known, StoreOver
  <2>4. ASSUME NEW f \in Files, f \notin paths', f \notin doubt'
        PROVE  NamedIn(Known(reg'), f) = Meant(f)
    <3>1. SnapshotMeant(cache)
      BY <2>2 DEF ContentsInv
    <3>2. CASE f \in DOMAIN cache.sources
      <4>1. disk[f] # Absent /\ mtime[f] = cache.sources[f]
        BY <2>3, <2>4, <3>2 DEF Stale
      <4> QED BY <2>1, <2>3, <2>4, <3>1, <3>2, <4>1 DEF SnapshotMeant
    <3>3. CASE f \notin DOMAIN cache.sources
      <4>1. f \notin Tree
        BY <2>3, <2>4, <3>3 DEF Added
      <4>2. Meant(f) = {}
        BY <4>1 DEF Tree, Meant
      <4> QED BY <2>1, <2>3, <2>4, <3>1, <3>3, <4>2 DEF SnapshotMeant
    <3> QED BY <3>2, <3>3
  <2>5. \A s \in Known(reg') : reg'.node[s] \in store'.base.ids
    BY <2>2, <2>3 DEF IdInv, SnapshotOK
  <2>6. pc' # "parse" => paths' = {}
    BY <2>3
  <2>7. \A f \in Files \ (paths' \ folded') : f \notin doubt' => NamedIn(Known(reg'), f) = Meant(f)'
    BY <1>1, <1>2, <2>4
  <2>8. pc' \in {"served", "parse"} /\ mode' # "build"
    BY <2>3
  <2> QED BY <1>1, <1>3, <2>5, <2>6, <2>7, <2>8 DEF ContentsInv
<1>5. CASE ~Loadable
  <2>1. Start("build", Tree, NewRegistry(0), EmptyGraph)
    BY <1>5 DEF Begin
  <2>2. Known(NewRegistry(0)) = {}
    BY EmptyRegistryOK
  <2>3. /\ paths' = Tree /\ pc' = "parse" /\ Known(reg') = {}
        /\ \A f \in Files : store'.delta.fileNodes[f] = {}
    BY <2>1, <2>2 DEF Start, StoreOver, EmptyDelta
  <2>4. \A f \in Files : NamedIn(Known(reg'), f) = {} /\ SymbolsOf(reg', f) = {}
    BY <2>3 DEF NamedIn, SymbolsOf
  <2>5. \A f \in Files \ Tree : Meant(f) = {}
    BY DEF Tree, Meant
  <2>6. Tree \subseteq Files
    BY DEF Tree
  <2> QED BY <1>1, <1>2, <1>3, <2>3, <2>4, <2>5, <2>6 DEF ContentsInv
<1> QED BY <1>4, <1>5

LEMMA MeaningKept ==
  ASSUME ContentsInv, UNCHANGED <<disk, mtime, cache, pending>>
  PROVE  Snapshots' = Snapshots /\ (\A s \in Snapshots : SnapshotMeant(s)')
<1>1. Snapshots' = Snapshots
  BY DEF Snapshots
<1>2. \A s : SnapshotMeant(s) => SnapshotMeant(s)'
  BY DEF SnapshotMeant, Meant
<1> QED BY <1>1, <1>2 DEF ContentsInv

LEMMA StepContents == Scanned /\ IdInv /\ TypeInv /\ ContentsInv /\ [Next]_vars => ContentsInv'
<1> SUFFICES ASSUME Scanned, IdInv, TypeInv, ContentsInv, [Next]_vars PROVE ContentsInv'
  OBVIOUS
<1> USE DEF world, progress, result
<1>1. ASSUME NEW f \in Files, Change(f) PROVE ContentsInv'
  <2>1. /\ doubt' = doubt \cup {f}
        /\ mtime' = [mtime EXCEPT ![f] = mtime[f] + 1]
        /\ UNCHANGED <<locked, cache, pc, mode, walked, paths, parsed, folded, reg, store, pending>>
    BY <1>1 DEF Change
  <2>2. /\ \A g \in Files : disk'[g] \in Texts[g] \cup {Absent}
        /\ \A g \in Files \ {f} : disk'[g] = disk[g]
    <3>1. PICK t \in (Texts[f] \cup {Absent}) \ {disk[f]} : disk' = [disk EXCEPT ![f] = t]
      BY <1>1 DEF Change
    <3> QED BY <3>1 DEF ContentsInv, IdInv
  <2>3. mtime' \in [Files -> Nat]
    BY <2>1 DEF ContentsInv
  <2>4. \A s \in Snapshots' : SnapshotMeant(s)'
    <3>1. Snapshots' = Snapshots
      BY <2>1 DEF Snapshots
    <3> QED BY <1>1, <3>1, ChangeKeepsMeaning DEF TypeInv
  <2>5. ASSUME pc # "idle", NEW g \in Files \ (paths \ folded), g \notin doubt'
        PROVE  NamedIn(Known(reg), g) = Meant(g)'
    <3>1. g # f /\ g \notin doubt
      BY <2>1, <2>5
    <3>2. Meant(g)' = Meant(g)
      BY <2>2, <2>5, <3>1 DEF Meant
    <3> QED BY <2>5, <3>1, <3>2 DEF ContentsInv
  <2> QED BY <2>1, <2>2, <2>3, <2>4, <2>5 DEF ContentsInv
<1>2. ASSUME NEW f \in Files, Lock(f) PROVE ContentsInv'
  <2>1. UNCHANGED <<disk, mtime, cache, pc, mode, paths, parsed, folded, reg, store, pending, doubt>>
    BY <1>2 DEF Lock
  <2>2. Snapshots' = Snapshots /\ (\A s \in Snapshots : SnapshotMeant(s)')
    BY <2>1, MeaningKept
  <2> QED BY <2>1, <2>2 DEF ContentsInv, Meant
<1>3. ASSUME NEW f \in Files, Parse(f) PROVE ContentsInv'
  <2>1. /\ pc = "parse" /\ DOMAIN parsed' = DOMAIN parsed \cup {f}
        /\ UNCHANGED <<disk, mtime, locked, cache, pc, mode, walked, paths, folded, reg, store, pending, doubt>>
    BY <1>3 DEF Parse
  <2>2. ASSUME NEW g \in DOMAIN parsed' PROVE parsed'[g] \in Texts[g] \cup {Unread}
    <3>1. CASE g # f
      BY <1>3, <2>1, <3>1 DEF Parse, ContentsInv
    <3>2. CASE g = f
      <4>1. parsed'[f] = IF Readable(f) THEN disk[f] ELSE Unread
        BY <1>3 DEF Parse
      <4> QED BY <3>2, <4>1 DEF Readable, ContentsInv
    <3> QED BY <3>1, <3>2
  <2>3. Snapshots' = Snapshots /\ (\A s \in Snapshots : SnapshotMeant(s)')
    BY <2>1, MeaningKept
  <2> QED BY <2>1, <2>2, <2>3 DEF ContentsInv, Meant
<1>4. ASSUME NEW f \in Files, Fold(f) PROVE ContentsInv'
  <2>1. /\ pc = "parse" /\ folded' = folded \cup {f}
        /\ UNCHANGED <<disk, mtime, locked, cache, pc, mode, walked, paths, parsed, pending>>
    BY <1>4 DEF Fold
  <2>2. /\ f \notin doubt' => NamedIn(Known(reg'), f) = Meant(f)
        /\ \A g \in Files \ {f} : /\ SymbolsOf(reg', g) = SymbolsOf(reg, g)
                                  /\ store'.delta.fileNodes[g] = store.delta.fileNodes[g]
        /\ \A s \in Known(reg') : Qualified(s) /\ s.name # Module =>
              reg'.node[s] \in store'.base.ids \cup store'.delta.fileNodes[s.file]
    BY <1>4, FoldContents
  <2>3. ASSUME NEW g \in Files \ (paths' \ folded'), g \notin doubt'
        PROVE  NamedIn(Known(reg'), g) = Meant(g)
    <3>1. CASE g = f
      BY <2>2, <2>3, <3>1
    <3>2. CASE g # f
      <4>1. NamedIn(Known(reg'), g) = NamedIn(Known(reg), g)
        BY <2>2, <3>2, SameContents
      <4>2. g \notin doubt
        BY <1>4, <2>3, <3>2, WhatAFoldDoes
      <4> QED BY <2>1, <2>3, <3>2, <4>1, <4>2 DEF ContentsInv
    <3> QED BY <3>1, <3>2
  <2>4. \A g \in Files : Meant(g)' = Meant(g)
    BY <2>1 DEF Meant
  <2>5. Snapshots' = Snapshots /\ (\A s \in Snapshots : SnapshotMeant(s)')
    BY <2>1, MeaningKept
  <2>6. \A g \in paths' \ folded' : g \in paths \ folded /\ g \in Files \ {f}
    BY <2>1 DEF TypeInv
  <2> QED BY <2>1, <2>2, <2>3, <2>4, <2>5, <2>6 DEF ContentsInv
<1>5. CASE Begin
  BY <1>5, BeginContents
<1>6. CASE Link
  <2>1. /\ pc = "parse" /\ pc' = "store" /\ folded = paths
        /\ store' = LinkPlaceholders(reg, store)
        /\ UNCHANGED <<disk, mtime, locked, cache, mode, walked, paths, parsed, folded, pending, doubt>>
    BY <1>6 DEF Link
  <2>2. store'.base = store.base /\ store'.delta.fileNodes = store.delta.fileNodes
    BY <2>1 DEF LinkPlaceholders, ReplaceEdgesOfKind, IdInv, AnalysisOK, GraphOK, DeltaOK
  <2>3. /\ Known(reg') \subseteq Known(reg)
        /\ \A s \in Known(reg') : reg'.node[s] = reg.node[s]
        /\ \A s \in Known(reg) : Qualified(s) => s \in Known(reg')
    <3>1. CASE mode = "refresh"
      <4> DEFINE S == {s \in Known(reg) : Qualified(s) \/ reg.node[s] \in Referenced(store')}
      <4>1. reg' = [reg EXCEPT !.node = Restrict(@, S)]
        BY <1>6, <3>1 DEF Link, ForgetOrphans
      <4>2. S \in SUBSET Known(reg)
        OBVIOUS
      <4>3. Known(reg') = S /\ \A s \in S : reg'.node[s] = reg.node[s]
        <5> HIDE DEF S
        <5> QED BY <4>1, <4>2, Forgotten DEF IdInv, AnalysisOK
      <4> QED BY <4>3
    <3>2. CASE mode # "refresh"
      BY <1>6, <3>2 DEF Link
    <3> QED BY <3>1, <3>2
  <2>4. \A g \in Files : SymbolsOf(reg', g) = SymbolsOf(reg, g)
    BY <2>3, RegistryAssumption DEF SymbolsOf, Qualified
  <2>5. \A g \in Files : Meant(g)' = Meant(g) /\ NamedIn(Known(reg'), g) = NamedIn(Known(reg), g)
    BY <2>1, <2>4, SameContents DEF Meant
  <2>6. Snapshots' = Snapshots /\ (\A s \in Snapshots : SnapshotMeant(s)')
    <3>1. UNCHANGED <<cache, pending>>
      BY <1>6 DEF Link
    <3> QED BY <2>1, <3>1, MeaningKept
  <2> QED BY <2>1, <2>2, <2>3, <2>5, <2>6 DEF ContentsInv
<1>7. CASE StartWrite
  <2>1. /\ pc = "store" /\ pending' = Snapshot /\ cache' = Torn /\ pc' = "write"
        /\ UNCHANGED <<disk, mtime, locked, mode, walked, paths, parsed, folded, reg, store, doubt>>
    BY <1>7 DEF StartWrite
  <2>2. SnapshotMeant(Snapshot)
    BY <2>1, SnapshotIsMeant
  <2> DEFINE made == Snapshot
  <2>3. Snapshots' \subseteq {made}
    BY <2>1 DEF Snapshots
  <2>4. \A s : SnapshotMeant(s) => SnapshotMeant(s)'
    BY <2>1 DEF SnapshotMeant, Meant
  <2> HIDE DEF made
  <2>5. \A s \in Snapshots' : SnapshotMeant(s)'
    <3>1. SnapshotMeant(made)
      BY <2>2 DEF made
    <3> QED BY <2>3, <2>4, <3>1
  <2> QED BY <2>1, <2>5 DEF ContentsInv, Meant
<1>8. CASE FinishWrite
  <2>1. Snapshots' \subseteq Snapshots
    BY <1>8 DEF FinishWrite, Snapshots
  <2>2. \A s : SnapshotMeant(s) => SnapshotMeant(s)'
    BY <1>8 DEF FinishWrite, SnapshotMeant, Meant
  <2> QED BY <1>8, <2>1, <2>2 DEF FinishWrite, ContentsInv, Meant
<1>9. CASE FailWrite
  <2>1. Snapshots' \subseteq Snapshots
    BY <1>9 DEF FailWrite, Snapshots
  <2>2. \A s : SnapshotMeant(s) => SnapshotMeant(s)'
    BY <1>9 DEF FailWrite, SnapshotMeant, Meant
  <2> QED BY <1>9, <2>1, <2>2 DEF FailWrite, ContentsInv, Meant
<1>10. CASE Crash
  <2>1. Snapshots' \subseteq Snapshots
    BY <1>10 DEF Crash, Snapshots
  <2>2. \A s : SnapshotMeant(s) => SnapshotMeant(s)'
    BY <1>10 DEF Crash, SnapshotMeant, Meant
  <2>3. Known(reg') = {} /\ DOMAIN parsed' = {}
    BY <1>10, EmptyRegistryOK DEF Crash
  <2> QED BY <1>10, <2>1, <2>2, <2>3 DEF Crash, ContentsInv
<1>11. CASE UNCHANGED vars
  <2>1. UNCHANGED <<disk, mtime, cache, pc, mode, paths, parsed, folded, reg, store, pending, doubt>>
    BY <1>11 DEF vars
  <2>2. Snapshots' = Snapshots /\ (\A s \in Snapshots : SnapshotMeant(s)')
    BY <2>1, MeaningKept
  <2> QED BY <2>1, <2>2 DEF ContentsInv, Meant
<1> QED
  BY <1>1, <1>2, <1>3, <1>4, <1>5, <1>6, <1>7, <1>8, <1>9, <1>10, <1>11 DEF Next

LEMMA ContentsInvariant == Scanned => (Spec => []ContentsInv)
<1>1. CASE Scanned
  BY <1>1, InitContents, StepContents, IdInvariant, TypeInvariant, PTL DEF Spec
<1> QED BY <1>1

\* A file whose time is the recorded one is stored as it is, unless a fold left
\* it in doubt: a snapshot never passes off an old version it read whole as the
\* present one (snapshot::read, read_partial), though files change and cannot
\* be read at any moment.
THEOREM StoredFilesAreCurrent ==
  ASSUME Scanned
  PROVE  Spec => []FreshMeansCurrent
<1>1. ContentsInv => FreshMeansCurrent
  <2> SUFFICES ASSUME ContentsInv, cache \notin {NoCache, Torn},
                      NEW f \in DOMAIN cache.sources \ cache.doubt,
                      disk[f] # Absent, mtime[f] = cache.sources[f]
               PROVE  NamedIn(DOMAIN cache.names, f) = Meant(f)
    BY DEF FreshMeansCurrent
  <2>1. cache \in Snapshots
    BY DEF Snapshots
  <2> QED BY <2>1 DEF ContentsInv, SnapshotMeant
<1> QED BY <1>1, ContentsInvariant, PTL

\* What a finished analysis knows of a file that is not in doubt is what the file
\* means.
LEMMA KnownIsMeant == ContentsInv => DefinitionsAsBuilt
BY DEF ContentsInv, DefinitionsAsBuilt, Sure

\* After any sequence of builds, refreshes, failed writes and crashes, with files
\* changing, locked or not UTF-8 at any moment, a finished analysis knows of every
\* file not in doubt what its text defines (refresh_files, build_graph).
THEOREM DefinitionsStayExact ==
  ASSUME Scanned
  PROVE  Spec => []DefinitionsAsBuilt
<1> QED BY KnownIsMeant, ContentsInvariant, PTL

-------------------------------------------------------------------------------
(***************************************************************************)
(* What a reader sees of the edges after an operation.                     *)
(***************************************************************************)
\* replace_file_edges: the rows of the nodes the file owned are the parsed ones,
\* to the others the parsed ones are added.
LEMMA ViewReplaced ==
  ASSUME NEW st, NEW k, GraphOK(st, k), NEW f \in Files, NEW rows \in Rows, NEW defines,
         NEW st2, st2 = [base |-> st.base,
                         delta |-> ReplaceFileEdges(st.base, st.delta, f, rows, defines)],
         NEW n \in Nodes, NEW e \in Edge
  PROVE  Neighbors(st2, n)[e] = IF n \in st.delta.fileNodes[f] THEN rows[n][e]
                                ELSE Neighbors(st, n)[e] + rows[n][e]
<1> DEFINE owned  == st.delta.fileNodes[f]
           old    == IF <<n, e.target>> \in st.delta.tombstoned THEN 0 ELSE BaseRow(st.base, n)[e]
           new    == IF <<n, e.target>> \in st2.delta.tombstoned THEN 0 ELSE BaseRow(st.base, n)[e]
           masked == {p \in owned \X Nodes :
                        \E d \in Edge : d.target = p[2] /\ BaseRow(st.base, p[1])[d] > 0}
<1>1. /\ st.delta.added[n][e] \in Nat /\ rows[n][e] \in Nat /\ BaseRow(st.base, n)[e] \in Nat
  BY DEF GraphOK, BaseOK, DeltaOK, Base, Rows, BaseRow, NoEdges
<1>2. Neighbors(st, n)[e] = old + st.delta.added[n][e]
  BY DEF Neighbors
<1>3. Neighbors(st2, n)[e] = new + st2.delta.added[n][e]
  BY DEF Neighbors
<1>4. st2.delta.added[n][e] = (IF n \in owned THEN 0 ELSE st.delta.added[n][e]) + rows[n][e]
  BY DEF ReplaceFileEdges, AddRows, NoEdges
<1>5. st2.delta.tombstoned = st.delta.tombstoned \cup masked
  BY DEF ReplaceFileEdges
<1>6. CASE n \in owned
  <2>1. new = 0
    <3>1. CASE BaseRow(st.base, n)[e] > 0
      <4>1. <<n, e.target>> \in masked
        BY <1>6, <3>1 DEF Edge
      <4> QED BY <1>5, <4>1
    <3>2. CASE ~(BaseRow(st.base, n)[e] > 0)
      BY <1>1, <3>2
    <3> QED BY <3>1, <3>2
  <2> HIDE DEF new
  <2> QED BY <1>1, <1>3, <1>4, <1>6, <2>1
<1>7. CASE n \notin owned
  <2>1. new = old
    BY <1>5, <1>7
  <2>2. old \in Nat
    BY <1>1
  <2> HIDE DEF new, old
  <2> QED BY <1>1, <1>2, <1>3, <1>4, <1>7, <2>1, <2>2
<1> QED BY <1>6, <1>7

\* replace_edges_of_kind: edges of other kinds are as before, the new ones are there.
LEMMA ViewRelinked ==
  ASSUME NEW st, NEW k, GraphOK(st, k), NEW rows \in Rows,
         \A n \in Nodes, e \in Edge : rows[n][e] > 0 => e.kind = "link",
         NEW st2, st2 = [base |-> st.base, delta |-> ReplaceEdgesOfKind(st.delta, "link", rows)],
         NEW n \in Nodes, NEW e \in Edge
  PROVE  /\ e.kind # "link" => Neighbors(st2, n)[e] = Neighbors(st, n)[e]
         /\ rows[n][e] > 0 => Neighbors(st2, n)[e] > 0
<1> DEFINE old == IF <<n, e.target>> \in st.delta.tombstoned THEN 0 ELSE BaseRow(st.base, n)[e]
<1>1. /\ st.delta.added[n][e] \in Nat /\ rows[n][e] \in Nat /\ BaseRow(st.base, n)[e] \in Nat
  BY DEF GraphOK, BaseOK, DeltaOK, Base, Rows, BaseRow, NoEdges
<1>2. old \in Nat
  BY <1>1
<1>3. Neighbors(st, n)[e] = old + st.delta.added[n][e]
  BY DEF Neighbors
<1>4. st2.delta.tombstoned = st.delta.tombstoned
  BY DEF ReplaceEdgesOfKind, GraphOK, DeltaOK
<1>5. Neighbors(st2, n)[e] = old + st2.delta.added[n][e]
  BY <1>4 DEF Neighbors
<1>6. st2.delta.added[n][e] = (IF e.kind = "link" THEN 0 ELSE st.delta.added[n][e]) + rows[n][e]
  BY DEF ReplaceEdgesOfKind, AddRows, GraphOK, DeltaOK
<1>7. e.kind # "link" => rows[n][e] = 0
  BY <1>1
<1> HIDE DEF old
<1> QED BY <1>1, <1>2, <1>3, <1>5, <1>6, <1>7

\* compact: the rows of the new base are what a reader saw.
LEMMA ViewCompacted ==
  ASSUME NEW st, NEW k, GraphOK(st, k), NEW n \in Nodes, NEW e \in Edge
  PROVE  /\ Compact(st).base.rows[n][e] = Neighbors(st, n)[e]
         /\ Neighbors(st, n)[e] > 0 => n \in Covered(st) /\ e.target \in Covered(st)
<1>1. Compact(st).base.rows[n] = IF n \in Covered(st) THEN Neighbors(st, n) ELSE NoEdges
  BY DEF Compact
<1>2. Neighbors(st, n)[e] \in Nat
  BY ViewedEdges
<1>3. n <= n /\ e.target \in Nodes /\ e.target <= e.target
  <2>1. e.target \in Nodes
    BY DEF Edge
  <2>2. n \in Nat /\ e.target \in Nat
    BY <2>1, DeltaAssumption
  <2> QED BY <2>1, <2>2
<1>4. ASSUME Neighbors(st, n)[e] > 0 PROVE n \in Covered(st) /\ e.target \in Covered(st)
  <2>1. CASE st.base.rows[n][e] > 0
    <3>1. n \in Sources(st.base.rows) /\ e.target \in Targets(st.base.rows)
      BY <1>3, <2>1 DEF Sources, Targets
    <3> QED BY <3>1 DEF GraphOK, BaseOK, BaseClosed, Covered
  <2>2. CASE st.delta.added[n][e] > 0
    <3>1. n \in Mentioned(st.delta) /\ e.target \in Mentioned(st.delta)
      BY <1>3, <2>2 DEF Mentioned, Sources, Targets
    <3> QED BY <1>3, <3>1 DEF Covered
  <2> QED BY <1>4, <2>1, <2>2, ViewedEdges
<1> QED BY <1>1, <1>2, <1>4 DEF NoEdges

\* A restored graph shows the rows of its base.
LEMMA ViewRestored ==
  ASSUME NEW base, NEW k, BaseOK(base, k), NEW n \in Nodes, NEW e \in Edge
  PROVE  Neighbors(StoreOver(base), n)[e] = base.rows[n][e]
<1>1. base.rows[n][e] \in Nat
  BY DEF BaseOK, Base, Rows
<1>2. Neighbors(StoreOver(base), n)[e] = BaseRow(base, n)[e]
  <2>1. BaseRow(base, n)[e] \in Nat
    BY <1>1 DEF BaseRow, NoEdges
  <2> QED BY <2>1 DEF Neighbors, StoreOver, EmptyDelta, NoRows, NoEdges
<1>3. CASE n \in base.ids
  BY <1>2, <1>3 DEF BaseRow
<1>4. CASE n \notin base.ids
  <2>1. ~(base.rows[n][e] > 0)
    BY <1>4 DEF BaseOK, BaseClosed, Sources
  <2> QED BY <1>1, <1>2, <1>4, <2>1 DEF BaseRow, NoEdges
<1> QED BY <1>3, <1>4

-------------------------------------------------------------------------------
(***************************************************************************)
(* Calls.                                                                  *)
(***************************************************************************)
CallTo(m) == [target |-> m, kind |-> "call"]
LinkTo(m) == [target |-> m, kind |-> "link"]

\* Whom a text calls by a name.
CalleeOf(f, t, n) == IF n \in t.defines THEN Def(f, n) ELSE Bare(n)

\* Each call of the text is an edge between the nodes of its names, except that
\* the top level may have lost its name; and the definitions call nobody else.
CallsRight(node, rows, f, t) ==
  /\ \A c \in t.calls :
       /\ CalleeOf(f, t, c[2]) \in DOMAIN node
       /\ \E k \in Nodes :
            /\ rows[k][CallTo(node[CalleeOf(f, t, c[2])])] > 0
            /\ \A s \in DOMAIN node : node[s] = k => s = Def(f, c[1])
            /\ c[1] # Module => Def(f, c[1]) \in DOMAIN node /\ node[Def(f, c[1])] = k
  /\ \A n \in t.defines :
       /\ Def(f, n) \in DOMAIN node
       /\ \A m \in Nodes : rows[node[Def(f, n)]][CallTo(m)] > 0 =>
            \E c \in t.calls : c[1] = n /\ m = node[CalleeOf(f, t, c[2])]

\* What happens elsewhere leaves the calls of a file right, if it keeps the
\* file's names and those of the placeholders it calls, does not touch the rows
\* of its nodes and gives none of these a name.
LEMMA CallsKept ==
  ASSUME NEW f \in Files, NEW t \in Text,
         NEW old, NEW rows1, CallsRight(old, rows1, f, t),
         \A s \in DOMAIN old : old[s] \in Nodes,
         NEW new, NEW rows2,
         \A s \in DOMAIN old :
            \/ s.file = f /\ s.name # Module
            \/ ~Qualified(s) /\ \E k \in Nodes : rows1[k][CallTo(old[s])] > 0
            => s \in DOMAIN new /\ new[s] = old[s],
         \A k \in Nodes, m \in Nodes :
            rows1[k][CallTo(m)] > 0 /\ (\A s \in DOMAIN old : old[s] = k => s.file = f)
            => /\ rows2[k][CallTo(m)] > 0
               /\ \A s \in DOMAIN new : new[s] = k => s \in DOMAIN old /\ old[s] = k,
         \A s \in DOMAIN old, m \in Nodes :
            s.file = f /\ s.name # Module /\ rows2[old[s]][CallTo(m)] > 0
            => rows1[old[s]][CallTo(m)] > 0
  PROVE  CallsRight(new, rows2, f, t)
<1>1. t.defines \subseteq Names /\ t.calls \subseteq (Names \cup {Module}) \X Names
  BY DEF Text
<1>2. ASSUME NEW c \in t.calls
      PROVE  LET d == CalleeOf(f, t, c[2])
             IN  d \in DOMAIN old /\ d \in DOMAIN new /\ new[d] = old[d] /\ old[d] \in Nodes
  <2> DEFINE d == CalleeOf(f, t, c[2])
  <2>1. d \in DOMAIN old /\ \E k \in Nodes : rows1[k][CallTo(old[d])] > 0
    BY DEF CallsRight
  <2>2. c[2] \in Names
    BY <1>1
  <2>3. \/ d.file = f /\ d.name # Module
        \/ ~Qualified(d)
    BY <2>2, RegistryAssumption DEF CalleeOf, Def, Bare, Qualified
  <2> HIDE DEF d
  <2>4. d \in DOMAIN new /\ new[d] = old[d]
    BY <2>1, <2>3
  <2> QED BY <2>1, <2>4 DEF d
<1>3. ASSUME NEW c \in t.calls
      PROVE  \E k \in Nodes :
               /\ rows2[k][CallTo(new[CalleeOf(f, t, c[2])])] > 0
               /\ \A s \in DOMAIN new : new[s] = k => s = Def(f, c[1])
               /\ c[1] # Module => Def(f, c[1]) \in DOMAIN new /\ new[Def(f, c[1])] = k
  <2> DEFINE d == CalleeOf(f, t, c[2])
  <2>1. d \in DOMAIN old /\ new[d] = old[d] /\ old[d] \in Nodes
    BY <1>2
  <2>2. PICK k \in Nodes :
          /\ rows1[k][CallTo(old[d])] > 0
          /\ \A s \in DOMAIN old : old[s] = k => s = Def(f, c[1])
          /\ c[1] # Module => Def(f, c[1]) \in DOMAIN old /\ old[Def(f, c[1])] = k
    BY DEF CallsRight
  <2> HIDE DEF d
  <2>3. Def(f, c[1]).file = f /\ Def(f, c[1]).name = c[1]
    BY DEF Def
  <2>4. /\ rows2[k][CallTo(old[d])] > 0
        /\ \A s \in DOMAIN new : new[s] = k => s \in DOMAIN old /\ old[s] = k
    BY <2>1, <2>2, <2>3
  <2>5. c[1] # Module => Def(f, c[1]) \in DOMAIN new /\ new[Def(f, c[1])] = k
    BY <2>2, <2>3
  <2> QED BY <2>1, <2>2, <2>4, <2>5 DEF d
<1>4. ASSUME NEW n \in t.defines
      PROVE  /\ Def(f, n) \in DOMAIN new
             /\ \A m \in Nodes : rows2[new[Def(f, n)]][CallTo(m)] > 0 =>
                  \E c \in t.calls : c[1] = n /\ m = new[CalleeOf(f, t, c[2])]
  <2>1. Def(f, n) \in DOMAIN old /\ Def(f, n).file = f /\ Def(f, n).name # Module
    BY <1>1, RegistryAssumption DEF CallsRight, Def
  <2>2. Def(f, n) \in DOMAIN new /\ new[Def(f, n)] = old[Def(f, n)]
    BY <2>1
  <2>3. ASSUME NEW m \in Nodes, rows2[new[Def(f, n)]][CallTo(m)] > 0
        PROVE  \E c \in t.calls : c[1] = n /\ m = new[CalleeOf(f, t, c[2])]
    <3>1. rows1[old[Def(f, n)]][CallTo(m)] > 0
      BY <2>1, <2>2, <2>3
    <3>2. PICK c \in t.calls : c[1] = n /\ m = old[CalleeOf(f, t, c[2])]
      BY <3>1 DEF CallsRight
    <3> QED BY <1>2, <3>2
  <2> QED BY <2>2, <2>3
<1> QED BY <1>2, <1>3, <1>4 DEF CallsRight

LEMMA CallEdges ==
  ASSUME NEW m \in Nodes
  PROVE  /\ CallTo(m) \in Edge /\ CallTo(m).target = m /\ CallTo(m).kind = "call"
         /\ LinkTo(m) \in Edge /\ LinkTo(m).target = m /\ LinkTo(m).kind = "link"
BY RegistryAssumption DEF CallTo, LinkTo, Edge

\* No call leaves a placeholder.
CallFree(node, rows) ==
  \A s \in DOMAIN node : ~Qualified(s) =>
     \A m \in Nodes : ~(rows[node[s]][CallTo(m)] > 0)

\* Replacing the edges of a file leaves the calls of other files right.
LEMMA OthersKept ==
  ASSUME NEW r, NEW st, AnalysisOK(r, st), Nodes = Nat, NEW f \in Files,
         st.delta.fileNodes[f] = NodesOf(r, SymbolsOf(r, f)),
         NEW rows \in Rows, NEW defines,
         NEW st2, st2 = [base |-> st.base,
                         delta |-> ReplaceFileEdges(st.base, st.delta, f, rows, defines)],
         NEW m,
         \A s \in Known(m) \cap Known(r) : m.node[s] = r.node[s],
         \A s \in Known(m) \ Known(r) : m.node[s] \in Nat /\ r.next <= m.node[s],
         \A g \in Files \ {f} : SymbolsOf(m, g) = SymbolsOf(r, g),
         \A s \in Known(r) : ~Qualified(s) => s \in Known(m),
         \A n \in Nodes, i \in Nodes : rows[n][CallTo(i)] > 0 =>
            \A s \in Known(m) : m.node[s] = n => s.file = f
  PROVE  /\ CallFree(r.node, View(st)) => CallFree(m.node, View(st2))
         /\ \A g \in Files \ {f}, t \in Text :
              CallsRight(r.node, View(st), g, t) => CallsRight(m.node, View(st2), g, t)
<1>1. /\ RegistryOK(r) /\ GraphOK(st, r.next) /\ r.next \in Nat
      /\ \A s \in Known(r) : r.node[s] \in Nodes /\ r.node[s] < r.next
      /\ \A s, o \in Known(r) : r.node[s] = r.node[o] => s = o
  BY DEF AnalysisOK, RegistryOK, IsInjective, Known
<1>2. \A n \in Nodes : View(st)[n] = Neighbors(st, n) /\ View(st2)[n] = Neighbors(st2, n)
  BY DEF View
<1>3. \A n \in Nodes, i \in Nodes :
        /\ Neighbors(st, n)[CallTo(i)] \in Nat /\ rows[n][CallTo(i)] \in Nat
        /\ Neighbors(st2, n)[CallTo(i)] =
              IF n \in st.delta.fileNodes[f] THEN rows[n][CallTo(i)]
              ELSE Neighbors(st, n)[CallTo(i)] + rows[n][CallTo(i)]
  <2> SUFFICES ASSUME NEW n \in Nodes, NEW i \in Nodes
               PROVE  /\ Neighbors(st, n)[CallTo(i)] \in Nat /\ rows[n][CallTo(i)] \in Nat
                      /\ Neighbors(st2, n)[CallTo(i)] =
                            IF n \in st.delta.fileNodes[f] THEN rows[n][CallTo(i)]
                            ELSE Neighbors(st, n)[CallTo(i)] + rows[n][CallTo(i)]
    OBVIOUS
  <2> DEFINE e == CallTo(i)
  <2>1. e \in Edge
    BY CallEdges
  <2> HIDE DEF e
  <2>2. Neighbors(st, n)[e] \in Nat
    BY <1>1, <2>1, ViewedEdges
  <2>3. rows[n][e] \in Nat
    BY <2>1 DEF Rows
  <2>4. Neighbors(st2, n)[e] = IF n \in st.delta.fileNodes[f] THEN rows[n][e]
                               ELSE Neighbors(st, n)[e] + rows[n][e]
    BY <1>1, <2>1, ViewReplaced
  <2> QED BY <2>2, <2>3, <2>4 DEF e
<1>4. \A n \in Nodes, i \in Nodes : Neighbors(st, n)[CallTo(i)] > 0 => n < r.next
  BY <1>1, CallEdges, EdgesBelow
<1>5. \A n \in st.delta.fileNodes[f] : \E o \in Known(r) : o.file = f /\ r.node[o] = n
  BY DEF NodesOf, SymbolsOf
<1>6. ASSUME NEW s \in Known(m), s.file # f, NEW i \in Nodes
      PROVE  View(st2)[m.node[s]][CallTo(i)] > 0 =>
               s \in Known(r) /\ View(st)[m.node[s]][CallTo(i)] > 0
  <2> SUFFICES ASSUME View(st2)[m.node[s]][CallTo(i)] > 0
               PROVE  s \in Known(r) /\ View(st)[m.node[s]][CallTo(i)] > 0
    OBVIOUS
  <2>1. m.node[s] \in Nodes
    BY <1>1
  <2>2. ~(rows[m.node[s]][CallTo(i)] > 0)
    BY <1>6, <2>1
  <2>3. rows[m.node[s]][CallTo(i)] = 0
    BY <1>3, <2>1, <2>2
  <2>4. m.node[s] \notin st.delta.fileNodes[f] /\ Neighbors(st, m.node[s])[CallTo(i)] > 0
    BY <1>2, <1>3, <2>1, <2>3
  <2>5. m.node[s] < r.next
    BY <1>4, <2>1, <2>4
  <2>6. s \in Known(r)
    BY <1>1, <2>1, <2>5
  <2> QED BY <1>2, <2>1, <2>4, <2>6
<1>7. ASSUME CallFree(r.node, View(st)) PROVE CallFree(m.node, View(st2))
  <2> SUFFICES ASSUME NEW s \in Known(m), ~Qualified(s), NEW i \in Nodes,
                      View(st2)[m.node[s]][CallTo(i)] > 0
               PROVE  FALSE
    BY DEF CallFree, Known
  <2>1. s.file # f
    BY RegistryAssumption DEF Qualified
  <2>2. s \in Known(r) /\ View(st)[m.node[s]][CallTo(i)] > 0
    BY <1>6, <2>1
  <2> QED BY <1>7, <2>2 DEF CallFree, Known
<1>8. ASSUME NEW g \in Files \ {f}, NEW t \in Text, CallsRight(r.node, View(st), g, t)
      PROVE  CallsRight(m.node, View(st2), g, t)
  <2>1. ASSUME NEW s \in Known(r), s.file = g \/ ~Qualified(s)
        PROVE  s \in Known(m) /\ m.node[s] = r.node[s] /\ s.file # f
    <3>1. s \in Known(m)
      BY <2>1 DEF SymbolsOf
    <3> QED BY <2>1, <3>1, RegistryAssumption DEF Qualified
  <2>2. ASSUME NEW k \in Nodes, NEW i \in Nodes, View(st)[k][CallTo(i)] > 0,
               \A s \in Known(r) : r.node[s] = k => s.file = g
        PROVE  /\ View(st2)[k][CallTo(i)] > 0
               /\ \A s \in Known(m) : m.node[s] = k => s \in Known(r) /\ r.node[s] = k
    <3>1. k \notin st.delta.fileNodes[f]
      BY <1>5, <2>2
    <3>2. View(st2)[k][CallTo(i)] = View(st)[k][CallTo(i)] + rows[k][CallTo(i)]
      BY <1>2, <1>3, <3>1
    <3>3. View(st2)[k][CallTo(i)] > 0
      BY <1>2, <1>3, <2>2, <3>2
    <3>4. k < r.next
      BY <1>2, <1>4, <2>2
    <3>5. \A s \in Known(m) : m.node[s] = k => s \in Known(r)
      BY <1>1, <3>4
    <3> QED BY <3>3, <3>5
  <2>3. ASSUME NEW s \in Known(r), NEW i \in Nodes, s.file = g,
               View(st2)[r.node[s]][CallTo(i)] > 0
        PROVE  View(st)[r.node[s]][CallTo(i)] > 0
    BY <1>6, <2>1, <2>3
  <2>4. Known(r) = DOMAIN r.node /\ Known(m) = DOMAIN m.node
    BY DEF Known
  <2> QED BY <1>1, <1>8, <2>1, <2>2, <2>3, <2>4, CallsKept
<1> QED BY <1>7, <1>8

\* The edges of a file's facts are its calls, between the names the registry gives
\* their ends.
LEMMA PreparedEdges ==
  ASSUME NEW r, RegistryOK(r), NEW f \in Files, NEW text \in Text
  PROVE  LET p == PrepareFacts(r, f, text)
         IN  /\ \A e \in Ends(Known(r), f, text) : e[1] \in Known(p.reg) /\ e[2] \in Known(p.reg)
             /\ \A n \in Nodes, m \in Nodes :
                  p.edges[n][CallTo(m)] > 0 <=>
                    \E e \in Ends(Known(r), f, text) : n = p.reg.node[e[1]] /\ m = p.reg.node[e[2]]
<1> DEFINE p == PrepareFacts(r, f, text)
           ends == Ends(Known(r), f, text)
           pairs == {<<p.reg.node[e[1]], p.reg.node[e[2]]>> : e \in ends}
<1>1. /\ Known(p.reg) = Known(r) \cup Defined(f, text) \cup EndNames(Known(r), f, text)
      /\ p.edges = PairRows(pairs, "call")
  BY PreparedNames
<1> HIDE DEF p
<1>2. \A e \in ends : e[1] \in Known(p.reg) /\ e[2] \in Known(p.reg)
  BY <1>1 DEF EndNames
<1>3. ASSUME NEW n \in Nodes, NEW m \in Nodes
      PROVE  p.edges[n][CallTo(m)] > 0 <=> <<n, m>> \in pairs
  <2>1. p.edges[n][CallTo(m)] =
          IF CallTo(m).kind = "call" /\ <<n, CallTo(m).target>> \in pairs THEN 1 ELSE 0
    BY <1>1, CallEdges DEF PairRows
  <2> HIDE DEF pairs
  <2> QED BY <2>1, CallEdges
<1> HIDE DEF ends
<1>4. \A n \in Nodes, m \in Nodes :
        <<n, m>> \in pairs <=> \E e \in ends : n = p.reg.node[e[1]] /\ m = p.reg.node[e[2]]
  OBVIOUS
<1> QED BY <1>2, <1>3, <1>4 DEF p, ends

\* They are the calls of the text, if none of its callees is a name that only an
\* earlier text of the file defined.
LEMMA PreparedCalls ==
  ASSUME NEW r, RegistryOK(r), NEW f \in Files, NEW text \in Text,
         \A c \in text.calls : Def(f, c[2]) \in Known(r) => c[2] \in text.defines
  PROVE  LET p == PrepareFacts(r, f, text)
         IN  /\ \A c \in text.calls : /\ Def(f, c[1]) \in Known(p.reg)
                                      /\ CalleeOf(f, text, c[2]) \in Known(p.reg)
             /\ \A n \in Nodes, m \in Nodes :
                  p.edges[n][CallTo(m)] > 0 <=>
                    \E c \in text.calls : /\ n = p.reg.node[Def(f, c[1])]
                                          /\ m = p.reg.node[CalleeOf(f, text, c[2])]
<1> DEFINE p == PrepareFacts(r, f, text)
           ends == Ends(Known(r), f, text)
<1>1. /\ \A e \in ends : e[1] \in Known(p.reg) /\ e[2] \in Known(p.reg)
      /\ \A n \in Nodes, m \in Nodes :
           p.edges[n][CallTo(m)] > 0 <=>
             \E e \in ends : n = p.reg.node[e[1]] /\ m = p.reg.node[e[2]]
  BY PreparedEdges
<1> HIDE DEF p
<1>2. \A c \in text.calls : Def(f, c[2]) \in Known(r) \cup Defined(f, text) <=> c[2] \in text.defines
  BY DEF Defined, Def
<1>3. ASSUME NEW c \in text.calls
      PROVE  \E e \in ends : e[1] = Def(f, c[1]) /\ e[2] = CalleeOf(f, text, c[2])
  <2>1. <<Def(f, c[1]), IF Def(f, c[2]) \in Known(r) \cup Defined(f, text)
                        THEN Def(f, c[2]) ELSE Bare(c[2])>> \in ends
    BY DEF Ends
  <2>2. <<Def(f, c[1]), CalleeOf(f, text, c[2])>> \in ends
    BY <1>2, <2>1 DEF CalleeOf
  <2> HIDE DEF ends
  <2> QED BY <2>2
<1>4. ASSUME NEW e \in ends
      PROVE  \E c \in text.calls : e[1] = Def(f, c[1]) /\ e[2] = CalleeOf(f, text, c[2])
  <2>1. PICK c \in text.calls :
          e = <<Def(f, c[1]), IF Def(f, c[2]) \in Known(r) \cup Defined(f, text)
                              THEN Def(f, c[2]) ELSE Bare(c[2])>>
    BY DEF Ends
  <2> QED BY <1>2, <2>1 DEF CalleeOf
<1> HIDE DEF ends
<1>5. ASSUME NEW c \in text.calls
      PROVE  Def(f, c[1]) \in Known(p.reg) /\ CalleeOf(f, text, c[2]) \in Known(p.reg)
  <2>1. PICK e \in ends : e[1] = Def(f, c[1]) /\ e[2] = CalleeOf(f, text, c[2])
    BY <1>3
  <2> QED BY <1>1, <2>1
<1>6. ASSUME NEW n \in Nodes, NEW m \in Nodes
      PROVE  (\E e \in ends : n = p.reg.node[e[1]] /\ m = p.reg.node[e[2]]) <=>
             \E c \in text.calls : /\ n = p.reg.node[Def(f, c[1])]
                                   /\ m = p.reg.node[CalleeOf(f, text, c[2])]
  <2>1. ASSUME NEW e \in ends, n = p.reg.node[e[1]], m = p.reg.node[e[2]]
        PROVE  \E c \in text.calls : /\ n = p.reg.node[Def(f, c[1])]
                                     /\ m = p.reg.node[CalleeOf(f, text, c[2])]
    <3>1. PICK c \in text.calls : e[1] = Def(f, c[1]) /\ e[2] = CalleeOf(f, text, c[2])
      BY <1>4
    <3> QED BY <2>1, <3>1
  <2>2. ASSUME NEW c \in text.calls, n = p.reg.node[Def(f, c[1])],
               m = p.reg.node[CalleeOf(f, text, c[2])]
        PROVE  \E e \in ends : n = p.reg.node[e[1]] /\ m = p.reg.node[e[2]]
    <3>1. PICK e \in ends : e[1] = Def(f, c[1]) /\ e[2] = CalleeOf(f, text, c[2])
      BY <1>3
    <3> QED BY <2>2, <3>1
  <2> QED BY <2>1, <2>2
<1> QED BY <1>1, <1>5, <1>6 DEF p

\* apply_facts_into keeps the calls of other files right.
LEMMA AppliedElsewhere ==
  ASSUME NEW r, NEW st, AnalysisOK(r, st), Nodes = Nat, Known(r) \subseteq Symbol,
         NEW f \in Files, NEW text \in Text, Scoped(text),
         st.delta.fileNodes[f] = NodesOf(r, SymbolsOf(r, f))
  PROVE  LET a == ApplyFacts(r, st, f, text)
         IN  /\ CallFree(r.node, View(st)) => CallFree(a.reg.node, View(a.store))
             /\ \A g \in Files \ {f}, t \in Text :
                  CallsRight(r.node, View(st), g, t) => CallsRight(a.reg.node, View(a.store), g, t)
<1> DEFINE a == ApplyFacts(r, st, f, text)
           p == PrepareFacts(r, f, text)
           ends == Ends(Known(r), f, text)
<1>1. /\ RegistryOK(r) /\ GraphOK(st, r.next) /\ r.next \in Nat
      /\ st = [base |-> st.base, delta |-> st.delta]
  BY DEF AnalysisOK, RegistryOK, GraphOK
<1>2. /\ RegistryOK(p.reg) /\ Grows(r, p.reg) /\ p.edges \in Rows
  BY <1>1, PrepareOK
<1>3. /\ \A e \in ends : e[1] \in Known(p.reg) /\ e[1].file = f
      /\ \A n \in Nodes, m \in Nodes :
           p.edges[n][CallTo(m)] > 0 <=>
             \E e \in ends : n = p.reg.node[e[1]] /\ m = p.reg.node[e[2]]
  <2>1. ASSUME NEW e \in ends PROVE e[1].file = f
    <3>1. \E c \in text.calls : e[1] = Def(f, c[1])
      BY DEF Ends
    <3> QED BY <3>1 DEF Def
  <2>2. /\ \A e \in ends : e[1] \in Known(p.reg)
        /\ \A n \in Nodes, m \in Nodes :
             p.edges[n][CallTo(m)] > 0 <=>
               \E e \in ends : n = p.reg.node[e[1]] /\ m = p.reg.node[e[2]]
    BY <1>1, PreparedEdges
  <2> QED BY <2>1, <2>2
<1>4. /\ \A g \in Files \ {f} : SymbolsOf(a.reg, g) = SymbolsOf(r, g)
      /\ \A s \in Known(r) : ~Qualified(s) => s \in Known(a.reg)
  BY <1>1, AppliedContents
<1>5. /\ Known(a.reg) = (Known(r) \cup Defined(f, text) \cup EndNames(Known(r), f, text))
                           \ (SymbolsOf(r, f) \ Defined(f, text))
      /\ \A s \in Known(a.reg) : a.reg.node[s] = p.reg.node[s]
      /\ \A s \in Known(a.reg) \cap Known(r) : a.reg.node[s] = r.node[s]
  BY <1>1, AppliedNames
<1>6. Known(p.reg) = Known(r) \cup Defined(f, text) \cup EndNames(Known(r), f, text)
  <2> HIDE DEF p
  <2> QED BY <1>1, PreparedNames DEF p
<1>7. a.store = [base |-> st.base,
                 delta |-> ReplaceFileEdges(st.base, st.delta, f, p.edges, p.nodes)]
  BY <1>1 DEF ApplyFacts
<1> HIDE DEF a, p, ends
<1>8. /\ Known(a.reg) \subseteq Known(p.reg)
      /\ \A s \in Known(p.reg) : p.reg.node[s] \in Nodes
      /\ \A s, o \in Known(p.reg) : p.reg.node[s] = p.reg.node[o] => s = o
  BY <1>2, <1>5, <1>6 DEF RegistryOK, IsInjective, Known
<1>9. \A n \in Nodes, i \in Nodes : p.edges[n][CallTo(i)] > 0 =>
        \A s \in Known(a.reg) : a.reg.node[s] = n => s.file = f
  <2> SUFFICES ASSUME NEW n \in Nodes, NEW i \in Nodes, p.edges[n][CallTo(i)] > 0,
                      NEW s \in Known(a.reg), a.reg.node[s] = n
               PROVE  s.file = f
    OBVIOUS
  <2>1. PICK e \in ends : n = p.reg.node[e[1]]
    BY <1>3
  <2>2. s = e[1]
    BY <1>3, <1>5, <1>8, <2>1
  <2> QED BY <1>3, <2>2
<1>10. \A s \in Known(a.reg) \ Known(r) : a.reg.node[s] \in Nat /\ r.next <= a.reg.node[s]
  BY <1>2, <1>5, <1>8 DEF Grows
<1> DEFINE m == a.reg
           st2 == a.store
           rows == p.edges
           defines == p.nodes
<1>11. /\ \A s \in Known(m) \cap Known(r) : m.node[s] = r.node[s]
       /\ \A s \in Known(m) \ Known(r) : m.node[s] \in Nat /\ r.next <= m.node[s]
       /\ \A g \in Files \ {f} : SymbolsOf(m, g) = SymbolsOf(r, g)
       /\ \A s \in Known(r) : ~Qualified(s) => s \in Known(m)
  BY <1>4, <1>5, <1>10
<1>12. \A n \in Nodes, i \in Nodes : rows[n][CallTo(i)] > 0 =>
            \A s \in Known(m) : m.node[s] = n => s.file = f
  BY <1>9
<1>13. st2 = [base |-> st.base, delta |-> ReplaceFileEdges(st.base, st.delta, f, rows, defines)]
  BY <1>7
<1>14. rows \in Rows
  BY <1>2
<1> HIDE DEF m, st2, rows, defines
<1>15. /\ CallFree(r.node, View(st)) => CallFree(m.node, View(st2))
       /\ \A g \in Files \ {f}, t \in Text :
            CallsRight(r.node, View(st), g, t) => CallsRight(m.node, View(st2), g, t)
  BY <1>11, <1>12, <1>13, <1>14, OthersKept
<1> QED BY <1>15 DEF m, st2, a

\* apply_facts_into makes the calls of the file right, if none of its callees is
\* a name that only an earlier text defined.
LEMMA AppliedCalls ==
  ASSUME NEW r, NEW st, AnalysisOK(r, st), Nodes = Nat, Known(r) \subseteq Symbol,
         NEW f \in Files, NEW text \in Text, Scoped(text),
         st.delta.fileNodes[f] = NodesOf(r, SymbolsOf(r, f)),
         \A c \in text.calls : Def(f, c[2]) \in Known(r) => c[2] \in text.defines
  PROVE  LET a == ApplyFacts(r, st, f, text)
         IN  CallsRight(a.reg.node, View(a.store), f, text)
<1> DEFINE a == ApplyFacts(r, st, f, text)
           p == PrepareFacts(r, f, text)
<1>1. /\ RegistryOK(r) /\ GraphOK(st, r.next) /\ r.next \in Nat
      /\ st = [base |-> st.base, delta |-> st.delta]
  BY DEF AnalysisOK, RegistryOK, GraphOK
<1>2. /\ RegistryOK(p.reg) /\ Grows(r, p.reg) /\ p.edges \in Rows
  BY <1>1, PrepareOK
<1>3. /\ \A c \in text.calls : /\ Def(f, c[1]) \in Known(p.reg)
                               /\ CalleeOf(f, text, c[2]) \in Known(p.reg)
      /\ \A n \in Nodes, m \in Nodes :
           p.edges[n][CallTo(m)] > 0 <=>
             \E c \in text.calls : /\ n = p.reg.node[Def(f, c[1])]
                                   /\ m = p.reg.node[CalleeOf(f, text, c[2])]
  BY <1>1, PreparedCalls
<1>4. NamedIn(Known(a.reg), f) = Defined(f, text)
  BY <1>1, AppliedContents
<1>5. /\ Known(a.reg) = (Known(r) \cup Defined(f, text) \cup EndNames(Known(r), f, text))
                           \ (SymbolsOf(r, f) \ Defined(f, text))
      /\ \A s \in Known(a.reg) : a.reg.node[s] = p.reg.node[s]
      /\ \A s \in Known(a.reg) \cap Known(r) : a.reg.node[s] = r.node[s]
  BY <1>1, AppliedNames
<1>6. Known(p.reg) = Known(r) \cup Defined(f, text) \cup EndNames(Known(r), f, text)
  <2> HIDE DEF p
  <2> QED BY <1>1, PreparedNames DEF p
<1>7. a.store = [base |-> st.base,
                 delta |-> ReplaceFileEdges(st.base, st.delta, f, p.edges, p.nodes)]
  BY <1>1 DEF ApplyFacts
<1> HIDE DEF a, p
<1>8. /\ Known(a.reg) \subseteq Known(p.reg)
      /\ \A s \in Known(p.reg) : p.reg.node[s] \in Nodes
      /\ \A s, o \in Known(p.reg) : p.reg.node[s] = p.reg.node[o] => s = o
  BY <1>2, <1>5, <1>6 DEF RegistryOK, IsInjective, Known
<1>seen. \A n \in Nodes, e \in Edge :
         Neighbors(a.store, n)[e] = IF n \in st.delta.fileNodes[f] THEN p.edges[n][e]
                                    ELSE Neighbors(st, n)[e] + p.edges[n][e]
  <2> DEFINE st2 == a.store
             rows == p.edges
             defines == p.nodes
  <2>1. st2 = [base |-> st.base, delta |-> ReplaceFileEdges(st.base, st.delta, f, rows, defines)]
    BY <1>7
  <2>2. rows \in Rows
    BY <1>2
  <2> HIDE DEF st2, rows, defines
  <2>3. \A n \in Nodes, e \in Edge :
          Neighbors(st2, n)[e] = IF n \in st.delta.fileNodes[f] THEN rows[n][e]
                                 ELSE Neighbors(st, n)[e] + rows[n][e]
    BY <1>1, <2>1, <2>2, ViewReplaced
  <2> QED BY <2>3 DEF st2, rows
<1>12. ASSUME NEW s \in Known(p.reg), s.file = f, NEW i \in Nodes
       PROVE  View(a.store)[p.reg.node[s]][CallTo(i)] = p.edges[p.reg.node[s]][CallTo(i)]
  <2> DEFINE n == p.reg.node[s]
             e == CallTo(i)
  <2>1. n \in Nodes /\ e \in Edge
    BY <1>8, CallEdges
  <2>2. View(a.store)[n] = Neighbors(a.store, n)
    BY <2>1 DEF View
  <2>3. CASE s \in Known(r)
    <3>1. n = r.node[s] /\ s \in SymbolsOf(r, f)
      BY <1>2, <1>12, <2>3 DEF Grows, SymbolsOf
    <3>2. n \in st.delta.fileNodes[f]
      BY <3>1 DEF NodesOf
    <3> HIDE DEF n, e
    <3>3. Neighbors(a.store, n)[e] = p.edges[n][e]
      BY <1>seen, <2>1, <3>2
    <3> QED BY <2>2, <3>3 DEF n, e
  <2>4. CASE s \notin Known(r)
    <3>1. r.next <= n /\ n \in Nat
      BY <1>2, <1>8, <2>4 DEF Grows
    <3> HIDE DEF n, e
    <3>2. ~(Neighbors(st, n)[e] > 0)
      <4>1. Neighbors(st, n)[e] > 0 => n < r.next
        BY <1>1, <2>1, EdgesBelow
      <4> QED BY <1>1, <3>1, <4>1
    <3>3. Neighbors(st, n)[e] = 0
      BY <1>1, <2>1, <3>2, ViewedEdges
    <3>4. p.edges[n][e] \in Nat
      BY <1>2, <2>1 DEF Rows
    <3>5. Neighbors(a.store, n)[e] = p.edges[n][e]
      <4>1. Neighbors(a.store, n)[e] = IF n \in st.delta.fileNodes[f] THEN p.edges[n][e]
                                       ELSE Neighbors(st, n)[e] + p.edges[n][e]
        BY <1>seen, <2>1
      <4> QED BY <3>3, <3>4, <4>1
    <3> QED BY <2>2, <3>5 DEF n, e
  <2> QED BY <2>3, <2>4
<1>13. text.defines \subseteq Names /\ text.calls \subseteq (Names \cup {Module}) \X Names
  BY DEF Text
<1>14. \A n \in text.defines : Def(f, n) \in Known(a.reg)
  BY <1>4 DEF Defined, NamedIn
<1>15. ASSUME NEW c \in text.calls PROVE CalleeOf(f, text, c[2]) \in Known(a.reg)
  <2>1. CASE c[2] \in text.defines
    BY <1>14, <2>1 DEF CalleeOf
  <2>2. CASE c[2] \notin text.defines
    <3>1. CalleeOf(f, text, c[2]) = Bare(c[2]) /\ Bare(c[2]).file = NoFile
      BY <2>2 DEF CalleeOf, Bare
    <3>2. Bare(c[2]) \notin SymbolsOf(r, f)
      BY <3>1, RegistryAssumption DEF SymbolsOf
    <3> QED BY <1>3, <1>5, <1>6, <3>1, <3>2
  <2> QED BY <2>1, <2>2
<1>16. ASSUME NEW c \in text.calls
       PROVE  \E k \in Nodes :
                /\ View(a.store)[k][CallTo(a.reg.node[CalleeOf(f, text, c[2])])] > 0
                /\ \A s \in Known(a.reg) : a.reg.node[s] = k => s = Def(f, c[1])
                /\ c[1] # Module => Def(f, c[1]) \in Known(a.reg) /\ a.reg.node[Def(f, c[1])] = k
  <2> DEFINE s1 == Def(f, c[1])
             d  == CalleeOf(f, text, c[2])
             k  == p.reg.node[s1]
  <2>1. s1 \in Known(p.reg) /\ d \in Known(a.reg) /\ s1.file = f
    BY <1>3, <1>15 DEF Def
  <2>2. k \in Nodes /\ a.reg.node[d] = p.reg.node[d] /\ p.reg.node[d] \in Nodes
    BY <1>5, <1>8, <2>1
  <2>3. p.edges[k][CallTo(p.reg.node[d])] > 0
    BY <1>3, <2>2
  <2>4. c[1] # Module => s1 \in Known(a.reg)
    BY <1>14 DEF Scoped
  <2> HIDE DEF s1, d, k
  <2>5. View(a.store)[k][CallTo(a.reg.node[d])] > 0
    BY <1>12, <2>1, <2>2, <2>3 DEF k
  <2>6. \A s \in Known(a.reg) : a.reg.node[s] = k => s = s1
    BY <1>5, <1>8, <2>1 DEF k
  <2>7. c[1] # Module => s1 \in Known(a.reg) /\ a.reg.node[s1] = k
    BY <1>5, <2>4 DEF k
  <2> QED BY <2>2, <2>5, <2>6, <2>7 DEF s1, d
<1>17. ASSUME NEW n \in text.defines, NEW m \in Nodes,
              View(a.store)[a.reg.node[Def(f, n)]][CallTo(m)] > 0
       PROVE  \E c \in text.calls : c[1] = n /\ m = a.reg.node[CalleeOf(f, text, c[2])]
  <2> DEFINE s1 == Def(f, n)
  <2>1. s1 \in Known(a.reg) /\ s1 \in Known(p.reg) /\ s1.file = f
    BY <1>8, <1>14 DEF Def
  <2>2. a.reg.node[s1] = p.reg.node[s1] /\ p.reg.node[s1] \in Nodes
    BY <1>5, <1>8, <2>1
  <2>3. p.edges[p.reg.node[s1]][CallTo(m)] > 0
    <3>1. View(a.store)[p.reg.node[s1]][CallTo(m)] > 0
      BY <1>17, <2>2
    <3> HIDE DEF s1
    <3> QED BY <1>12, <2>1, <3>1
  <2>4. PICK c \in text.calls : /\ p.reg.node[s1] = p.reg.node[Def(f, c[1])]
                                /\ m = p.reg.node[CalleeOf(f, text, c[2])]
    BY <1>3, <2>2, <2>3
  <2>5. s1 = Def(f, c[1])
    BY <1>3, <1>8, <2>1, <2>4
  <2>6. c[1] = n
    BY <2>5 DEF Def
  <2> QED BY <1>5, <1>15, <2>4, <2>6
<1>18. CallsRight(a.reg.node, View(a.store), f, text)
  BY <1>14, <1>15, <1>16, <1>17 DEF CallsRight, Known
<1> QED BY <1>18 DEF a

\* A file that vanished leaves the calls of the others right.
LEMMA VanishedCalls ==
  ASSUME NEW r, NEW st, AnalysisOK(r, st), Nodes = Nat, NEW f \in Files,
         st.delta.fileNodes[f] = NodesOf(r, SymbolsOf(r, f))
  PROVE  LET v == Vanish(r, st, f)
         IN  /\ CallFree(r.node, View(st)) => CallFree(v.reg.node, View(v.store))
             /\ \A g \in Files \ {f}, t \in Text :
                  CallsRight(r.node, View(st), g, t) => CallsRight(v.reg.node, View(v.store), g, t)
<1> DEFINE m    == Vanish(r, st, f).reg
           st2  == Vanish(r, st, f).store
           rows == NoRows
           defines == st.delta.fileNodes[f]
           left == Known(r) \ SymbolsOf(r, f)
<1>1. RegistryOK(r) /\ st = [base |-> st.base, delta |-> st.delta]
  BY DEF AnalysisOK, GraphOK
<1>2. st2 = [base |-> st.base, delta |-> ReplaceFileEdges(st.base, st.delta, f, rows, defines)]
  BY <1>1 DEF Vanish
<1>3. m = [r EXCEPT !.node = Restrict(@, left)]
  BY DEF Vanish, ForgetFile
<1>4. rows \in Rows /\ \A n \in Nodes, i \in Nodes : ~(rows[n][CallTo(i)] > 0)
  <2>1. \A n \in Nodes, e \in Edge : rows[n][e] = 0
    BY DEF NoRows, NoEdges
  <2> QED BY <2>1, CallEdges DEF NoRows, NoEdges, Rows
<1> HIDE DEF m, st2, rows, defines
<1>5. Known(m) = left /\ \A s \in left : m.node[s] = r.node[s]
  <2>1. left \in SUBSET Known(r)
    OBVIOUS
  <2> HIDE DEF left
  <2> QED BY <1>1, <1>3, <2>1, Forgotten
<1>6. /\ \A s \in Known(m) \cap Known(r) : m.node[s] = r.node[s]
      /\ \A s \in Known(m) \ Known(r) : m.node[s] \in Nat /\ r.next <= m.node[s]
      /\ \A g \in Files \ {f} : SymbolsOf(m, g) = SymbolsOf(r, g)
      /\ \A s \in Known(r) : ~Qualified(s) => s \in Known(m)
  BY <1>5, RegistryAssumption DEF SymbolsOf, Qualified
<1>7. \A n \in Nodes, i \in Nodes : rows[n][CallTo(i)] > 0 =>
         \A s \in Known(m) : m.node[s] = n => s.file = f
  BY <1>4
<1>8. /\ CallFree(r.node, View(st)) => CallFree(m.node, View(st2))
      /\ \A g \in Files \ {f}, t \in Text :
           CallsRight(r.node, View(st), g, t) => CallsRight(m.node, View(st2), g, t)
  BY <1>2, <1>4, <1>6, <1>7, OthersKept
<1> QED BY <1>8 DEF m, st2

-------------------------------------------------------------------------------
\* Definitions come from texts of their file.
NamesOfTexts(names) ==
  \A s \in names : Qualified(s) /\ s.name # Module =>
     \E u \in Texts[s.file] : s.name \in u.defines

\* A placeholder with one definition of its name is linked to it.
LinksMade(node, rows) ==
  \A b, d \in DOMAIN node :
     /\ ~Qualified(b) /\ b.name # Module
     /\ {s \in DOMAIN node : Qualified(s) /\ s.name = b.name} = {d}
     => rows[node[b]][LinkTo(node[d])] > 0

SnapshotCalls(s) ==
  /\ NamesOfTexts(DOMAIN s.names)
  /\ CallFree(s.names, s.base.rows)
  /\ LinksMade(s.names, s.base.rows)
  /\ \A f \in DOMAIN s.sources \ s.doubt :
       disk[f] # Absent /\ mtime[f] = s.sources[f] /\ Steady(f, disk[f]) =>
         CallsRight(s.names, s.base.rows, f, disk[f])

\* The files that were folded or left out, and are not in doubt, call whom they
\* should, and after the linking every link is made.
CallsInv ==
  /\ \A s \in Snapshots : SnapshotCalls(s)
  /\ NamesOfTexts(Known(reg))
  /\ CallFree(reg.node, View(store))
  /\ pc # "idle" =>
       \A f \in Tree \ (paths \ folded) : f \notin doubt /\ Steady(f, disk[f]) =>
          CallsRight(reg.node, View(store), f, disk[f])
  /\ pc \in {"store", "write", "served"} => LinksMade(reg.node, View(store))

LEMMA InitCalls == Init => CallsInv
<1> SUFFICES ASSUME Init PROVE CallsInv
  OBVIOUS
<1>1. Known(reg) = {} /\ Snapshots = {}
  BY EmptyRegistryOK DEF Init, Snapshots
<1>2. DOMAIN reg.node = {} /\ pc = "idle"
  BY <1>1 DEF Known, Init
<1> QED BY <1>1, <1>2 DEF CallsInv, NamesOfTexts, CallFree

LEMMA FoldCalls ==
  ASSUME Scanned, IdInv, TypeInv, ContentsInv, CallsInv, NEW f \in Files, Fold(f)
  PROVE  /\ NamesOfTexts(Known(reg'))
         /\ CallFree(reg'.node, View(store'))
         /\ disk[f] # Absent /\ f \notin doubt' /\ Steady(f, disk[f]) =>
              CallsRight(reg'.node, View(store'), f, disk[f])
         /\ \A g \in Files \ {f}, t \in Text :
              CallsRight(reg.node, View(store), g, t) => CallsRight(reg'.node, View(store'), g, t)
<1>1. PICK st :
        /\ FoldsOver(f, st)
        /\ \/ Becomes(Vanish(reg, st, f)) /\ (f \notin doubt' => disk[f] = Absent)
           \/ /\ parsed[f] \in Texts[f] /\ Becomes(ApplyFacts(reg, st, f, parsed[f]))
              /\ f \notin doubt' => disk[f] = parsed[f]
           \/ /\ Becomes([reg |-> reg, store |-> st])
              /\ f \notin doubt' => disk[f] = Absent /\ SymbolsOf(reg, f) = {}
  BY WhatAFoldDoes
<1>2. /\ AnalysisOK(reg, st) /\ Nodes = Nat /\ Known(reg) \subseteq Symbol
      /\ st.delta.fileNodes[f] = NodesOf(reg, SymbolsOf(reg, f))
  BY <1>1 DEF FoldsOver, Scanned, TypeInv
<1>3. View(st) = View(store)
  BY <1>1 DEF FoldsOver, View, Neighbors
<1>4. NamesOfTexts(Known(reg'))
  <2>1. /\ \A s \in NamedIn(Known(reg'), f) :
             s \in Known(reg) \/ (parsed[f] \in Texts[f] /\ s \in Defined(f, parsed[f]))
        /\ \A g \in Files \ {f} : SymbolsOf(reg', g) = SymbolsOf(reg, g)
    BY FoldContents
  <2>2. Known(reg') \subseteq Symbol
    BY FoldTypes
  <2> SUFFICES ASSUME NEW s \in Known(reg'), Qualified(s), s.name # Module
               PROVE  \E u \in Texts[s.file] : s.name \in u.defines
    BY DEF NamesOfTexts
  <2>3. s.file \in Files
    BY <2>2 DEF Symbol, Qualified
  <2>4. CASE s \in Known(reg)
    BY <2>4 DEF CallsInv, NamesOfTexts
  <2>5. CASE s \notin Known(reg)
    <3>1. s.file = f
      BY <2>1, <2>3, <2>5 DEF SymbolsOf
    <3>2. parsed[f] \in Texts[f] /\ s \in Defined(f, parsed[f])
      BY <2>1, <2>5, <3>1 DEF NamedIn
    <3>3. s.name \in parsed[f].defines
      BY <3>2 DEF Defined, Def
    <3> QED BY <3>1, <3>2, <3>3
  <2> QED BY <2>4, <2>5
<1>5. CASE Becomes(Vanish(reg, st, f)) /\ (f \notin doubt' => disk[f] = Absent)
  <2> DEFINE v == Vanish(reg, st, f)
  <2>1. /\ CallFree(reg.node, View(st)) => CallFree(v.reg.node, View(v.store))
        /\ \A g \in Files \ {f}, t \in Text :
             CallsRight(reg.node, View(st), g, t) => CallsRight(v.reg.node, View(v.store), g, t)
    BY <1>2, VanishedCalls
  <2>2. reg' = v.reg /\ store' = v.store
    BY <1>5 DEF Becomes
  <2> HIDE DEF v
  <2> QED BY <1>3, <1>4, <1>5, <2>1, <2>2 DEF CallsInv
<1>6. CASE /\ parsed[f] \in Texts[f] /\ Becomes(ApplyFacts(reg, st, f, parsed[f]))
           /\ f \notin doubt' => disk[f] = parsed[f]
  <2> DEFINE text == parsed[f]
             a == ApplyFacts(reg, st, f, text)
  <2>1. reg' = a.reg /\ store' = a.store
    BY <1>6 DEF Becomes
  <2>2. text \in Texts[f] /\ text \in Text /\ Scoped(text)
    BY <1>6, AnalyseAssumption DEF Scanned
  <2>3. f \notin doubt' => disk[f] = text
    BY <1>6
  <2> HIDE DEF text
  <2>4. ASSUME Steady(f, text), NEW c \in text.calls, Def(f, c[2]) \in Known(reg)
        PROVE  c[2] \in text.defines
    <3>1. c[2] \in Names
      BY <2>2 DEF Text
    <3>2. Qualified(Def(f, c[2])) /\ Def(f, c[2]).name # Module
      BY <3>1, RegistryAssumption DEF Def, Qualified
    <3>3. PICK u \in Texts[Def(f, c[2]).file] : Def(f, c[2]).name \in u.defines
      BY <2>4, <3>2 DEF CallsInv, NamesOfTexts
    <3>4. u \in Texts[f] /\ c[2] \in u.defines
      BY <3>3 DEF Def
    <3> QED BY <2>4, <3>4 DEF Steady
  <2>5. Steady(f, text) => CallsRight(a.reg.node, View(a.store), f, text)
    BY <1>2, <2>2, <2>4, AppliedCalls
  <2>6. /\ CallFree(reg.node, View(st)) => CallFree(a.reg.node, View(a.store))
        /\ \A g \in Files \ {f}, t \in Text :
             CallsRight(reg.node, View(st), g, t) => CallsRight(a.reg.node, View(a.store), g, t)
    BY <1>2, <2>2, AppliedElsewhere
  <2> HIDE DEF a
  <2> QED BY <1>3, <1>4, <2>1, <2>3, <2>5, <2>6 DEF CallsInv
<1>7. CASE /\ Becomes([reg |-> reg, store |-> st])
           /\ f \notin doubt' => disk[f] = Absent /\ SymbolsOf(reg, f) = {}
  <2>1. reg' = reg /\ View(store') = View(store)
    BY <1>3, <1>7 DEF Becomes
  <2> QED BY <1>4, <1>7, <2>1 DEF CallsInv
<1> QED BY <1>1, <1>5, <1>6, <1>7

\* Linking makes every link, and a placeholder somebody calls is no orphan.
LEMMA LinkCalls ==
  ASSUME Scanned, IdInv, TypeInv, CallsInv, Link
  PROVE  /\ NamesOfTexts(Known(reg'))
         /\ CallFree(reg'.node, View(store'))
         /\ LinksMade(reg'.node, View(store'))
         /\ \A g \in Files, t \in Text :
              CallsRight(reg.node, View(store), g, t) => CallsRight(reg'.node, View(store'), g, t)
<1> DEFINE pairs == {<<reg.node[l[1]], reg.node[l[2]]>> : l \in Links(reg)}
           rows  == PairRows(pairs, "link")
<1>1. /\ RegistryOK(reg) /\ GraphOK(store, reg.next)
      /\ \A s \in Known(reg) : reg.node[s] \in Nodes /\ reg.node[s] \in Below(reg.next)
  BY DEF IdInv, AnalysisOK, RegistryOK, Scanned, Below
<1>2. store' = LinkPlaceholders(reg, store)
  BY DEF Link
<1>3. \A l \in Links(reg) : l[1] \in Known(reg) /\ l[2] \in Known(reg)
  BY DEF Links
<1>4. pairs \subseteq Below(reg.next) \X Below(reg.next)
  <2> SUFFICES ASSUME NEW l \in Links(reg)
               PROVE  <<reg.node[l[1]], reg.node[l[2]]>> \in Below(reg.next) \X Below(reg.next)
    OBVIOUS
  <2> QED BY <1>1, <1>3
<1>5. /\ \A l \in Links(reg) : <<reg.node[l[1]], reg.node[l[2]]>> \in pairs
      /\ \A l \in Links(reg) : Links(reg) # {}
  OBVIOUS
<1>6. store' = store \/ store' = [base  |-> store.base,
                                 delta |-> ReplaceEdgesOfKind(store.delta, "link", rows)]
  BY <1>1, <1>2 DEF LinkPlaceholders, GraphOK
<1>7. ASSUME NEW l \in Links(reg)
      PROVE  store' = [base  |-> store.base,
                       delta |-> ReplaceEdgesOfKind(store.delta, "link", rows)]
  BY <1>1, <1>2, <1>7 DEF LinkPlaceholders, GraphOK
<1> HIDE DEF pairs
<1>8. /\ rows \in Rows
      /\ \A n \in Nodes, e \in Edge : rows[n][e] > 0 => e.kind = "link"
  BY <1>4, PairRowsOK
<1>9. \A n \in Nodes, m \in Nodes : <<n, m>> \in pairs => rows[n][LinkTo(m)] > 0
  <2> SUFFICES ASSUME NEW n \in Nodes, NEW m \in Nodes, <<n, m>> \in pairs
               PROVE  rows[n][LinkTo(m)] > 0
    OBVIOUS
  <2>1. LinkTo(m) \in Edge /\ LinkTo(m).kind = "link" /\ LinkTo(m).target = m
    BY CallEdges
  <2>2. rows[n][LinkTo(m)] = IF LinkTo(m).kind = "link" /\ <<n, LinkTo(m).target>> \in pairs
                             THEN 1 ELSE 0
    BY <2>1 DEF PairRows
  <2> HIDE DEF rows
  <2> QED BY <2>1, <2>2
<1> HIDE DEF rows
<1>10. \A n \in Nodes : View(store)[n] = Neighbors(store, n) /\ View(store')[n] = Neighbors(store', n)
  BY DEF View
<1>11. ASSUME NEW n \in Nodes, NEW m \in Nodes
       PROVE  View(store')[n][CallTo(m)] = View(store)[n][CallTo(m)]
  <2>1. CallTo(m) \in Edge /\ CallTo(m).kind # "link"
    BY CallEdges
  <2>2. Neighbors(store', n)[CallTo(m)] = Neighbors(store, n)[CallTo(m)]
    <3>1. CASE store' = store
      BY <3>1
    <3>2. CASE store' = [base  |-> store.base,
                         delta |-> ReplaceEdgesOfKind(store.delta, "link", rows)]
      BY <1>1, <1>8, <2>1, <3>2, ViewRelinked
    <3> QED BY <1>6, <3>1, <3>2
  <2> QED BY <1>10, <2>2
<1>12. /\ Known(reg') \subseteq Known(reg)
       /\ \A s \in Known(reg') : reg'.node[s] = reg.node[s]
       /\ \A s \in Known(reg) : Qualified(s) \/ reg.node[s] \in Referenced(store')
                                => s \in Known(reg')
  <2>1. CASE mode = "refresh"
    <3> DEFINE S == {s \in Known(reg) : Qualified(s) \/ reg.node[s] \in Referenced(store')}
    <3>1. reg' = [reg EXCEPT !.node = Restrict(@, S)]
      BY <2>1 DEF Link, ForgetOrphans
    <3>2. S \in SUBSET Known(reg)
      OBVIOUS
    <3>3. Known(reg') = S /\ \A s \in S : reg'.node[s] = reg.node[s]
      <4> HIDE DEF S
      <4> QED BY <1>1, <3>1, <3>2, Forgotten
    <3> QED BY <3>3
  <2>2. CASE mode # "refresh"
    BY <2>2 DEF Link
  <2> QED BY <2>1, <2>2
<1>13. ASSUME NEW k \in Nodes, NEW m \in Nodes, View(store)[k][CallTo(m)] > 0
       PROVE  m \in Referenced(store')
  <2>1. CallTo(m) \in Edge /\ CallTo(m).target = m /\ View(store')[k][CallTo(m)] > 0
    BY <1>11, <1>13, CallEdges
  <2> QED BY <2>1 DEF Referenced
<1>14. NamesOfTexts(Known(reg'))
  BY <1>12 DEF CallsInv, NamesOfTexts
<1>15. CallFree(reg'.node, View(store'))
  <2>1. CallFree(reg.node, View(store))
    BY DEF CallsInv
  <2> QED BY <1>1, <1>11, <1>12, <2>1 DEF CallFree, Known
<1>16. LinksMade(reg'.node, View(store'))
  <2> SUFFICES ASSUME NEW b \in Known(reg'), NEW d \in Known(reg'), ~Qualified(b),
                      {s \in Known(reg') : Qualified(s) /\ s.name = b.name} = {d}
               PROVE  View(store')[reg'.node[b]][LinkTo(reg'.node[d])] > 0
    BY DEF LinksMade, Known
  <2>1. {s \in Known(reg') : Qualified(s) /\ s.name = b.name} = Defining(reg, b.name)
    BY <1>12 DEF Defining
  <2>2. Qualified(d)
    OBVIOUS
  <2> DEFINE l == <<b, d>>
  <2>3. l \in Links(reg) /\ l[1] = b /\ l[2] = d
    BY <1>12, <2>1, <2>2 DEF Links
  <2> HIDE DEF l
  <2>4. <<reg.node[b], reg.node[d]>> \in pairs /\ reg.node[b] \in Nodes /\ reg.node[d] \in Nodes
    BY <1>1, <1>5, <1>12, <2>3
  <2>5. rows[reg.node[b]][LinkTo(reg.node[d])] > 0 /\ LinkTo(reg.node[d]) \in Edge
    BY <1>9, <2>4, CallEdges
  <2>6. Neighbors(store', reg.node[b])[LinkTo(reg.node[d])] > 0
    <3>1. store' = [base |-> store.base, delta |-> ReplaceEdgesOfKind(store.delta, "link", rows)]
      BY <1>7, <2>3
    <3> QED BY <1>1, <1>8, <2>4, <2>5, <3>1, ViewRelinked
  <2> QED BY <1>10, <1>12, <2>4, <2>6
<1>17. ASSUME NEW g \in Files, NEW t \in Text, CallsRight(reg.node, View(store), g, t)
       PROVE  CallsRight(reg'.node, View(store'), g, t)
  <2> DEFINE old == reg.node
             new == reg'.node
  <2>1. DOMAIN old = Known(reg) /\ DOMAIN new = Known(reg')
    BY DEF Known
  <2>2. ASSUME NEW s \in DOMAIN old,
               \/ s.file = g /\ s.name # Module
               \/ ~Qualified(s) /\ \E k \in Nodes : View(store)[k][CallTo(old[s])] > 0
        PROVE  s \in DOMAIN new /\ new[s] = old[s]
    <3>1. Qualified(s) \/ reg.node[s] \in Referenced(store')
      BY <1>1, <1>13, <2>1, <2>2, RegistryAssumption DEF Qualified
    <3> QED BY <1>12, <2>1, <3>1
  <2>3. \A s \in DOMAIN old : old[s] \in Nodes
    BY <1>1, <2>1
  <2>4. \A s \in DOMAIN new : s \in DOMAIN old /\ new[s] = old[s]
    BY <1>12, <2>1
  <2>5. CallsRight(old, View(store), g, t)
    BY <1>17
  <2> HIDE DEF old, new
  <2>6. CallsRight(new, View(store'), g, t)
    BY <1>11, <2>2, <2>3, <2>4, <2>5, CallsKept
  <2> QED BY <2>6 DEF new
<1> QED BY <1>14, <1>15, <1>16, <1>17

\* What is stored of the calls and links is what the analysis knows.
LEMMA SnapshotCallsRight ==
  ASSUME Scanned, IdInv, TypeInv, ContentsInv, CallsInv, pc = "store"
  PROVE  SnapshotCalls(Snapshot)
<1> DEFINE names == Snapshot.names
           rows  == Snapshot.base.rows
           kept  == {s \in Known(reg) : reg.node[s] \in Covered(store)}
<1>1. /\ Snapshot.base = Compact(store).base
      /\ Snapshot.base.ids = Covered(store)
      /\ Snapshot.sources = [f \in walked \cap Tree |-> mtime[f]]
      /\ Snapshot.doubt = doubt \cup (Tree \ walked)
  BY DEF Snapshot, Compact
<1>2. names = Restrict(reg.node, kept)
  BY DEF Snapshot, Compact
<1>3. /\ DOMAIN names = kept /\ \A s \in kept : names[s] = reg.node[s]
  BY <1>2 DEF Restrict
<1>4. /\ GraphOK(store, reg.next)
      /\ \A s \in Known(reg) : reg.node[s] \in Nodes
  BY DEF IdInv, AnalysisOK, RegistryOK, Scanned
<1>5. \A n \in Nodes, e \in Edge :
        /\ rows[n][e] = View(store)[n][e]
        /\ View(store)[n][e] > 0 => n \in Covered(store) /\ e.target \in Covered(store)
  <2> SUFFICES ASSUME NEW n \in Nodes, NEW e \in Edge
               PROVE  /\ rows[n][e] = View(store)[n][e]
                      /\ View(store)[n][e] > 0 => n \in Covered(store) /\ e.target \in Covered(store)
    OBVIOUS
  <2>1. View(store)[n] = Neighbors(store, n)
    BY DEF View
  <2>2. /\ Compact(store).base.rows[n][e] = Neighbors(store, n)[e]
        /\ Neighbors(store, n)[e] > 0 => n \in Covered(store) /\ e.target \in Covered(store)
    BY <1>4, ViewCompacted
  <2> QED BY <1>1, <2>1, <2>2
<1> HIDE DEF names, rows
<1>6. \A s \in Known(reg) : Qualified(s) /\ s.name # Module => s \in kept
  BY NamesCovered
<1>7. kept \subseteq Known(reg) /\ Known(reg) = DOMAIN reg.node
  BY DEF Known
<1>8. \A k \in Nodes, m \in Nodes :
        /\ rows[k][CallTo(m)] = View(store)[k][CallTo(m)]
        /\ View(store)[k][CallTo(m)] > 0 => m \in Covered(store)
  <2> SUFFICES ASSUME NEW k \in Nodes, NEW m \in Nodes
               PROVE  /\ rows[k][CallTo(m)] = View(store)[k][CallTo(m)]
                      /\ View(store)[k][CallTo(m)] > 0 => m \in Covered(store)
    OBVIOUS
  <2>1. CallTo(m) \in Edge /\ CallTo(m).target = m
    BY CallEdges
  <2> QED BY <1>5, <2>1
<1>9. \A s \in Known(reg) :
         ~Qualified(s) /\ (\E k \in Nodes : View(store)[k][CallTo(reg.node[s])] > 0) => s \in kept
  BY <1>4, <1>8
<1> HIDE DEF kept
<1>10. NamesOfTexts(DOMAIN names)
  BY <1>3, <1>7 DEF CallsInv, NamesOfTexts
<1>11. CallFree(names, rows)
  <2>1. CallFree(reg.node, View(store))
    BY DEF CallsInv
  <2> QED BY <1>3, <1>4, <1>7, <1>8, <2>1 DEF CallFree
<1>12. LinksMade(names, rows)
  <2> SUFFICES ASSUME NEW b \in kept, NEW d \in kept, ~Qualified(b), b.name # Module,
                      {s \in kept : Qualified(s) /\ s.name = b.name} = {d}
               PROVE  rows[names[b]][LinkTo(names[d])] > 0
    BY <1>3 DEF LinksMade
  <2>1. {s \in Known(reg) : Qualified(s) /\ s.name = b.name} = {d}
    BY <1>6, <1>7
  <2>2. LinksMade(reg.node, View(store))
    BY DEF CallsInv
  <2>3. View(store)[reg.node[b]][LinkTo(reg.node[d])] > 0
    BY <1>7, <2>1, <2>2 DEF LinksMade
  <2>4. reg.node[b] \in Nodes /\ LinkTo(reg.node[d]) \in Edge
    BY <1>4, <1>7, CallEdges
  <2> QED BY <1>3, <1>5, <2>3, <2>4
<1>13. ASSUME NEW f \in DOMAIN Snapshot.sources \ Snapshot.doubt, disk[f] # Absent,
              Steady(f, disk[f])
       PROVE  CallsRight(names, rows, f, disk[f])
  <2>1. f \in Tree /\ f \in Files /\ paths \subseteq folded /\ f \notin doubt
    BY <1>1 DEF Tree, ContentsInv
  <2> DEFINE t == disk[f]
             old == reg.node
  <2>2. t \in Text /\ CallsRight(old, View(store), f, t)
    BY <1>13, <2>1 DEF CallsInv, IdInv
  <2> HIDE DEF t
  <2>3. \A s \in DOMAIN old : old[s] \in Nodes
    BY <1>4, <1>7
  <2>4. \A s \in DOMAIN old :
            \/ s.file = f /\ s.name # Module
            \/ ~Qualified(s) /\ \E k \in Nodes : View(store)[k][CallTo(old[s])] > 0
            => s \in DOMAIN names /\ names[s] = old[s]
    BY <1>3, <1>6, <1>7, <1>9, <2>1, RegistryAssumption DEF Qualified
  <2>5. \A s \in DOMAIN names : s \in DOMAIN old /\ names[s] = old[s]
    BY <1>3, <1>7
  <2> HIDE DEF old
  <2>6. CallsRight(names, rows, f, t)
    BY <1>8, <2>1, <2>2, <2>3, <2>4, <2>5, CallsKept
  <2> QED BY <2>6 DEF t
<1> QED BY <1>10, <1>11, <1>12, <1>13 DEF SnapshotCalls, names, rows

\* A refresh begins with the calls of the files it leaves out.
LEMMA BeginCalls ==
  ASSUME IdInv, TypeInv, ContentsInv, CallsInv, Begin
  PROVE  CallsInv'
<1> USE DEF world, progress, result
<1>1. /\ folded' = {} /\ UNCHANGED <<disk, mtime, cache, pending>>
  BY DEF Begin
<1>2. Tree' = Tree /\ Snapshots' = Snapshots
  BY <1>1 DEF Tree, Snapshots
<1>3. \A s \in Snapshots' : SnapshotCalls(s)'
  <2>1. \A s : SnapshotCalls(s) => SnapshotCalls(s)'
    BY <1>1 DEF SnapshotCalls
  <2> QED BY <1>2, <2>1 DEF CallsInv
<1>4. CASE Loadable
  <2>1. Start("refresh", Stale \cup Added, Restored(cache), cache.base) /\ doubt' = cache.doubt
    BY <1>4 DEF Begin
  <2>2. cache \in Snapshots
    BY <1>4 DEF Loadable, Snapshots
  <2>3. /\ paths' = Stale \cup Added
        /\ reg'.node = cache.names
        /\ store' = StoreOver(cache.base)
    BY <2>1 DEF Start, Restored
  <2> DEFINE rows == cache.base.rows
             node == cache.names
  <2>4. SnapshotCalls(cache) /\ SnapshotOK(cache)
    BY <2>2 DEF CallsInv, IdInv
  <2>5. \A n \in Nodes, e \in Edge : View(store')[n][e] = rows[n][e]
    <3> SUFFICES ASSUME NEW n \in Nodes, NEW e \in Edge PROVE View(store')[n][e] = rows[n][e]
      OBVIOUS
    <3>1. View(store')[n] = Neighbors(store', n)
      BY DEF View
    <3>2. Neighbors(StoreOver(cache.base), n)[e] = cache.base.rows[n][e]
      BY <2>4, ViewRestored DEF SnapshotOK
    <3> QED BY <2>3, <3>1, <3>2
  <2>6. \A s \in DOMAIN node : node[s] \in Nodes
    BY <2>4 DEF SnapshotOK, BaseOK, Base
  <2>7. \A n \in Nodes, m \in Nodes :
          /\ View(store')[n][CallTo(m)] = rows[n][CallTo(m)]
          /\ View(store')[n][LinkTo(m)] = rows[n][LinkTo(m)]
    BY <2>5, CallEdges
  <2>8. NamesOfTexts(Known(reg'))
    BY <2>3, <2>4 DEF SnapshotCalls, Known
  <2>9. CallFree(reg'.node, View(store'))
    BY <2>3, <2>4, <2>6, <2>7 DEF SnapshotCalls, CallFree
  <2>10. LinksMade(reg'.node, View(store'))
    BY <2>3, <2>4, <2>6, <2>7 DEF SnapshotCalls, LinksMade
  <2>11. ASSUME NEW f \in Tree, f \notin paths', f \notin doubt', Steady(f, disk[f])
         PROVE  CallsRight(reg'.node, View(store'), f, disk[f])
    <3> DEFINE t == disk[f]
    <3>1. f \in Files /\ t \in Text
      BY DEF Tree, IdInv
    <3>2. disk[f] # Absent /\ f \in DOMAIN cache.sources /\ mtime[f] = cache.sources[f]
      BY <2>3, <2>11 DEF Tree, Added, Stale
    <3>3. CallsRight(node, rows, f, t)
      BY <2>1, <2>4, <2>11, <3>2 DEF SnapshotCalls
    <3> HIDE DEF t, node, rows
    <3>4. CallsRight(node, View(store'), f, t)
      BY <2>6, <2>7, <3>1, <3>3, CallsKept
    <3> QED BY <2>3, <3>4 DEF t, node
  <2> QED BY <1>1, <1>2, <1>3, <2>8, <2>9, <2>10, <2>11 DEF CallsInv, Steady
<1>5. CASE ~Loadable
  <2>1. Start("build", Tree, NewRegistry(0), EmptyGraph)
    BY <1>5 DEF Begin
  <2>2. paths' = Tree /\ pc' = "parse" /\ reg' = NewRegistry(0)
    BY <2>1 DEF Start
  <2>3. Known(reg') = {} /\ DOMAIN reg'.node = {}
    BY <2>2, EmptyRegistryOK DEF Known
  <2> QED BY <1>1, <1>2, <1>3, <2>2, <2>3 DEF CallsInv, NamesOfTexts, CallFree
<1> QED BY <1>4, <1>5

\* A change of the tree leaves what is stored right, by the times again.
LEMMA ChangeCalls ==
  ASSUME TypeInv, IdInv, ContentsInv, CallsInv, NEW f \in Files, Change(f)
  PROVE  CallsInv'
<1> USE DEF world, progress, result
<1>1. /\ doubt' = doubt \cup {f}
      /\ mtime' = [mtime EXCEPT ![f] = mtime[f] + 1]
      /\ \A g \in Files \ {f} : disk'[g] = disk[g]
      /\ UNCHANGED <<cache, pc, paths, folded, reg, store, pending>>
  <2>1. \A g \in Files \ {f} : disk'[g] = disk[g]
    <3>1. PICK t \in (Texts[f] \cup {Absent}) \ {disk[f]} : disk' = [disk EXCEPT ![f] = t]
      BY DEF Change
    <3> QED BY <3>1
  <2> QED BY <2>1 DEF Change
<1>2. Snapshots' = Snapshots
  BY <1>1 DEF Snapshots
<1>3. ASSUME NEW s \in Snapshots PROVE SnapshotCalls(s)'
  <2>1. SnapshotCalls(s) /\ SnapshotMeant(s) /\ mtime \in [Files -> Nat] /\ DOMAIN s.sources \subseteq Files
    BY DEF CallsInv, ContentsInv, TypeInv
  <2>2. ASSUME NEW g \in DOMAIN s.sources \ s.doubt, disk'[g] # Absent, mtime'[g] = s.sources[g],
               Steady(g, disk'[g])
        PROVE  CallsRight(s.names, s.base.rows, g, disk'[g])
    <3>1. g \in Files /\ s.sources[g] \in Nat /\ s.sources[g] <= mtime[g] /\ mtime[g] \in Nat
      BY <2>1 DEF SnapshotMeant
    <3>2. g # f
      <4> SUFFICES ASSUME g = f PROVE FALSE
        OBVIOUS
      <4>1. mtime'[g] = mtime[g] + 1
        BY <1>1, <2>1
      <4> QED BY <2>2, <3>1, <4>1
    <3>3. mtime'[g] = mtime[g] /\ disk'[g] = disk[g]
      BY <1>1, <2>1, <3>1, <3>2
    <3> QED BY <2>1, <2>2, <3>3 DEF SnapshotCalls
  <2>3. \A g \in DOMAIN s.sources \ s.doubt :
          disk'[g] # Absent /\ mtime'[g] = s.sources[g] /\ Steady(g, disk'[g]) =>
            CallsRight(s.names, s.base.rows, g, disk'[g])
    BY <2>2
  <2> QED BY <2>1, <2>3 DEF SnapshotCalls, Steady
<1>4. ASSUME pc # "idle", NEW g \in Tree' \ (paths \ folded), g \notin doubt', Steady(g, disk'[g])
      PROVE  CallsRight(reg.node, View(store), g, disk'[g])
  <2>1. g \in Files /\ g # f /\ g \notin doubt
    BY <1>1, <1>4 DEF Tree
  <2>2. disk'[g] = disk[g] /\ g \in Tree
    BY <1>1, <1>4, <2>1 DEF Tree
  <2> QED BY <1>4, <2>1, <2>2 DEF CallsInv
<1>5. /\ NamesOfTexts(Known(reg)) /\ CallFree(reg.node, View(store))
      /\ pc \in {"store", "write", "served"} => LinksMade(reg.node, View(store))
  BY DEF CallsInv
<1>6. pc # "idle" => \A g \in Tree' \ (paths \ folded) : g \notin doubt' /\ Steady(g, disk'[g]) =>
          CallsRight(reg.node, View(store), g, disk'[g])
  BY <1>4
<1> QED BY <1>1, <1>2, <1>3, <1>5, <1>6 DEF CallsInv, Steady

LEMMA StepCalls ==
  Scanned /\ IdInv /\ TypeInv /\ ContentsInv /\ CallsInv /\ [Next]_vars => CallsInv'
<1> SUFFICES ASSUME Scanned, IdInv, TypeInv, ContentsInv, CallsInv, [Next]_vars
             PROVE  CallsInv'
  OBVIOUS
<1> USE DEF world, progress, result
<1>1. ASSUME NEW f \in Files, Change(f) PROVE CallsInv'
  BY <1>1, ChangeCalls
<1>2. ASSUME NEW f \in Files, Lock(f) PROVE CallsInv'
  BY <1>2 DEF Lock, CallsInv, Snapshots, SnapshotCalls, Steady, Tree
<1>3. ASSUME NEW f \in Files, Parse(f) PROVE CallsInv'
  <2>1. UNCHANGED <<disk, mtime, cache, pc, paths, folded, reg, store, pending, doubt>>
    BY <1>3 DEF Parse
  <2>2. \A s : SnapshotCalls(s) => SnapshotCalls(s)'
    BY <2>1 DEF SnapshotCalls, Steady
  <2> QED BY <2>1, <2>2 DEF CallsInv, Tree, Snapshots, Steady
<1>4. ASSUME NEW f \in Files, Fold(f) PROVE CallsInv'
  <2>1. /\ pc = "parse" /\ folded' = folded \cup {f}
        /\ UNCHANGED <<disk, mtime, cache, pc, paths, pending>>
    BY <1>4 DEF Fold
  <2>2. /\ NamesOfTexts(Known(reg'))
        /\ CallFree(reg'.node, View(store'))
        /\ disk[f] # Absent /\ f \notin doubt' /\ Steady(f, disk[f]) =>
             CallsRight(reg'.node, View(store'), f, disk[f])
        /\ \A g \in Files \ {f}, t \in Text :
              CallsRight(reg.node, View(store), g, t) => CallsRight(reg'.node, View(store'), g, t)
    BY <1>4, FoldCalls
  <2>3. Tree' = Tree /\ Snapshots' = Snapshots
    BY <2>1 DEF Tree, Snapshots
  <2>4. \A s : SnapshotCalls(s) => SnapshotCalls(s)'
    BY <2>1 DEF SnapshotCalls, Steady
  <2>5. ASSUME NEW g \in Tree \ (paths \ folded'), g \notin doubt', Steady(g, disk[g])
        PROVE  CallsRight(reg'.node, View(store'), g, disk[g])
    <3>1. g \in Files /\ disk[g] # Absent /\ disk[g] \in Text
      BY DEF Tree, IdInv
    <3>2. CASE g = f
      BY <2>2, <2>5, <3>1, <3>2
    <3>3. CASE g # f
      <4>1. g \in Tree \ (paths \ folded) /\ g \notin doubt
        BY <1>4, <2>1, <2>5, <3>1, <3>3, WhatAFoldDoes
      <4>2. CallsRight(reg.node, View(store), g, disk[g])
        BY <2>1, <2>5, <4>1 DEF CallsInv
      <4> QED BY <2>2, <3>1, <3>3, <4>2
    <3> QED BY <3>2, <3>3
  <2>6. \A g \in Tree \ (paths \ folded') : g \notin doubt' /\ Steady(g, disk[g]) =>
          CallsRight(reg'.node, View(store'), g, disk[g])
    BY <2>5
  <2>7. \A s \in Snapshots : SnapshotCalls(s)
    BY DEF CallsInv
  <2> QED BY <2>1, <2>2, <2>3, <2>4, <2>6, <2>7 DEF CallsInv, Steady
<1>5. CASE Begin
  BY <1>5, BeginCalls
<1>6. CASE Link
  <2>1. /\ pc = "parse" /\ UNCHANGED <<disk, mtime, cache, paths, folded, pending, doubt>>
    BY <1>6 DEF Link
  <2>2. /\ NamesOfTexts(Known(reg'))
        /\ CallFree(reg'.node, View(store'))
        /\ LinksMade(reg'.node, View(store'))
        /\ \A g \in Files, t \in Text :
              CallsRight(reg.node, View(store), g, t) => CallsRight(reg'.node, View(store'), g, t)
    BY <1>6, LinkCalls
  <2>3. Tree' = Tree /\ Snapshots' = Snapshots
    BY <2>1 DEF Tree, Snapshots
  <2>4. \A s : SnapshotCalls(s) => SnapshotCalls(s)'
    BY <2>1 DEF SnapshotCalls, Steady
  <2>5. \A g \in Tree : g \in Files /\ disk[g] \in Text
    BY DEF Tree, IdInv
  <2>6. \A g \in Tree \ (paths \ folded) : g \notin doubt /\ Steady(g, disk[g]) =>
          CallsRight(reg'.node, View(store'), g, disk[g])
    BY <2>1, <2>2, <2>5 DEF CallsInv
  <2>7. \A s \in Snapshots : SnapshotCalls(s)
    BY DEF CallsInv
  <2> QED BY <2>1, <2>2, <2>3, <2>4, <2>6, <2>7 DEF CallsInv, Steady
<1>7. CASE StartWrite
  <2>1. /\ pc = "store" /\ pending' = Snapshot /\ cache' = Torn /\ pc' = "write"
        /\ UNCHANGED <<disk, mtime, paths, folded, reg, store, doubt>>
    BY <1>7 DEF StartWrite
  <2>2. SnapshotCalls(Snapshot)
    BY <2>1, SnapshotCallsRight
  <2> DEFINE made == Snapshot
  <2>3. Snapshots' \subseteq {made}
    BY <2>1 DEF Snapshots
  <2>4. \A s : SnapshotCalls(s) => SnapshotCalls(s)'
    BY <2>1 DEF SnapshotCalls, Steady
  <2> HIDE DEF made
  <2>5. \A s \in Snapshots' : SnapshotCalls(s)'
    <3>1. SnapshotCalls(made)
      BY <2>2 DEF made
    <3> QED BY <2>3, <2>4, <3>1
  <2> QED BY <2>1, <2>5 DEF CallsInv, Tree, Steady
<1>8. CASE FinishWrite
  <2>1. Snapshots' \subseteq Snapshots
    BY <1>8 DEF FinishWrite, Snapshots
  <2>2. \A s : SnapshotCalls(s) => SnapshotCalls(s)'
    BY <1>8 DEF FinishWrite, SnapshotCalls, Steady
  <2> QED BY <1>8, <2>1, <2>2 DEF FinishWrite, CallsInv, Tree, Steady
<1>9. CASE FailWrite
  <2>1. Snapshots' \subseteq Snapshots
    BY <1>9 DEF FailWrite, Snapshots
  <2>2. \A s : SnapshotCalls(s) => SnapshotCalls(s)'
    BY <1>9 DEF FailWrite, SnapshotCalls, Steady
  <2> QED BY <1>9, <2>1, <2>2 DEF FailWrite, CallsInv, Tree, Steady
<1>10. CASE Crash
  <2>1. Snapshots' \subseteq Snapshots
    BY <1>10 DEF Crash, Snapshots
  <2>2. \A s : SnapshotCalls(s) => SnapshotCalls(s)'
    BY <1>10 DEF Crash, SnapshotCalls, Steady
  <2>3. Known(reg') = {} /\ DOMAIN reg'.node = {} /\ pc' = "idle"
    BY <1>10, EmptyRegistryOK DEF Crash, Known
  <2> QED BY <2>1, <2>2, <2>3 DEF CallsInv, NamesOfTexts, CallFree
<1>11. CASE UNCHANGED vars
  <2>1. \A s : SnapshotCalls(s) => SnapshotCalls(s)'
    BY <1>11 DEF vars, SnapshotCalls, Steady
  <2> QED BY <1>11, <2>1 DEF vars, CallsInv, Snapshots, Tree, Steady
<1> QED
  BY <1>1, <1>2, <1>3, <1>4, <1>5, <1>6, <1>7, <1>8, <1>9, <1>10, <1>11 DEF Next

LEMMA CallsInvariant == Scanned => (Spec => []CallsInv)
<1>1. CASE Scanned
  BY <1>1, InitCalls, StepCalls, IdInvariant, TypeInvariant, ContentsInvariant, PTL DEF Spec
<1> QED BY <1>1

-------------------------------------------------------------------------------
\* The edges by name: an edge between known nodes is one between their names,
\* and a named end is the name of its node.
LEMMA EdgesByName ==
  ASSUME NEW r, NEW st, NEW kind, \A s, o \in Known(r) : r.node[s] = r.node[o] => s = o
  PROVE  /\ \A s \in Known(r), d \in Known(r), e \in Edge :
              /\ e.kind = kind /\ e.target = r.node[d] /\ View(st)[r.node[s]][e] > 0
              => <<s, d>> \in NamedEdges(r, st, kind)
         /\ \A l \in NamedEdges(r, st, kind) : \E e \in Edge :
              /\ e.kind = kind /\ l[1] \in Known(r) /\ View(st)[r.node[l[1]]][e] > 0
              /\ \A d \in Known(r) : r.node[d] = e.target => l = <<l[1], d>>
<1> DEFINE Name(m) == IF \E s \in Known(r) : r.node[s] = m
                      THEN CHOOSE s \in Known(r) : r.node[s] = m ELSE Unnamed
           Leaving(s) == {<<s, Name(e.target)>> :
                            e \in {d \in Edge : d.kind = kind /\ View(st)[r.node[s]][d] > 0}}
<1>1. NamedEdges(r, st, kind) = UNION {Leaving(s) : s \in Known(r)}
  BY DEF NamedEdges
<1>2. \A m : \A d \in Known(r) : r.node[d] = m => Name(m) = d
  OBVIOUS
<1>3. \A s, l : l \in Leaving(s) <=>
         \E e \in Edge : e.kind = kind /\ View(st)[r.node[s]][e] > 0 /\ l = <<s, Name(e.target)>>
  OBVIOUS
<1> HIDE DEF Name, Leaving
<1>4. ASSUME NEW s \in Known(r), NEW d \in Known(r), NEW e \in Edge,
             e.kind = kind, e.target = r.node[d], View(st)[r.node[s]][e] > 0
      PROVE  <<s, d>> \in NamedEdges(r, st, kind)
  <2>1. Name(e.target) = d
    BY <1>2, <1>4
  <2>2. <<s, d>> \in Leaving(s)
    BY <1>3, <1>4, <2>1
  <2> QED BY <1>1, <2>2
<1>5. ASSUME NEW l \in NamedEdges(r, st, kind)
      PROVE  \E e \in Edge :
               /\ e.kind = kind /\ l[1] \in Known(r) /\ View(st)[r.node[l[1]]][e] > 0
               /\ \A d \in Known(r) : r.node[d] = e.target => l = <<l[1], d>>
  <2>1. PICK s \in Known(r) : l \in Leaving(s)
    BY <1>1
  <2>2. PICK e \in Edge :
          e.kind = kind /\ View(st)[r.node[s]][e] > 0 /\ l = <<s, Name(e.target)>>
    BY <1>3, <2>1
  <2>3. l[1] = s
    BY <2>2
  <2>4. \A d \in Known(r) : r.node[d] = e.target => Name(e.target) = d
    BY <1>2
  <2> QED BY <2>1, <2>2, <2>3, <2>4
<1> QED BY <1>4, <1>5

\* A call of the tree, by its text.
LEMMA CallsOfTree ==
  ASSUME NEW l
  PROVE  l \in Calls(TreeNow) <=>
           \E f \in Tree : \E c \in disk[f].calls :
              l = <<Def(f, c[1]), CalleeOf(f, disk[f], c[2])>>
<1>1. DOMAIN TreeNow = Tree /\ \A f \in Tree : TreeNow[f] = disk[f]
  BY DEF TreeNow
<1>2. l \in Calls(TreeNow) <=>
        \E f \in Tree : \E c \in TreeNow[f].calls :
           l = <<Def(f, c[1]), CalleeOf(f, TreeNow[f], c[2])>>
  BY <1>1 DEF Calls, CalleeOf
<1> QED BY <1>1, <1>2

\* What a finished analysis has of the texts of a file.
LEMMA SettledCalls ==
  ASSUME Scanned, IdInv, TypeInv, ContentsInv, CallsInv, pc = "served"
  PROVE  /\ \A f \in Tree : f \in Files /\ disk[f] \in Text
         /\ \A f \in Tree : f \notin doubt /\ Steady(f, disk[f]) =>
              CallsRight(reg.node, View(store), f, disk[f])
         /\ \A f \in Files : f \notin doubt => NamedIn(Known(reg), f) = Meant(f)
         /\ CallFree(reg.node, View(store)) /\ LinksMade(reg.node, View(store))
         /\ Known(reg) \subseteq Symbol
         /\ \A s \in Known(reg) : reg.node[s] \in Nodes
         /\ \A s, o \in Known(reg) : reg.node[s] = reg.node[o] => s = o
<1>1. paths \subseteq folded
  BY DEF ContentsInv
<1>2. \A f \in Tree : f \in Files /\ disk[f] \in Text
  BY DEF Tree, IdInv
<1>3. \A f \in Tree : f \notin doubt /\ Steady(f, disk[f]) =>
        CallsRight(reg.node, View(store), f, disk[f])
  BY <1>1 DEF CallsInv
<1>4. CallFree(reg.node, View(store)) /\ LinksMade(reg.node, View(store))
  BY DEF CallsInv
<1>5. \A f \in Files : f \notin doubt => NamedIn(Known(reg), f) = Meant(f)
  BY <1>1 DEF ContentsInv
<1>6. /\ \A s \in Known(reg) : reg.node[s] \in Nodes
      /\ \A s, o \in Known(reg) : reg.node[s] = reg.node[o] => s = o
  BY DEF IdInv, AnalysisOK, RegistryOK, IsInjective, Known, Scanned
<1> QED BY <1>2, <1>3, <1>4, <1>5, <1>6 DEF TypeInv

LEMMA CallsAreBuilt ==
  Scanned /\ IdInv /\ TypeInv /\ ContentsInv /\ CallsInv => CallsAsBuilt
<1> SUFFICES ASSUME Scanned, IdInv, TypeInv, ContentsInv, CallsInv, pc = "served",
                    NEW f \in Sure \cap Tree, Steady(f, disk[f])
             PROVE  {e \in NamedEdges(reg, store, "call") : e[1].file = f /\ e[1].name # Module} =
                    {e \in Calls(TreeNow) : e[1].file = f /\ e[1].name # Module}
  BY DEF CallsAsBuilt
<1>1. /\ f \in Files /\ disk[f] \in Text /\ f \notin doubt /\ disk[f] # Absent
      /\ CallsRight(reg.node, View(store), f, disk[f])
      /\ NamedIn(Known(reg), f) = Defined(f, disk[f])
  BY SettledCalls, MeantDefined DEF Sure, Tree
<1>2. ASSUME NEW l \in NamedEdges(reg, store, "call"), l[1].file = f, l[1].name # Module
      PROVE  l \in Calls(TreeNow)
  <2>1. PICK e \in Edge :
          /\ e.kind = "call" /\ l[1] \in Known(reg) /\ View(store)[reg.node[l[1]]][e] > 0
          /\ \A d \in Known(reg) : reg.node[d] = e.target => l = <<l[1], d>>
    BY SettledCalls, EdgesByName
  <2>2. e = CallTo(e.target) /\ e.target \in Nodes
    BY <2>1 DEF Edge, CallTo
  <2> DEFINE m == e.target
  <2>3. m \in Nodes /\ View(store)[reg.node[l[1]]][CallTo(m)] > 0
    BY <2>1, <2>2
  <2>4. l[1] \in Defined(f, disk[f])
    BY <1>1, <1>2, <2>1 DEF NamedIn
  <2>5. PICK n \in disk[f].defines : l[1] = Def(f, n)
    BY <2>4 DEF Defined
  <2>6. PICK c \in disk[f].calls : c[1] = n /\ m = reg.node[CalleeOf(f, disk[f], c[2])]
    BY <1>1, <2>3, <2>5 DEF CallsRight
  <2>7. CalleeOf(f, disk[f], c[2]) \in Known(reg)
    BY <1>1 DEF CallsRight, Known
  <2>8. l = <<Def(f, c[1]), CalleeOf(f, disk[f], c[2])>>
    BY <2>1, <2>5, <2>6, <2>7
  <2> QED BY <2>8, CallsOfTree
<1>3. ASSUME NEW l \in Calls(TreeNow), l[1].file = f, l[1].name # Module
      PROVE  l \in NamedEdges(reg, store, "call")
  <2>1. PICK g \in Tree : \E c \in disk[g].calls :
                             l = <<Def(g, c[1]), CalleeOf(g, disk[g], c[2])>>
    BY CallsOfTree
  <2>2. g = f
    BY <1>3, <2>1 DEF Def
  <2>3. PICK c \in disk[f].calls : l = <<Def(f, c[1]), CalleeOf(f, disk[f], c[2])>>
    BY <2>1, <2>2
  <2> DEFINE d == CalleeOf(f, disk[f], c[2])
  <2>4. c[1] # Module
    BY <1>3, <2>3 DEF Def
  <2>5. /\ d \in Known(reg) /\ Def(f, c[1]) \in Known(reg)
        /\ View(store)[reg.node[Def(f, c[1])]][CallTo(reg.node[d])] > 0
    BY <1>1, <2>4 DEF CallsRight, Known
  <2> HIDE DEF d
  <2>6. /\ CallTo(reg.node[d]) \in Edge /\ CallTo(reg.node[d]).kind = "call"
        /\ CallTo(reg.node[d]).target = reg.node[d]
    BY <2>5, SettledCalls, CallEdges
  <2>7. <<Def(f, c[1]), d>> \in NamedEdges(reg, store, "call")
    BY <2>5, <2>6, SettledCalls, EdgesByName
  <2> QED BY <2>3, <2>7 DEF d
<1> QED BY <1>2, <1>3

\* If no file is in doubt, the definitions known are those of the tree.
LEMMA KnownIsTree ==
  ASSUME Scanned, IdInv, TypeInv, ContentsInv, CallsInv, pc = "served", doubt = {}
  PROVE  {s \in Known(reg) : Qualified(s) /\ s.name # Module} = Definitions(TreeNow)
<1>1. \A f \in Files : NamedIn(Known(reg), f) = Meant(f)
  BY SettledCalls
<1>2. \A s : s \in Definitions(TreeNow) <=>
            \E f \in Files : disk[f] # Absent /\ s \in Defined(f, disk[f])
  BY DEF Definitions, TreeNow, Tree, Defined
<1>3. \A s : s \in Definitions(TreeNow) <=> \E f \in Files : s \in NamedIn(Known(reg), f)
  BY <1>1, <1>2, MeantDefined
<1>4. \A s \in Known(reg) : Qualified(s) <=> s.file \in Files
  BY RegistryAssumption, SettledCalls DEF Symbol, Qualified
<1>5. \A s : s \in Definitions(TreeNow) <=>
            s \in Known(reg) /\ s.file \in Files /\ s.name # Module
  BY <1>3 DEF NamedIn
<1> QED BY <1>4, <1>5

LEMMA LinksAreBuilt ==
  Scanned /\ IdInv /\ TypeInv /\ ContentsInv /\ CallsInv => LinksComplete
<1> SUFFICES ASSUME Scanned, IdInv, TypeInv, ContentsInv, CallsInv, pc = "served", doubt = {},
                    \A f \in Tree : Steady(f, disk[f]), NEW l \in TreeLinks(TreeNow)
             PROVE  l \in NamedEdges(reg, store, "link")
  BY DEF LinksComplete
<1>1. PICK b \in Symbols(TreeNow), d \in Definitions(TreeNow) : l = <<b, d>>
  BY DEF TreeLinks
<1>2. /\ ~Qualified(b)
      /\ {e \in Definitions(TreeNow) : e.name = b.name} = {d}
  BY <1>1 DEF TreeLinks
<1>3. \A s \in Definitions(TreeNow) : s \in Known(reg) /\ Qualified(s) /\ s.name # Module
  BY KnownIsTree
<1>4. \A n : \A f \in Files : Qualified(Def(f, n))
  BY RegistryAssumption DEF Qualified, Def
<1>5. \E e \in Calls(TreeNow) : b = e[2]
  <2>1. \A e \in Calls(TreeNow) : Qualified(e[1])
    BY <1>4, CallsOfTree, SettledCalls
  <2> QED BY <1>2, <1>3, <2>1 DEF Symbols
<1>6. PICK e \in Calls(TreeNow) : b = e[2]
  BY <1>5
<1>7. PICK f \in Tree : \E c \in disk[f].calls :
                           e = <<Def(f, c[1]), CalleeOf(f, disk[f], c[2])>>
  BY CallsOfTree
<1>8. PICK c \in disk[f].calls : e = <<Def(f, c[1]), CalleeOf(f, disk[f], c[2])>>
  BY <1>7
<1>9. b = CalleeOf(f, disk[f], c[2]) /\ b = Bare(c[2])
  <2>1. b = CalleeOf(f, disk[f], c[2])
    BY <1>6, <1>8
  <2> QED BY <1>2, <1>4, <2>1, SettledCalls DEF CalleeOf
<1>10. b \in Known(reg)
  <2>1. CallsRight(reg.node, View(store), f, disk[f])
    BY SettledCalls
  <2>2. CalleeOf(f, disk[f], c[2]) \in DOMAIN reg.node
    BY <2>1 DEF CallsRight
  <2> QED BY <1>9, <2>2 DEF Known
<1>11. b.name # Module
  <2>1. c[2] \in Names
    BY SettledCalls DEF Text
  <2> QED BY <1>9, <2>1, RegistryAssumption DEF Bare
<1>12. {s \in Known(reg) : Qualified(s) /\ s.name = b.name} = {d}
  <2>1. \A s : s \in Known(reg) /\ Qualified(s) /\ s.name = b.name <=>
                s \in Definitions(TreeNow) /\ s.name = b.name
    BY <1>3, <1>11, KnownIsTree
  <2> QED BY <1>2, <2>1
<1>13. d \in Known(reg)
  BY <1>3
<1>14. View(store)[reg.node[b]][LinkTo(reg.node[d])] > 0
  BY <1>2, <1>10, <1>11, <1>12, <1>13, SettledCalls DEF LinksMade, Known
<1>15. /\ LinkTo(reg.node[d]) \in Edge /\ LinkTo(reg.node[d]).kind = "link"
       /\ LinkTo(reg.node[d]).target = reg.node[d]
  BY <1>13, SettledCalls, CallEdges
<1>16. <<b, d>> \in NamedEdges(reg, store, "link")
  BY <1>10, <1>13, <1>14, <1>15, SettledCalls, EdgesByName
<1> QED BY <1>1, <1>16

\* After any sequence of builds, refreshes, failed writes and crashes, with files
\* changing and failing at any moment, the calls that leave a definition of a file
\* not in doubt are those of its text, no more and no fewer, though the callees'
\* nodes may have been forgotten, restored and minted anew - if no call of the text
\* goes to a name only another text of the file defines (apply_facts_into,
\* refresh_files, store_snapshot).
THEOREM CallsStayExact ==
  ASSUME Scanned
  PROVE  Spec => []CallsAsBuilt
BY CallsAreBuilt, IdInvariant, TypeInvariant, ContentsInvariant, CallsInvariant, PTL

\* With no file in doubt, a refresh that reads a few files, and drops the
\* placeholders nobody calls, still makes every link a full build of the tree
\* makes (link_placeholders_quiet).
THEOREM LinksStayComplete ==
  ASSUME Scanned
  PROVE  Spec => []LinksComplete
BY LinksAreBuilt, IdInvariant, TypeInvariant, ContentsInvariant, CallsInvariant, PTL
=============================================================================
