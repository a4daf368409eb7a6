------------------------------- MODULE Registry -------------------------------
(***************************************************************************)
(* The symbol registry (ingest.rs) and the linking of placeholders         *)
(* (resolve.rs), over the delta store.                                     *)
(*                                                                         *)
(* A definition is known by its file and its name, `file#name`; a call the *)
(* file cannot attach to a definition of its own goes to a placeholder, a  *)
(* bare name shared by all files.  Calls at the top level of a file leave  *)
(* its `<module>` symbol.  One language, calls without a receiver, an      *)
(* import or a base class: what those add is a more precise placeholder.   *)
(***************************************************************************)
EXTENDS DeltaStore

CONSTANTS Names,    \* the names definitions have
          Module,   \* the name of a file's top level, `<module>`
          NoFile    \* the file of a placeholder

\* Ids are handed out from 0 up, without a gap.
ASSUME RegistryAssumption ==
  /\ \A n \in Nodes : 0 .. n \subseteq Nodes
  /\ IsFiniteSet(Names) /\ IsFiniteSet(Files)
  /\ Module \notin Names
  /\ NoFile \notin Files
  /\ {"call", "link"} \subseteq Kinds

Symbol == [file : Files \cup {NoFile}, name : Names \cup {Module}]

Def(f, n)    == [file |-> f, name |-> n]
Bare(n)      == [file |-> NoFile, name |-> n]
Qualified(s) == s.file # NoFile

\* What a scanner reports of a file: the names it defines, and who in it calls
\* which name; and whether its bytes are valid UTF-8.
Text == [defines : SUBSET Names, calls : SUBSET ((Names \cup {Module}) \X Names),
         utf8 : BOOLEAN]

\* SymbolRegistry: the node of each name, and the next id to hand out.
NewRegistry(count) == [node |-> <<>>, next |-> count]

Known(reg)        == DOMAIN reg.node
SymbolsOf(reg, f) == {s \in Known(reg) : s.file = f}
NodesOf(reg, S)   == {reg.node[s] : s \in S}

-------------------------------------------------------------------------------
\* Each new symbol gets a fresh id of its own.
FreshIds(reg, new) ==
  CHOOSE id \in [new -> reg.next .. reg.next + Cardinality(new) - 1] : IsInjective(id)

\* Faulty variant: the next id is not advanced.
MintWithoutAdvance(reg, symbols) ==
  LET new == symbols \ Known(reg)
  IN  [node |-> [s \in Known(reg) \cup symbols |->
                   IF s \in new THEN FreshIds(reg, new)[s] ELSE reg.node[s]],
       next |-> reg.next]

\* get_or_mint for each of the symbols.
Mint(reg, symbols) ==
  LET new == symbols \ Known(reg)
  IN  [node |-> [s \in Known(reg) \cup symbols |->
                   IF s \in new THEN FreshIds(reg, new)[s] ELSE reg.node[s]],
       next |-> reg.next + Cardinality(new)]

ForgetNodes(reg, gone) ==
  [reg EXCEPT !.node = Restrict(@, {s \in Known(reg) : reg.node[s] \notin gone})]

\* Faulty variant: the ids of the file are handed out again.
ForgetFileRecycling(reg, f) ==
  [node |-> Restrict(reg.node, Known(reg) \ SymbolsOf(reg, f)),
   next |-> IF SymbolsOf(reg, f) = {} THEN reg.next ELSE reg.next - 1]

ForgetFile(reg, f) ==
  [reg EXCEPT !.node = Restrict(@, Known(reg) \ SymbolsOf(reg, f))]

\* Placeholders without an edge in either direction go.
ForgetOrphans(reg, referenced) ==
  [reg EXCEPT !.node = Restrict(@, {s \in Known(reg) :
                                      Qualified(s) \/ reg.node[s] \in referenced})]

-------------------------------------------------------------------------------
PairRows(pairs, kind) ==
  [n \in Nodes |-> [e \in Edge |->
     IF e.kind = kind /\ <<n, e.target>> \in pairs THEN 1 ELSE 0]]

\* prepare_facts: the file's definitions get their nodes first, so that a call
\* resolves to one of them if the registry knows such a symbol of this file.
Callee(reg, f, n) == IF Def(f, n) \in Known(reg) THEN Def(f, n) ELSE Bare(n)

PrepareFacts(reg, f, text) ==
  LET defined == {Def(f, n) : n \in text.defines}
      first   == Mint(reg, defined)
      ends    == {<<Def(f, c[1]), Callee(first, f, c[2])>> : c \in text.calls}
      second  == Mint(first, {e[1] : e \in ends} \cup {e[2] : e \in ends})
  IN  [reg   |-> second,
       edges |-> PairRows({<<second.node[e[1]], second.node[e[2]]>> : e \in ends}, "call"),
       nodes |-> NodesOf(second, defined)]

\* Faulty variant: names the parse did not produce again stay.
ApplyFactsKeepingNames(reg, store, f, text) ==
  LET facts == PrepareFacts(reg, f, text)
  IN  [reg   |-> facts.reg,
       store |-> [store EXCEPT !.delta =
                    ReplaceFileEdges(store.base, @, f, facts.edges, facts.nodes)]]

\* apply_facts_into: what the file owned and this parse did not define again is
\* forgotten, and the file's edges are replaced.
ApplyFacts(reg, store, f, text) ==
  LET facts == PrepareFacts(reg, f, text)
  IN  [reg   |-> ForgetNodes(facts.reg, store.delta.fileNodes[f] \ facts.nodes),
       store |-> [store EXCEPT !.delta =
                    ReplaceFileEdges(store.base, @, f, facts.edges, facts.nodes)]]

\* A vanished file: its names go, then the edges of the nodes it owned.
Vanish(reg, store, f) ==
  [reg   |-> ForgetFile(reg, f),
   store |-> [store EXCEPT !.delta =
                ReplaceFileEdges(store.base, @, f, NoRows, @.fileNodes[f])]]

-------------------------------------------------------------------------------
\* resolve and link_edges: a placeholder is linked to the definition of its
\* name if there is exactly one.
Defining(reg, n) == {s \in Known(reg) : Qualified(s) /\ s.name = n}

Links(reg) ==
  {l \in {s \in Known(reg) : ~Qualified(s)} \X {s \in Known(reg) : Qualified(s)} :
      Defining(reg, l[1].name) = {l[2]}}

\* link_placeholders_quiet: an empty set of links replaces nothing.
LinkPlaceholders(reg, store) ==
  IF Links(reg) = {} THEN store
  ELSE [store EXCEPT !.delta =
          ReplaceEdgesOfKind(@, "link",
            PairRows({<<reg.node[l[1]], reg.node[l[2]]>> : l \in Links(reg)}, "link"))]

Referenced(store) ==
  LET view == View(store)
      Busy(n) == \E e \in Edge : view[n][e] > 0
  IN  {n \in Nodes : Busy(n)} \cup {e.target : e \in {d \in Edge : \E n \in Nodes : view[n][d] > 0}}

-------------------------------------------------------------------------------
(***************************************************************************)
(* What a tree means, independently of how it is read: `tree` maps files   *)
(* to texts.                                                               *)
(***************************************************************************)
Definitions(tree) == UNION {{Def(f, n) : n \in tree[f].defines} : f \in DOMAIN tree}

Calls(tree) ==
  UNION {{<<Def(f, c[1]),
            IF c[2] \in tree[f].defines THEN Def(f, c[2]) ELSE Bare(c[2])>> :
          c \in tree[f].calls} : f \in DOMAIN tree}

Symbols(tree) ==
  Definitions(tree) \cup {e[1] : e \in Calls(tree)} \cup {e[2] : e \in Calls(tree)}

TreeLinks(tree) ==
  {l \in Symbols(tree) \X Definitions(tree) :
     /\ ~Qualified(l[1])
     /\ {e \in Definitions(tree) : e.name = l[1].name} = {l[2]}}

\* The edges of a kind that leave a named node, by name; a target that lost its
\* name counts as Unnamed.
Unnamed == [file |-> NoFile, name |-> Module]

NamedEdges(reg, store, kind) ==
  LET view == View(store)
      Name(m) == IF \E s \in Known(reg) : reg.node[s] = m
                 THEN CHOOSE s \in Known(reg) : reg.node[s] = m ELSE Unnamed
  IN  UNION {{<<s, Name(e.target)>> :
                 e \in {d \in Edge : d.kind = kind /\ view[reg.node[s]][d] > 0}} :
             s \in Known(reg)}
===============================================================================
