---------------------------- MODULE MCGraphValues -----------------------------
(***************************************************************************)
(* Values of the constants of Graph for TLC: three nodes, one file, two    *)
(* edge kinds.  The base the graph starts from knows nodes 0 and 1; node 2 *)
(* is minted by a write.                                                   *)
(***************************************************************************)
EXTENDS Integers, TLC

CONSTANTS f1, a1, a2, a3, a4

MCNodes == 0..2
MCKinds == {"call", "link"}

To(kind, m) == [target |-> m, kind |-> kind]

\* Rows with the given <<source, edge>> pairs, each once.
RowsOf(pairs) ==
  [n \in MCNodes |-> [e \in [target : MCNodes, kind : MCKinds] |->
                        IF <<n, e>> \in pairs THEN 1 ELSE 0]]

MCBase == [ids |-> {0, 1}, rows |-> RowsOf({<<0, To("call", 1)>>})]
EmptyBase == [ids |-> {}, rows |-> RowsOf({})]

Replace(defines, pairs) ==
  [type |-> "replace", file |-> f1, defines |-> defines, parsed |-> RowsOf(pairs)]

Relink(pairs) == [type |-> "relink", kind |-> "link", links |-> RowsOf(pairs)]

Add(pairs) == [type |-> "add", edges |-> RowsOf(pairs)]

Own == [type |-> "own", file |-> f1, nodes |-> {0}]

Via(v, mutations) == {[via |-> v, mutation |-> m] : m \in mutations}

\* Two writers: one more copy of a base edge, a file that now calls a new
\* node, the links.
RaceCalls == Via("update", {Add({<<0, To("call", 1)>>}),
                            Replace({0}, {<<0, To("call", 2)>>})})
             \cup Via("update_batch", {Relink({<<1, To("link", 2)>>})})

\* One writer that ingests the file and re-links, as run_watch does: the file
\* defines node 0 and at times 2, node 1 is a placeholder linked to either.
WatchCalls == Via("update", {Replace({0}, {<<0, To("call", 1)>>}),
                             Replace({0, 2}, {<<2, To("call", 1)>>}),
                             Relink({<<1, To("link", 0)>>}),
                             Relink({<<1, To("link", 2)>>})})

\* The same over a stored base, whose owners are registered first, and with
\* the whole tree ingested in one batch.
RefreshCalls == WatchCalls \cup Via("update", {Own})
                \cup Via("update_batch", {Replace({0, 2}, {<<0, To("call", 2)>>})})

MCAddresses == {a1, a2, a3, a4}
AddressSymmetry == Permutations(MCAddresses)
===============================================================================
