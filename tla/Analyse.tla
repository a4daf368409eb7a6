------------------------------- MODULE Analyse --------------------------------
(***************************************************************************)
(* One analysis after another of a tree that is edited: the stored graph   *)
(* is loaded if there is one, the files that changed since are read again  *)
(* and folded in (refresh_files), or the whole tree is (build_graph), and  *)
(* the result is stored for the next start (main.rs, snapshot.rs).         *)
(*                                                                         *)
(* A file is read at a moment of its own, and what the environment does to *)
(* the tree meanwhile is part of the model, as is a crash at any step.     *)
(***************************************************************************)
EXTENDS Registry

CONSTANTS FileOrder,     \* the files in path order
          Texts,         \* per file, the texts it may have
          Absent,        \* the text of a file that is not there
          Unread,        \* what parsing a file that cannot be read gives
          NoCache, Torn, \* no stored graph; one whose write was cut off
          ChurnFactor,   \* 5 in the code, where trees have many files
          MaxEdits,      \* bound: changes of files
          MayDisturb,    \* may files change while an analysis runs?
          MayLock        \* may files be unreadable at times?

ASSUME AnalyseAssumption ==
  /\ IsInjective(FileOrder) /\ Files = {FileOrder[i] : i \in DOMAIN FileOrder}
  /\ \A f \in Files : Texts[f] \subseteq Text
  /\ Absent \notin Text /\ Unread \notin Text
  /\ ChurnFactor \in Nat /\ MaxEdits \in Nat
  /\ MayDisturb \in BOOLEAN /\ MayLock \in BOOLEAN

VARIABLES disk,     \* the text of each file
          mtime,    \* its modification time
          locked,   \* the files that cannot be read now
          cache,    \* .glasir-graph
          pc,       \* where the analysis is
          mode,     \* "refresh" or "build"
          walked,   \* the files `walk` found when the analysis began
          paths,    \* the files it reads
          parsed,   \* what parsing gave, for the files parsed so far
          folded,   \* the files folded in so far
          reg,      \* the registry of the analysis
          store,    \* its graph
          pending,  \* the snapshot being written
          doubt     \* history: files of which the graph may not show the text

world    == <<disk, mtime, locked>>
progress == <<mode, walked, paths, parsed, folded>>
result   == <<reg, store>>
vars     == <<world, cache, pc, progress, result, pending, doubt>>

EmptyGraph      == [ids |-> {}, rows |-> NoRows]
StoreOver(base) == [base |-> base, delta |-> EmptyDelta]

Tree == {f \in Files : disk[f] # Absent}

Init ==
  /\ disk \in {d \in [Files -> (UNION {Texts[f] : f \in Files}) \cup {Absent}] :
                 \A f \in Files : d[f] \in Texts[f] \cup {Absent}}
  /\ mtime = [f \in Files |-> 0]
  /\ locked = {}
  /\ cache = NoCache
  /\ pc = "idle"
  /\ mode = "build" /\ walked = {} /\ paths = {} /\ parsed = <<>> /\ folded = {}
  /\ reg = NewRegistry(0) /\ store = StoreOver(EmptyGraph)
  /\ pending = NoCache
  /\ doubt = {}

-------------------------------------------------------------------------------
(***************************************************************************)
(* The tree.  A change gives a file a modification time it never had.      *)
(***************************************************************************)
Resting == pc \in {"idle", "served"}

Change(f) ==
  /\ Resting \/ MayDisturb
  /\ SumFunction(mtime) < MaxEdits
  /\ \E t \in (Texts[f] \cup {Absent}) \ {disk[f]} : disk' = [disk EXCEPT ![f] = t]
  /\ mtime' = [mtime EXCEPT ![f] = @ + 1]
  /\ doubt' = doubt \cup {f}
  /\ UNCHANGED <<locked, cache, pc, progress, result, pending>>

\* An editor holds a file, or its permissions change; its time stays.
Lock(f) ==
  /\ MayLock
  /\ locked' = IF f \in locked THEN locked \ {f} ELSE locked \cup {f}
  /\ UNCHANGED <<disk, mtime, cache, pc, progress, result, pending, doubt>>

-------------------------------------------------------------------------------
(***************************************************************************)
(* analyse: walk the tree and read the stored graph.                       *)
(***************************************************************************)
\* Faulty variant: only a file that is gone is stale.
StaleIfGone == {f \in DOMAIN cache.sources : disk[f] = Absent}

\* read_partial: the stored files whose time is not the recorded one.
Stale ==
  {f \in DOMAIN cache.sources : disk[f] = Absent \/ mtime[f] # cache.sources[f]}

Added == Tree \ DOMAIN cache.sources

Churn == Cardinality(Stale) + Cardinality(Added)

\* The snapshot can be read, and few enough of its files have changed.
Loadable ==
  /\ cache \notin {NoCache, Torn}
  /\ \/ Churn * ChurnFactor <= Cardinality(DOMAIN cache.sources)
     \/ Churn * ChurnFactor <= 1

\* Faulty variant: ids restart past the names, not past the nodes.
RestoredPastNames(snapshot) ==
  [node |-> snapshot.names, next |-> Cardinality(DOMAIN snapshot.names)]

\* The registry gets the stored names back, and ids past the base's nodes.
Restored(snapshot) ==
  [node |-> snapshot.names, next |-> Cardinality(snapshot.base.ids)]

Start(how, files, registry, base) ==
  /\ mode' = how
  /\ paths' = files
  /\ pc' = IF how = "refresh" /\ files = {} THEN "served" ELSE "parse"
  /\ reg' = registry
  /\ store' = StoreOver(base)

Begin ==
  /\ Resting
  /\ walked' = Tree
  /\ IF Loadable
     THEN Start("refresh", Stale \cup Added, Restored(cache), cache.base)
     ELSE Start("build", Tree, NewRegistry(0), EmptyGraph)
  /\ parsed' = <<>>
  /\ folded' = {}
  /\ doubt' = IF Loadable THEN cache.doubt ELSE {}
  /\ UNCHANGED <<world, cache, pending>>

-------------------------------------------------------------------------------
(***************************************************************************)
(* build_graph and refresh_files.                                          *)
(***************************************************************************)
Readable(f) == disk[f] # Absent /\ f \notin locked

\* The files are read and scanned by a pool, in any order.
Parse(f) ==
  /\ pc = "parse" /\ f \in paths \ DOMAIN parsed
  /\ parsed' = [g \in DOMAIN parsed \cup {f} |->
                   IF g # f THEN parsed[g] ELSE IF Readable(f) THEN disk[f] ELSE Unread]
  /\ UNCHANGED <<world, cache, pc, mode, walked, paths, folded, result, pending, doubt>>

\* The fold is serial, in path order.
NextToFold(f) ==
  /\ f \in paths \ folded
  /\ \A i, j \in DOMAIN FileOrder :
        FileOrder[i] = f /\ FileOrder[j] \in paths \ folded => i <= j

\* Faulty variant: the delta does not learn which nodes the file owns.
OwnedNothing(f) == store

\* The delta learns from the names which nodes the file owns.
OwnedAgain(f) ==
  [store EXCEPT !.delta = SetFileNodes(@, f, NodesOf(reg, SymbolsOf(reg, f)))]

Becomes(outcome) == reg' = outcome.reg /\ store' = outcome.store

\* What the graph shows of a file, once it is folded in, is a text that was read
\* a while ago, or nothing.
Shows(f, text) == doubt' = IF text = disk[f] THEN doubt \ {f} ELSE doubt \cup {f}

\* Faulty variant: a file that cannot be decoded counts as right.
ForgetsSilently(f) == Becomes(Vanish(reg, OwnedAgain(f), f)) /\ doubt' = doubt \ {f}

Forgets(f) == Becomes(Vanish(reg, OwnedAgain(f), f)) /\ Shows(f, Absent)

\* read_to_string, which unlike the parse reads UTF-8 only.
ReadsAsString(f) == Readable(f) /\ disk[f].utf8

\* Each file is read again, twice.  One that is there and that the first read
\* does not get keeps what it had.  One the second does not get loses its edges
\* and names: it is gone, it is not UTF-8, or it has just become unreadable.
\* Any other gets the facts of the parse, if that got any.
FoldRefreshed(f) ==
  \/ /\ disk[f] # Absent /\ f \in locked
     /\ Becomes([reg |-> reg, store |-> OwnedAgain(f)])
     /\ doubt' = doubt \cup {f}
  \/ /\ disk[f] = Absent \/ (Readable(f) /\ ~disk[f].utf8) \/ MayLock
     /\ Forgets(f)
  \/ /\ ReadsAsString(f) /\ parsed[f] # Unread
     /\ Becomes(ApplyFacts(reg, OwnedAgain(f), f, parsed[f]))
     /\ Shows(f, parsed[f])
  \/ /\ ReadsAsString(f) /\ parsed[f] = Unread
     /\ Becomes([reg |-> reg, store |-> OwnedAgain(f)])
     /\ doubt' = doubt \cup {f}

FoldBuilt(f) ==
  \/ /\ parsed[f] = Unread
     /\ UNCHANGED result /\ Shows(f, Absent)
  \/ /\ parsed[f] # Unread
     /\ Becomes(ApplyFacts(reg, store, f, parsed[f])) /\ Shows(f, parsed[f])

Fold(f) ==
  /\ pc = "parse" /\ DOMAIN parsed = paths
  /\ NextToFold(f)
  /\ IF mode = "refresh" THEN FoldRefreshed(f) ELSE FoldBuilt(f)
  /\ folded' = folded \cup {f}
  /\ UNCHANGED <<world, cache, pc, mode, walked, paths, parsed, pending>>

\* Faulty variant: tier 3 runs in a build only.
LinkAfterBuild ==
  /\ pc = "parse" /\ folded = paths /\ DOMAIN parsed = paths
  /\ store' = IF mode = "build" THEN LinkPlaceholders(reg, store) ELSE store
  /\ reg' = IF mode = "refresh" THEN ForgetOrphans(reg, Referenced(store')) ELSE reg
  /\ pc' = "store"
  /\ UNCHANGED <<world, cache, progress, pending, doubt>>

\* Tier 3 over the whole registry; a refresh then drops the placeholders that
\* nothing refers to any more.
Link ==
  /\ pc = "parse" /\ folded = paths /\ DOMAIN parsed = paths
  /\ store' = LinkPlaceholders(reg, store)
  /\ reg' = IF mode = "refresh" THEN ForgetOrphans(reg, Referenced(store')) ELSE reg
  /\ pc' = "store"
  /\ UNCHANGED <<world, cache, progress, pending, doubt>>

-------------------------------------------------------------------------------
(***************************************************************************)
(* store_snapshot: the compacted graph, the names of its nodes, and the    *)
(* times the files have now.  Its `doubt` is history and not in the file:  *)
(* a file that came after the walk has names, and no time, too.            *)
(***************************************************************************)
Snapshot ==
  LET base == Compact(store).base
  IN  [base    |-> base,
       names   |-> Restrict(reg.node, {s \in Known(reg) : reg.node[s] \in base.ids}),
       sources |-> [f \in walked \cap Tree |-> mtime[f]],
       doubt   |-> doubt \cup (Tree \ walked)]

\* The file is truncated, then filled.
StartWrite ==
  /\ pc = "store"
  /\ pending' = Snapshot
  /\ cache' = Torn
  /\ pc' = "write"
  /\ UNCHANGED <<world, progress, result, doubt>>

FinishWrite ==
  /\ pc = "write"
  /\ cache' = pending
  /\ pending' = NoCache
  /\ pc' = "served"
  /\ UNCHANGED <<world, progress, result, doubt>>

\* The file cannot be opened, or filled (a full disk); the graph in memory is
\* served all the same.
FailWrite ==
  /\ pc \in {"store", "write"}
  /\ pc' = "served"
  /\ pending' = NoCache
  /\ UNCHANGED <<world, cache, progress, result, doubt>>

\* The process ends, wherever it is: only the file stays.
Crash ==
  /\ pc # "idle"
  /\ pc' = "idle"
  /\ reg' = NewRegistry(0) /\ store' = StoreOver(EmptyGraph)
  /\ parsed' = <<>> /\ folded' = {} /\ paths' = {}
  /\ pending' = NoCache
  /\ UNCHANGED <<world, cache, mode, walked, doubt>>

-------------------------------------------------------------------------------
Next ==
  \/ \E f \in Files : Change(f) \/ Lock(f) \/ Parse(f) \/ Fold(f)
  \/ Begin \/ Link \/ StartWrite \/ FinishWrite \/ FailWrite \/ Crash

Spec == Init /\ [][Next]_vars

-------------------------------------------------------------------------------
(***************************************************************************)
(* Properties.                                                             *)
(***************************************************************************)
Snapshots == {cache, pending} \ {NoCache, Torn}

TypeOK ==
  /\ pc \in {"idle", "parse", "store", "write", "served"}
  /\ mode \in {"refresh", "build"}
  /\ DOMAIN parsed \subseteq paths /\ folded \subseteq paths
  /\ Known(reg) \subseteq Symbol /\ NodesOf(reg, Known(reg)) \subseteq Nodes \cap 0 .. reg.next - 1
  /\ store \in Store
  /\ \A s \in Snapshots : s.base \in Base /\ DOMAIN s.sources \subseteq Files

\* Two symbols never share a node, neither in an analysis nor in what it
\* stores and the next one restores (SymbolRegistry::new, get_or_mint).
OneSymbolPerNode ==
  /\ IsInjective(reg.node)
  /\ \A s \in Snapshots : IsInjective(s.names)

\* "a recycled [id] would attach to whatever edges the old node still had"
\* (forget_file): no edge leaves or enters an id that is still to be minted,
\* across stores and restarts.
FreshIdsAreUnused == \A n \in Referenced(store) : n < reg.next

\* Whatever is forgotten, moved and minted in between, a link that leads to a
\* named node leads to a definition of the placeholder's name.
LinksNeverMislead ==
  \A l \in NamedEdges(reg, store, "link") :
     ~Qualified(l[1]) /\ (l[2] # Unnamed => Qualified(l[2]) /\ l[2].name = l[1].name)

\* What follows is about the files whose text the graph shows.  A file is not
\* one of them, from the moment it changes or a fold finds it unreadable, not
\* UTF-8, or other than it was parsed, until a later analysis reads it in full -
\* also if the graph is stored in between, with the time the file has by then.
Sure == Files \ doubt

Meant(f) == IF disk[f] = Absent THEN {} ELSE {Def(f, n) : n \in disk[f].defines}

NamedIn(names, f) == {s \in names : s.file = f /\ s.name # Module}

\* After any builds, refreshes, disturbances and crashes, the definitions are
\* those of the texts: none missing, none of a file or a version that is gone.
DefinitionsAsBuilt ==
  pc = "served" => \A f \in Sure : NamedIn(Known(reg), f) = Meant(f)

TreeNow == [f \in Tree |-> disk[f]]

\* No call of the text goes to a name that only another text of the file defines.
Steady(f, text) ==
  \A c \in text.calls : \A u \in Texts[f] : c[2] \in u.defines => c[2] \in text.defines

\* The calls that leave a definition are those of its file's text.
CallsAsBuilt ==
  pc = "served" =>
    \A f \in Sure \cap Tree : Steady(f, disk[f]) =>
       {e \in NamedEdges(reg, store, "call") : e[1].file = f /\ e[1].name # Module} =
       {e \in Calls(TreeNow) : e[1].file = f /\ e[1].name # Module}

\* If the graph shows every text, no link a full build makes is missing
\* (link_placeholders_quiet).
LinksComplete ==
  pc = "served" /\ doubt = {} /\ (\A f \in Tree : Steady(f, disk[f])) =>
    TreeLinks(TreeNow) \subseteq NamedEdges(reg, store, "link")

\* A stored file whose time is the recorded one is as it was when the graph was
\* made (snapshot::read: "describes a tree that has since changed").
FreshMeansCurrent ==
  cache \notin {NoCache, Torn} =>
    \A f \in DOMAIN cache.sources \ cache.doubt :
       disk[f] # Absent /\ mtime[f] = cache.sources[f] =>
         NamedIn(DOMAIN cache.names, f) = Meant(f)

-------------------------------------------------------------------------------
(***************************************************************************)
(* What the self-check says of every refresh, "the incremental result is   *)
(* the one a full build would have produced" (main.rs:13003), of a tree    *)
(* that is left alone meanwhile.  The code keeps none of the three.        *)
(***************************************************************************)
UpToDate == /\ pc = "served" /\ cache \notin {NoCache, Torn}
            /\ cache.sources = [f \in Tree |-> mtime[f]]

\* "incremental must find exactly the symbols a full build finds": a file that
\* is not UTF-8 loses its own (main.rs:1248).
SameSymbols ==
  UpToDate => {s \in Known(reg) : Qualified(s) /\ s.name # Module} = Definitions(TreeNow)

\* "and the same edges between them": a call goes to a definition that is about
\* to be forgotten (ingest.rs:1124).
SameCalls ==
  UpToDate => {e \in NamedEdges(reg, store, "call") : e[1].name # Module} =
              {e \in Calls(TreeNow) : e[1].name # Module}

\* And so are the links: one that was stored stays when its name is defined
\* twice (main.rs:3931).
SameLinks == UpToDate => NamedEdges(reg, store, "link") = TreeLinks(TreeNow)
===============================================================================
