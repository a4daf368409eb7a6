----------------------------- MODULE GraphHistory -----------------------------
(***************************************************************************)
(* Graph with three history variables: how often a writer's current call   *)
(* has loaded the snapshot, which nodes each file was last registered with *)
(* -- the ownership the delta store is meant to remember -- and which of   *)
(* that was since the last compaction.  They record the steps of Graph and *)
(* constrain none of them.                                                 *)
(***************************************************************************)
EXTENDS Graph

VARIABLES tries,      \* per writer, loads since it entered its call
          registered, \* per file, the nodes of its last committed registration
          remembered  \* the same, without what was registered before the last
                      \* compaction that was published

history == <<tries, registered, remembered>>
hvars   == <<vars, history>>

HInit ==
  /\ Init
  /\ tries = [w \in Writers |-> 0]
  /\ registered = [f \in Files |-> {}]
  /\ remembered = [f \in Files |-> {}]

HEnter(w) ==
  /\ Enter(w)
  /\ tries' = [tries EXCEPT ![w] = 0]
  /\ UNCHANGED <<registered, remembered>>

HLoad(w) ==
  /\ Load(w)
  /\ tries' = [tries EXCEPT ![w] = @ + 1]
  /\ UNCHANGED <<registered, remembered>>

\* What the files own once m is committed.
Owning(m, owned) ==
  CASE m.type = "own"     -> [owned EXCEPT ![m.file] = m.nodes]
    [] m.type = "replace" -> [owned EXCEPT ![m.file] = m.defines \cup Sources(m.parsed)]
    [] OTHER              -> owned

HPublish(w) ==
  /\ Publish(w)
  /\ registered' = Owning(call[w].mutation, registered)
  /\ remembered' = Owning(call[w].mutation, remembered)
  /\ UNCHANGED tries

HWriterStep(w) ==
  \/ HLoad(w)
  \/ HPublish(w)
  \/ (Retry(w) \/ LoseBatch(w) \/ SpawnCompaction(w)) /\ UNCHANGED history

\* The only step of a compaction thread that changes the graph publishes.
HWorkerStep(k) ==
  /\ WorkerStep(k)
  /\ remembered' = IF current' = current THEN remembered ELSE [f \in Files |-> {}]
  /\ UNCHANGED <<tries, registered>>

HNext ==
  \/ \E w \in Writers : HEnter(w) \/ HWriterStep(w)
  \/ \E k \in Workers : HWorkerStep(k)

HSpec == HInit /\ [][HNext]_hvars

HFairSpec ==
  /\ HSpec
  /\ \A w \in Writers : WF_hvars(HWriterStep(w))
  /\ \A k \in Workers : WF_hvars(HWorkerStep(k))

-------------------------------------------------------------------------------
\* With one writer -- "writers serialize on the caller side" -- an update is
\* disturbed at most once: only the compaction in flight when it began can get
\* in between, so it is published on the second attempt at the latest.
SecondTryPublishes ==
  (\E w \in Writers : Writers = {w}) => \A w \in Writers : tries[w] <= 2

\* The edges leaving these nodes, once a file is ingested again, are exactly
\* what was just parsed.
Scoped(nodes) ==
  \A w \in Writers : LET m == call[w].mutation IN
    HPublish(w) /\ m.type = "replace" =>
      \A n \in nodes[m.file] : View(StoreOf(current))'[n] = m.parsed[n]

\* File-level scoping (delta.rs:55), of the nodes a file was registered with
\* since the last compaction, whether its edges are buffered or stored.
ScopedSinceCompaction == [][Scoped(remembered)]_hvars

\* The same of the nodes it was last registered with, as delta.rs:55 says it: a
\* compaction forgets the owners, and the code does not keep it.
FileScoping == [][Scoped(registered)]_hvars

\* The edges of each of these kinds, once they are replaced, are exactly the new
\* set, each once.
Relinked(kinds) ==
  \A w \in Writers : LET m == call[w].mutation IN
    HPublish(w) /\ m.type = "relink" /\ m.kind \in kinds =>
      \A n \in Nodes, e \in Edge :
         e.kind = m.kind => View(StoreOf(current))'[n][e] = m.links[n][e]

NotStored == {k \in Kinds : \A n \in Nodes, e \in Edge :
                                e.kind = k => current.base.rows[n][e] = 0}

\* "without this they accumulate a duplicate set on every batch" (delta.rs:102):
\* they do not, as long as the base has none of the kind.
BufferedLinksReplaced == [][Relinked(NotStored)]_hvars

\* "Replaces every edge of one kind, wherever it starts" (delta.rs:98): not those
\* a compaction has moved into the base.
LinksReplaced == [][Relinked(Kinds)]_hvars

\* The flag does not stay up, or wait_for_compaction would spin forever.
CompactionEnds == compacting ~> ~compacting

\* The calls of a writer return.
CallsReturn == \A w \in Writers : pc[w] # "outside" ~> pc[w] = "outside"
===============================================================================
