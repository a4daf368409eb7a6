-------------------------------- MODULE Graph ---------------------------------
(***************************************************************************)
(* graph.rs: writers publish whole snapshots by compare-and-swap on one    *)
(* shared pointer (published.rs), and once the delta is over the threshold *)
(* a background thread compacts it speculatively.                          *)
(*                                                                         *)
(* A snapshot is immutable behind an Arc.  `arc` is its address: two Arcs  *)
(* are ptr_eq exactly when it agrees, and an address is free again as soon *)
(* as neither the published pointer nor a thread holds it -- so nothing    *)
(* here assumes that addresses are not reused.                             *)
(***************************************************************************)
EXTENDS DeltaStore

CONSTANTS Writers,        \* threads that call update or update_batch
          Workers,        \* slots for compaction threads
          Addresses,      \* addresses the allocator can return
          Calls,          \* the calls the writers make
          InitBase,       \* the base Graph::new is given
          NoCall,         \* a writer outside a call
          NoSnapshot,     \* a thread that holds no Arc
          MaxGeneration   \* bound: no call starts at or past this generation

Call     == [via : {"update", "update_batch"}, mutation : Mutation]
Snapshot == [arc : Addresses, generation : Nat, base : Base, delta : Delta]
Threads  == Writers \cup Workers

ASSUME GraphAssumption ==
  /\ Writers \cap Workers = {}
  /\ Calls \subseteq Call
  /\ NoCall \notin Call
  /\ NoSnapshot \notin Snapshot
  /\ InitBase \in Base /\ BaseClosed(InitBase)
  /\ Addresses # {}
  /\ MaxGeneration \in Nat

VARIABLES current,      \* Graph.current: the published snapshot
          compacting,   \* Graph.compacting: the flag
          pc,           \* where each thread is
          held,         \* the Arc each thread loaded, `prev` and `source`
          call          \* the call each writer is in

vars == <<current, compacting, pc, held, call>>

WriterPc == {"outside", "load", "swap", "spawn"}
WorkerPc == {"none", "load", "swap", "clear"}

TypeOK ==
  /\ current \in Snapshot
  /\ compacting \in BOOLEAN
  /\ pc \in [Threads -> WriterPc \cup WorkerPc]
  /\ \A w \in Writers : pc[w] \in WriterPc
  /\ \A k \in Workers : pc[k] \in WorkerPc
  /\ held \in [Threads -> Snapshot \cup {NoSnapshot}]
  /\ call \in [Writers -> Calls \cup {NoCall}]

Init ==
  /\ \E a \in Addresses :
       current = [arc |-> a, generation |-> 0, base |-> InitBase, delta |-> EmptyDelta]
  /\ compacting = FALSE
  /\ pc = [t \in Threads |-> IF t \in Writers THEN "outside" ELSE "none"]
  /\ held = [t \in Threads |-> NoSnapshot]
  /\ call = [w \in Writers |-> NoCall]

StoreOf(s) == [base |-> s.base, delta |-> s.delta]

\* Faulty variant: the threads only borrow the pointer, they do not hold the Arc.
LiveInGraph == {current.arc}

\* Addresses some Arc still points at.
Live == {current.arc} \cup
        {held[t].arc : t \in {u \in Threads : held[u] # NoSnapshot}}

-------------------------------------------------------------------------------
(***************************************************************************)
(* Published::load_full and Published::compare_and_swap.                   *)
(***************************************************************************)
LoadFull(t) == held' = [held EXCEPT ![t] = current]

Unchanged(t) == held[t].arc = current.arc     \* Arc::ptr_eq(&previous, expected)

\* Faulty variant: a plain store.
SwapBlindly(t, store) ==
  /\ \E a \in Addresses \ Live :
       current' = [arc |-> a, generation |-> held[t].generation + 1,
                   base |-> store.base, delta |-> store.delta]
  /\ held' = [held EXCEPT ![t] = NoSnapshot]

\* `next` is allocated while the thread still holds `prev`, and published.
Swap(t, store) ==
  /\ Unchanged(t)
  /\ \E a \in Addresses \ Live :
       current' = [arc |-> a, generation |-> held[t].generation + 1,
                   base |-> store.base, delta |-> store.delta]
  /\ held' = [held EXCEPT ![t] = NoSnapshot]

-------------------------------------------------------------------------------
(***************************************************************************)
(* Writers: Graph::update and Graph::update_batch.                         *)
(***************************************************************************)
Enter(w) ==
  /\ pc[w] = "outside"
  /\ current.generation < MaxGeneration
  /\ \E c \in Calls : call' = [call EXCEPT ![w] = c]
  /\ pc' = [pc EXCEPT ![w] = "load"]
  /\ UNCHANGED <<current, compacting, held>>

Load(w) ==
  /\ pc[w] = "load"
  /\ LoadFull(w)
  /\ pc' = [pc EXCEPT ![w] = "swap"]
  /\ UNCHANGED <<current, compacting, call>>

\* The closure ran on a copy of the loaded delta, and the swap succeeds.
\* update then schedules a compaction if the delta it published is oversized.
Publish(w) ==
  LET delta == Mutate(call[w].mutation, StoreOf(held[w]))
      spawn == call[w].via = "update" /\ Oversized(delta)
  IN  /\ pc[w] = "swap"
      /\ Swap(w, [base |-> held[w].base, delta |-> delta])
      /\ pc' = [pc EXCEPT ![w] = IF spawn THEN "spawn" ELSE "outside"]
      /\ call' = [call EXCEPT ![w] = NoCall]
      /\ UNCHANGED compacting

\* Faulty variant: the exchange may fail without a reason, as a weak one does.
RetrySpuriously(w) ==
  /\ pc[w] = "swap"
  /\ call[w].via = "update"
  /\ pc' = [pc EXCEPT ![w] = "load"]
  /\ held' = [held EXCEPT ![w] = NoSnapshot]
  /\ UNCHANGED <<current, compacting, call>>

\* Faulty variant: the loop retries with the snapshot loaded before it.
RetryWithoutLoad(w) ==
  /\ pc[w] = "swap"
  /\ ~Unchanged(w)
  /\ call[w].via = "update"
  /\ UNCHANGED vars

\* Somebody published in between: update redoes the mutation.
Retry(w) ==
  /\ pc[w] = "swap"
  /\ ~Unchanged(w)
  /\ call[w].via = "update"
  /\ pc' = [pc EXCEPT ![w] = "load"]
  /\ held' = [held EXCEPT ![w] = NoSnapshot]
  /\ UNCHANGED <<current, compacting, call>>

\* The same for update_batch, which only has a debug_assert for it: a release
\* build returns to the caller with nothing published.
LoseBatch(w) ==
  /\ pc[w] = "swap"
  /\ ~Unchanged(w)
  /\ call[w].via = "update_batch"
  /\ pc' = [pc EXCEPT ![w] = "outside"]
  /\ held' = [held EXCEPT ![w] = NoSnapshot]
  /\ call' = [call EXCEPT ![w] = NoCall]
  /\ UNCHANGED <<current, compacting>>

\* Faulty variant: the flag is raised without being tested.
SpawnUnguarded(w) ==
  /\ pc[w] = "spawn"
  /\ \E k \in Workers :
       /\ pc[k] = "none"
       /\ pc' = [pc EXCEPT ![w] = "outside", ![k] = "load"]
  /\ compacting' = TRUE
  /\ UNCHANGED <<current, held, call>>

\* Faulty variant: the guard that clears the flag stays with the writer.
SpawnKeepingGuard(w) ==
  /\ pc[w] = "spawn"
  /\ compacting' = TRUE
  /\ pc' = [pc EXCEPT ![w] = "clear"]
  /\ UNCHANGED <<current, held, call>>

\* spawn_compaction: the compare_exchange on the flag lets one thread start.
SpawnCompaction(w) ==
  /\ pc[w] = "spawn"
  /\ IF compacting
     THEN /\ pc' = [pc EXCEPT ![w] = "outside"]
          /\ UNCHANGED compacting
     ELSE /\ \E k \in Workers :
               /\ pc[k] = "none"
               /\ pc' = [pc EXCEPT ![w] = "outside", ![k] = "load"]
          /\ compacting' = TRUE
  /\ UNCHANGED <<current, held, call>>

-------------------------------------------------------------------------------
(***************************************************************************)
(* The compaction thread.                                                  *)
(***************************************************************************)
LoadSource(k) ==
  /\ pc[k] = "load"
  /\ LoadFull(k)
  /\ pc' = [pc EXCEPT ![k] = "swap"]
  /\ UNCHANGED <<current, compacting, call>>

\* Faulty variant: the compacted snapshot keeps the generation of its source.
PublishSameGeneration(k) ==
  /\ pc[k] = "swap"
  /\ Unchanged(k)
  /\ \E a \in Addresses \ Live :
       current' = [arc |-> a, generation |-> held[k].generation,
                   base |-> Compact(StoreOf(held[k])).base, delta |-> EmptyDelta]
  /\ held' = [held EXCEPT ![k] = NoSnapshot]
  /\ pc' = [pc EXCEPT ![k] = "clear"]
  /\ UNCHANGED <<compacting, call>>

\* The folded snapshot is published if its source is still the current one.
PublishCompacted(k) ==
  /\ pc[k] = "swap"
  /\ Swap(k, Compact(StoreOf(held[k])))
  /\ pc' = [pc EXCEPT ![k] = "clear"]
  /\ UNCHANGED <<compacting, call>>

\* A writer was faster: the rebuild is thrown away.
DiscardCompacted(k) ==
  /\ pc[k] = "swap"
  /\ ~Unchanged(k)
  /\ pc' = [pc EXCEPT ![k] = "clear"]
  /\ held' = [held EXCEPT ![k] = NoSnapshot]
  /\ UNCHANGED <<current, compacting, call>>

\* Faulty variant: a panic leaves the flag up.
PanicUnguarded(k) ==
  /\ pc[k] = "swap"
  /\ pc' = [pc EXCEPT ![k] = "none"]
  /\ held' = [held EXCEPT ![k] = NoSnapshot]
  /\ UNCHANGED <<current, compacting, call>>

\* The rebuild panics and the thread unwinds; Busy is dropped all the same.
Panic(k) ==
  /\ pc[k] = "swap"
  /\ pc' = [pc EXCEPT ![k] = "clear"]
  /\ held' = [held EXCEPT ![k] = NoSnapshot]
  /\ UNCHANGED <<current, compacting, call>>

\* Busy::drop, the thread's last step however it leaves.
ClearFlag(k) ==
  /\ pc[k] = "clear"
  /\ compacting' = FALSE
  /\ pc' = [pc EXCEPT ![k] = "none"]
  /\ UNCHANGED <<current, held, call>>

-------------------------------------------------------------------------------
WriterStep(w) == Load(w) \/ Publish(w) \/ Retry(w) \/ LoseBatch(w) \/ SpawnCompaction(w)

WorkerStep(k) ==
  LoadSource(k) \/ PublishCompacted(k) \/ DiscardCompacted(k) \/ Panic(k) \/ ClearFlag(k)

Next ==
  \/ \E w \in Writers : Enter(w) \/ WriterStep(w)
  \/ \E k \in Workers : WorkerStep(k)

Spec == Init /\ [][Next]_vars

-------------------------------------------------------------------------------
(***************************************************************************)
(* Properties.                                                             *)
(***************************************************************************)
\* The compare-and-swap is free of ABA: whoever holds an Arc with the address
\* of the published one holds the published snapshot itself, so what it built
\* on that snapshot may replace it (Graph::publish).
ArcIdentifiesSnapshot ==
  \A t \in Threads : held[t] # NoSnapshot /\ held[t].arc = current.arc => held[t] = current

\* "on publish the generation counter tells it whether a writer got there
\* first" (graph.rs:10): a held snapshot is of the published generation exactly
\* when it still is the published one, and of an earlier generation otherwise.
GenerationTellsStaleness ==
  \A t \in Threads : held[t] # NoSnapshot =>
     /\ held[t].generation <= current.generation
     /\ held[t].generation = current.generation => held[t] = current

\* The flag is up exactly while one compaction thread is in flight, and there
\* is never a second one (spawn_compaction).
OneWorkerBehindFlag ==
  /\ compacting <=> \E k \in Workers : pc[k] # "none"
  /\ \A j, k \in Workers : pc[j] # "none" /\ pc[k] # "none" => j = k

\* Whatever was written and folded in before, the base is one a snapshot file
\* may hold: no edge of it leaves or enters a node without a row
\* (BaseCsr::validate, and the bound build_reverse tests every target against).
BaseStaysClosed == BaseClosed(current.base)

\* The abstract store is the published one, without its address and generation.
AG == INSTANCE AtomicGraph WITH store <- StoreOf(current), pending <- call

\* Loads, retries and the compaction thread are invisible: the published
\* snapshots behave as one store that each update changes atomically
\* (Graph::update, Graph::publish).
ImplementsAtomicGraph == AG!Spec

\* What readers see changes only by a caller's mutation, never by compaction.
CompactionIsInvisible == AG!ViewChangesByCommitOnly
===============================================================================
