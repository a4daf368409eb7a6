------------------------------ MODULE Publish ------------------------------
(***************************************************************************)
(* What run_serve of src/main.rs shares between its watch thread and the   *)
(* threads that answer: the published graph, the counter open event        *)
(* streams poll, and the error of the last re-index.  A graph is its       *)
(* number among the graphs published, and the versions it was made from.   *)
(***************************************************************************)
EXTENDS Naturals

VARIABLES graph,       \* the published graph
          served,      \* what it was made from
          reindexed,   \* the counter streams poll
          failed,      \* whether reindex_error holds one
          fresh,       \* what the analysis under way has made
          watcher      \* where the watch thread is

publishVars == <<graph, served, reindexed, failed, fresh, watcher>>

Step(from, to) == watcher = from /\ watcher' = to

\* state.store: the graph is replaced whole.
StoreState(from, to) ==
  /\ Step(from, to)
  /\ graph' = graph + 1
  /\ served' = fresh
  /\ UNCHANGED <<reindexed, failed, fresh>>

ClearError(from, to) ==
  /\ Step(from, to)
  /\ failed' = FALSE
  /\ UNCHANGED <<graph, served, reindexed, fresh>>

Bump(from, to) ==
  /\ Step(from, to)
  /\ reindexed' = reindexed + 1
  /\ UNCHANGED <<graph, served, failed, fresh>>

\* Faulty variant: the counter rises before the graph is published.
BumpsFirst == \/ Bump("made", "stored")
              \/ StoreState("stored", "cleared")
              \/ ClearError("cleared", "done")

\* Ok(fresh): the graph, then the error, and only then the counter.
Publish == \/ StoreState("made", "stored")
           \/ ClearError("stored", "cleared")
           \/ Bump("cleared", "done")

\* Err(e): the graph that is served stays.
Fail(from) ==
  /\ Step(from, "done")
  /\ failed' = TRUE
  /\ UNCHANGED <<graph, served, reindexed, fresh>>
=============================================================================
