------------------------------- MODULE Serve --------------------------------
(***************************************************************************)
(* `serve --watch`: a tree that is edited, the watch thread that polls it  *)
(* (watcher.rs) and analyses it again (run_serve), the graph it publishes, *)
(* and what a readiness probe and an event stream learn of that (http.rs). *)
(*                                                                         *)
(* A file is its version, which is also its stamp: every change gives it a *)
(* new one, and being absent is a version like any other.  Version 0 is of *)
(* a file that the graph, or the list of stamps, leaves out.  An analysis  *)
(* is what Analyse refines it to: the stored text of a file whose recorded *)
(* stamp is the present one, the text read for every other, and the stamps *)
(* of the moment it stores.  The root may be unreadable for a while.       *)
(***************************************************************************)
EXTENDS Publish, FiniteSets, FiniteSetsExt

CONSTANTS Files,
          MaxEdits,    \* bound: changes of files
          MaxFailures  \* bound: analyses, walks and reads that fail

ASSUME ServeAssumption == /\ IsFiniteSet(Files)
                          /\ MaxEdits \in Nat /\ MaxFailures \in Nat

VARIABLES tree,      \* the version of each file
          previous,  \* what the watcher saw last
          current,   \* what it has just seen
          stamps,    \* the stamps recorded in .glasir-graph
          text,      \* the versions its graph was made from
          found,     \* the files its walk found, whose stamps it will record
          toRead,    \* the files it has still to read
          failures,  \* how many analyses, walks and reads have failed
          overlapped \* history: files changed or missed where nobody looks again

watchVars == <<previous, current, stamps, text, found, toRead, failures>>
sharedVars == <<graph, served, reindexed, failed>>

VARIABLES stream,    \* an event stream: "closed", "opening", "streaming"
          seen,      \* the counter value it is caught up with
          copy,      \* the graph its client fetched last
          told,      \* whether an event reached the client since
          fetched,   \* when: "never", "opening" or "streaming"
          probing,   \* a readiness probe: "idle", "half", "answered"
          probe      \* what it has read

streamVars == <<stream, seen, copy, told, fetched>>
probeVars == <<probing, probe>>
serveVars == <<tree, overlapped, watchVars, publishVars, streamVars, probeVars>>

First == [f \in Files |-> 1]
Nothing == [f \in Files |-> 0]

\* run_serve has analysed the tree and published that, and its watch thread
\* has been started.
Init ==
  /\ graph = 0 /\ reindexed = 0 /\ failed = FALSE
  /\ watcher = "starting"
  /\ tree = First /\ previous = First /\ current = First
  /\ stamps = First /\ text = First /\ fresh = First /\ served = First
  /\ found = Files /\ toRead = {} /\ failures = 0 /\ overlapped = {}
  /\ stream = "closed" /\ seen = 0 /\ copy = 0 /\ told = FALSE
  /\ fetched = "never"
  /\ probing = "idle" /\ probe = [graph |-> 0, generation |-> 0]

-----------------------------------------------------------------------------
(* The tree.                                                               *)

\* Nobody looks at a change again that comes before the watcher's first look or
\* after its last, or while an analysis runs that has read the file or will not
\* read it, and will record its stamp all the same.
Unseen(f) == \/ watcher \in {"starting", "ended"}
             \/ watcher = "reading" /\ f \in found \ toRead

Edit(f) ==
  /\ FoldFunction(LAMBDA x, y : x + y, 0, tree) < Cardinality(Files) + MaxEdits
  /\ tree' = [tree EXCEPT ![f] = @ + 1]
  /\ overlapped' = IF Unseen(f) THEN overlapped \cup {f} ELSE overlapped
  /\ UNCHANGED <<watchVars, publishVars, streamVars, probeVars>>

-----------------------------------------------------------------------------
(* The watch thread.                                                       *)

\* watch: the first stamps are taken when its thread runs.
FirstStamps ==
  /\ Step("starting", "watching")
  /\ previous' = tree
  /\ UNCHANGED <<tree, overlapped, current, stamps, text, found, toRead, failures,
                 fresh, sharedVars, streamVars, probeVars>>

\* A root that cannot be read then ends it, and nothing says so.
NoFirstStamps ==
  /\ failures < MaxFailures
  /\ Step("starting", "ended")
  /\ failures' = failures + 1
  /\ UNCHANGED <<tree, overlapped, previous, current, stamps, text, found, toRead,
                 fresh, sharedVars, streamVars, probeVars>>

\* A poll finds that something moved: the batch handler runs.
Poll ==
  /\ tree # previous
  /\ Step("watching", "batch")
  /\ current' = tree
  /\ UNCHANGED <<tree, overlapped, previous, stamps, text, found, toRead, failures,
                 fresh, sharedVars, streamVars, probeVars>>

\* walk lists every file, or none at all when the root cannot be read.
Listed(n) == IF n = 0 THEN Files ELSE {}

\* The stored graph is used where the stamps agree.  With nothing to read it is
\* the answer as it is; that includes a walk without a file after a graph that
\* was stored without one, which passes over whatever has changed.
Patch(n) ==
  LET changed == {f \in Listed(n) : tree[f] # stamps[f]} IN
  /\ n = 0 \/ stamps = Nothing
  /\ toRead' = changed
  /\ Step("batch", IF changed = {} THEN "made" ELSE "reading")
  /\ fresh' = text
  /\ overlapped' = overlapped \cup {f \in Files \ Listed(n) : text[f] # tree[f]}

\* Too many changes, or files that left the tree: every file is read.  That is a
\* second walk; when it is the one that fails, none is.
Rebuild(n) ==
  /\ Step("batch", "reading")
  /\ toRead' = Listed(n)
  /\ fresh' = Nothing
  /\ overlapped' = overlapped \cup (Files \ Listed(n))

\* served_state begins with the walk.
Walk ==
  \E first, second \in 0..1 :
    /\ failures + first + second <= MaxFailures
    /\ failures' = failures + first + second
    /\ found' = Listed(first)
    /\ Rebuild(second) \/ (second = 0 /\ Patch(first))
    /\ UNCHANGED <<tree, previous, current, stamps, text, sharedVars, streamVars,
                   probeVars>>

Read(f) ==
  /\ watcher = "reading" /\ f \in toRead
  /\ toRead' = toRead \ {f}
  /\ fresh' = [fresh EXCEPT ![f] = tree[f]]
  /\ UNCHANGED <<tree, overlapped, previous, current, stamps, text, found, failures,
                 watcher, sharedVars, streamVars, probeVars>>

\* A file that cannot be read keeps its stored text, which a build has none of;
\* one that can be read only as bytes, or not a second time, is forgotten.  Its
\* stamp is recorded as that of any other.
ReadFails(f) ==
  /\ watcher = "reading" /\ f \in toRead
  /\ failures < MaxFailures
  /\ failures' = failures + 1
  /\ toRead' = toRead \ {f}
  /\ fresh' \in {fresh, [fresh EXCEPT ![f] = 0]}
  /\ overlapped' = overlapped \cup {f}
  /\ UNCHANGED <<tree, previous, current, stamps, text, found,
                 watcher, sharedVars, streamVars, probeVars>>

\* The graph is stored with the stamps the listed files have by then, ...
StoreGraph ==
  /\ toRead = {}
  /\ Step("reading", "made")
  /\ text' = fresh
  /\ stamps' = [f \in Files |-> IF f \in found THEN tree[f] ELSE 0]
  /\ overlapped' = {f \in overlapped : fresh[f] # tree[f]}
  /\ UNCHANGED <<tree, previous, current, found, toRead, failures, fresh,
                 sharedVars, streamVars, probeVars>>

\* ... or cannot be stored, which does not stop the analysis.
StoreFails ==
  /\ toRead = {}
  /\ Step("reading", "made")
  /\ UNCHANGED <<tree, overlapped, previous, current, stamps, text, found, toRead,
                 failures, fresh, sharedVars, streamVars, probeVars>>

Republish == /\ Publish
             /\ UNCHANGED <<tree, overlapped, watchVars, streamVars, probeVars>>

AnalysisFails ==
  /\ failures < MaxFailures
  /\ Fail("batch") \/ Fail("reading")
  /\ failures' = failures + 1
  /\ toRead' = {}
  /\ UNCHANGED <<tree, overlapped, previous, current, stamps, text, found,
                 streamVars, probeVars>>

\* Faulty variant: the tree is looked at again once the batch is handled.
LooksAgain == tree

\* What the watcher compares the next poll with: what it saw before.
Remembered == current

\* on_batch has returned.
Remember ==
  /\ Step("done", "watching")
  /\ previous' = Remembered
  /\ UNCHANGED <<tree, overlapped, current, stamps, text, found, toRead, failures,
                 fresh, sharedVars, streamVars, probeVars>>

WatchThread ==
  \/ FirstStamps \/ NoFirstStamps \/ Poll \/ Walk 
  \/ (\E f \in Files : Read(f) \/ ReadFails(f))
  \/ StoreGraph \/ StoreFails \/ Republish \/ AnalysisFails
  \/ Remember

-----------------------------------------------------------------------------
(* An event stream: stream_events.                                         *)

\* The header and ": connected" are sent.
Connect ==
  /\ stream = "closed"
  /\ stream' = "opening"
  /\ UNCHANGED <<tree, overlapped, watchVars, publishVars, seen, copy, told,
                 fetched, probeVars>>

\* Only then is the counter read for the first time.
FirstCount ==
  /\ stream = "opening"
  /\ seen' = reindexed
  /\ stream' = "streaming"
  /\ UNCHANGED <<tree, overlapped, watchVars, publishVars, copy, told, fetched,
                 probeVars>>

\* Over another connection, the client asks and keeps the answer.
Fetch ==
  /\ stream # "closed"
  /\ copy' = graph /\ told' = FALSE /\ fetched' = stream
  /\ UNCHANGED <<tree, overlapped, watchVars, publishVars, stream, seen, probeVars>>

\* A poll that finds the counter moved writes one event, however far it moved.
PollEvent ==
  /\ stream = "streaming" /\ seen # reindexed
  /\ seen' = reindexed /\ told' = TRUE
  /\ UNCHANGED <<tree, overlapped, watchVars, publishVars, stream, copy, fetched,
                 probeVars>>

-----------------------------------------------------------------------------
(* A readiness probe: the /ready branch of handle_connection.              *)

ReadGraph(from, to) ==
  /\ probing = from /\ probing' = to
  /\ probe' = [probe EXCEPT !.graph = graph]
  /\ UNCHANGED <<tree, overlapped, watchVars, publishVars, streamVars>>

ReadCounter(from, to) ==
  /\ probing = from /\ probing' = to
  /\ probe' = [probe EXCEPT !.generation = reindexed]
  /\ UNCHANGED <<tree, overlapped, watchVars, publishVars, streamVars>>

\* Faulty variant: the counter is read before the graph.
CountsFirst == ReadCounter("idle", "half") \/ ReadGraph("half", "answered")

Probe == ReadGraph("idle", "half") \/ ReadCounter("half", "answered")

-----------------------------------------------------------------------------

Next ==
  \/ \E f \in Files : Edit(f)
  \/ WatchThread
  \/ Connect \/ FirstCount \/ Fetch \/ PollEvent
  \/ Probe

Spec == Init /\ [][Next]_serveVars

\* The watch thread and the stream's thread are scheduled.
FairSpec == Spec /\ WF_serveVars(WatchThread) /\ WF_serveVars(FirstCount)
                 /\ WF_serveVars(PollEvent)

-----------------------------------------------------------------------------
(* What `--watch` promises.                                                *)

TypeOK ==
  /\ graph \in Nat /\ reindexed \in Nat /\ failed \in BOOLEAN
  /\ watcher \in {"starting", "watching", "batch", "reading", "made", "stored",
                  "cleared", "done", "ended"}
  /\ tree \in [Files -> Nat \ {0}] /\ previous \in [Files -> Nat]
  /\ current \in [Files -> Nat] /\ stamps \in [Files -> Nat]
  /\ text \in [Files -> Nat] /\ fresh \in [Files -> Nat] /\ served \in [Files -> Nat]
  /\ found \subseteq Files /\ toRead \subseteq Files /\ overlapped \subseteq Files
  /\ failures \in 0..MaxFailures
  /\ stream \in {"closed", "opening", "streaming"}
  /\ fetched \in {"never", "opening", "streaming"}
  /\ seen \in Nat /\ copy \in Nat /\ told \in BOOLEAN
  /\ probing \in {"idle", "half", "answered"}
  /\ probe \in [graph : Nat, generation : Nat]

\* The watcher has nothing to report.
AtRest == watcher = "watching" /\ previous = tree

\* At rest, a file that is served out of date is one that was changed while
\* nobody looked, that a failed walk passed over or that an analysis could not
\* read, or the last re-index failed and the probe says so (main.rs:1239,
\* main.rs:2577, main.rs:4257, watcher.rs:201).
StaleIsExplained ==
  AtRest => failed \/ \A f \in Files : served[f] = tree[f] \/ f \in overlapped

\* "`--watch` keeps the served graph current" (main.rs:2564): once the watcher
\* has nothing to report, the tree is what is served, or the probe says why not.
ServedAtRest == AtRest => failed \/ served = tree

\* "`--watch` keeps the served graph current" (main.rs:2564): the re-index that
\* a batch triggers serves every change the batch reports.
BatchIsServed ==
  watcher = "done" /\ ~failed => \A f \in Files : served[f] >= current[f]

\* A client that fetched the graph while its stream was polling either holds
\* the graph the stream has announced last, or has been told since.
StaleClientsAreTold ==
  stream = "streaming" /\ fetched = "streaming" => copy >= seen \/ told

\* A probe answers with a generation that is at most one behind the graph it
\* describes, although it reads the one after the other (http.rs:894).
ProbeKeepsUp == probing = "answered" => probe.generation + 1 >= probe.graph

\* Every change is served in the end, unless it was made while nobody looked, a
\* failed walk or read passed over the file, or the re-index failed.
ChangesAreServed ==
  \A f \in Files :
    (tree[f] # served[f]) ~> (tree[f] = served[f] \/ failed \/ f \in overlapped)

\* A client that fetched the graph while its stream was polling and holds one
\* that is out of date hears of it in the end: the graph is out before the
\* counter rises, and the stream looks at the counter (main.rs:2577).
StaleClientsHear ==
  (fetched = "streaming" /\ copy < graph) ~> (told \/ copy = graph)

\* "Bumped after every republish, so an open SSE stream can tell its client that
\* the graph it cached has moved on" (main.rs:2546-2547), whenever the client
\* fetched it after the stream said that it was connected.
OpenStreamsTell ==
  (fetched # "never" /\ copy < graph) ~> (told \/ copy = graph)
=============================================================================
