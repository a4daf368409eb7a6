---------------------------- MODULE ServeProofs -----------------------------
(***************************************************************************)
(* What is stale is explained, a stale client is told, and a probe keeps   *)
(* up, for any number of files, edits and failures.                        *)
(***************************************************************************)
EXTENDS Serve, TLAPS

\* The counter is behind the published graph only between the two stores.
CountInv ==
  /\ reindexed = IF watcher \in {"stored", "cleared"} THEN graph - 1 ELSE graph
  /\ watcher \in {"stored", "cleared"} => graph > 0
  /\ stream = "streaming" => seen <= reindexed
  /\ fetched = "streaming" => stream = "streaming"
  /\ probing = "half" => probe.graph <= graph
  /\ StaleClientsAreTold
  /\ ProbeKeepsUp

\* What the watch thread knows of a file nobody changed unseen.  A version only
\* grows, so a file that has the version of the last look was not changed since.
Recorded(f) == stamps[f] = 0 \/ text[f] = stamps[f]
Followed(f) ==
  /\ watcher = "starting" => served[f] = tree[f]
  /\ watcher = "watching" => failed \/ (previous[f] = tree[f] => served[f] = tree[f])
  /\ watcher = "reading" => \/ f \in toRead
                            \/ fresh[f] = tree[f]
                            \/ f \notin found /\ current[f] < tree[f]
  /\ watcher = "made" => (current[f] = tree[f] => fresh[f] = tree[f])
  /\ watcher \in {"stored", "cleared"} => (current[f] = tree[f] => served[f] = tree[f])
  /\ watcher = "done" => failed \/ (current[f] = tree[f] => served[f] = tree[f])

FollowInv ==
  \A f \in Files :
    /\ previous[f] <= tree[f] /\ current[f] <= tree[f]
    /\ f \notin overlapped => Recorded(f) /\ Followed(f)

ServeInv == TypeOK /\ CountInv /\ FollowInv

LEMMA ServeInitInv == Init => ServeInv
<1> SUFFICES ASSUME Init PROVE ServeInv
  OBVIOUS
<1>0. First \in [Files -> Nat] /\ First \in [Files -> Nat \ {0}]
  BY DEF First
<1>1. TypeOK
  <2>1. failed \in BOOLEAN /\ told \in BOOLEAN
    BY DEF Init
  <2>2. 0 \in 0..MaxFailures
    BY ServeAssumption DEF ServeAssumption
  <2>3. probe \in [graph : Nat, generation : Nat]
    BY DEF Init
  <2> QED BY <1>0, <2>1, <2>2, <2>3 DEF Init, TypeOK
<1>2. CountInv
  BY DEF Init, CountInv, StaleClientsAreTold, ProbeKeepsUp
<1>3. FollowInv
  BY DEF Init, FollowInv, First, Recorded, Followed
<1> QED BY <1>1, <1>2, <1>3 DEF ServeInv

LEMMA TypeStep == TypeOK /\ [Next]_serveVars => TypeOK'
<1> SUFFICES ASSUME TypeOK, [Next]_serveVars PROVE TypeOK'
  OBVIOUS
<1> USE DEF watchVars, sharedVars, publishVars, streamVars, probeVars
<1>1. ASSUME NEW f \in Files, Edit(f) PROVE TypeOK'
  <2>1. tree' \in [Files -> Nat \ {0}]
    <3>1. tree' = [tree EXCEPT ![f] = tree[f] + 1]
      BY <1>1 DEF Edit
    <3>2. tree \in [Files -> Nat \ {0}] /\ tree[f] + 1 \in Nat \ {0}
      BY DEF TypeOK
    <3> QED BY <3>1, <3>2
  <2>2. overlapped' \subseteq Files
    BY <1>1 DEF Edit, TypeOK
  <2>3. UNCHANGED <<watchVars, publishVars, streamVars, probeVars>>
    BY <1>1 DEF Edit
  <2> QED BY <2>1, <2>2, <2>3 DEF TypeOK
<1>2. CASE FirstStamps \/ NoFirstStamps
  BY <1>2, ServeAssumption DEF FirstStamps, NoFirstStamps, Step, TypeOK, ServeAssumption
<1>3. CASE Poll
  BY <1>3 DEF Poll, Step, TypeOK
<1>4. CASE Walk
  <2>1. PICK first \in 0..1, second \in 0..1 :
          /\ failures + first + second <= MaxFailures
          /\ failures' = failures + first + second
          /\ found' = Listed(first)
          /\ Rebuild(second) \/ (second = 0 /\ Patch(first))
          /\ UNCHANGED <<tree, previous, current, stamps, text, sharedVars, streamVars,
                         probeVars>>
    BY <1>4 DEF Walk
  <2>2. failures' \in 0..MaxFailures
    BY <2>1, ServeAssumption DEF TypeOK, ServeAssumption
  <2>3. found' \subseteq Files
    BY <2>1 DEF Listed
  <2>4. fresh' \in [Files -> Nat] /\ toRead' \subseteq Files /\ overlapped' \subseteq Files
    BY <2>1 DEF Rebuild, Patch, Listed, Nothing, TypeOK
  <2>5. watcher' \in {"made", "reading"}
    BY <2>1 DEF Rebuild, Patch, Step
  <2> QED BY <2>1, <2>2, <2>3, <2>4, <2>5 DEF TypeOK
<1>5. ASSUME NEW f \in Files, Read(f) PROVE TypeOK'
  BY <1>5 DEF Read, TypeOK
<1>14. ASSUME NEW f \in Files, ReadFails(f) PROVE TypeOK'
  <2>1. failures' \in 0..MaxFailures
    BY <1>14, ServeAssumption DEF ReadFails, TypeOK, ServeAssumption
  <2>2. fresh' \in [Files -> Nat] /\ toRead' \subseteq Files /\ overlapped' \subseteq Files
    BY <1>14 DEF ReadFails, TypeOK
  <2>3. UNCHANGED <<tree, previous, current, stamps, text, found, watcher, sharedVars,
                    streamVars, probeVars>>
    BY <1>14 DEF ReadFails
  <2> QED BY <2>1, <2>2, <2>3 DEF TypeOK
<1>6. CASE StoreGraph
  BY <1>6 DEF StoreGraph, Step, TypeOK
<1>7. CASE StoreFails
  BY <1>7 DEF StoreFails, Step, TypeOK
<1>8. CASE Republish
  <2>1. CASE StoreState("made", "stored")
    BY <1>8, <2>1 DEF Republish, StoreState, Step, TypeOK
  <2>2. CASE ClearError("stored", "cleared")
    BY <1>8, <2>2 DEF Republish, ClearError, Step, TypeOK
  <2>3. CASE Bump("cleared", "done")
    BY <1>8, <2>3 DEF Republish, Bump, Step, TypeOK
  <2> QED BY <1>8, <2>1, <2>2, <2>3 DEF Republish, Publish
<1>9. CASE AnalysisFails
  <2>1. failures' \in 0..MaxFailures
    BY <1>9, ServeAssumption DEF AnalysisFails, TypeOK, ServeAssumption
  <2>2. failed' \in BOOLEAN
    BY <1>9 DEF AnalysisFails, Fail
  <2>3. watcher' = "done"
    BY <1>9 DEF AnalysisFails, Fail, Step
  <2>4. /\ UNCHANGED <<graph, served, reindexed, fresh>>
        /\ toRead' = {}
        /\ UNCHANGED <<tree, overlapped, previous, current, stamps, text, found,
                       streamVars, probeVars>>
    BY <1>9 DEF AnalysisFails, Fail
  <2> QED BY <2>1, <2>2, <2>3, <2>4 DEF TypeOK
<1>10. CASE Remember
  BY <1>10 DEF Remember, Remembered, Step, TypeOK
<1>11. CASE Connect \/ FirstCount \/ Fetch \/ PollEvent
  <2>1. CASE Connect
    BY <2>1 DEF Connect, TypeOK
  <2>2. CASE FirstCount
    BY <2>2 DEF FirstCount, TypeOK
  <2>3. CASE Fetch
    BY <2>3 DEF Fetch, TypeOK
  <2>4. CASE PollEvent
    BY <2>4 DEF PollEvent, TypeOK
  <2> QED BY <1>11, <2>1, <2>2, <2>3, <2>4
<1>12. CASE Probe
  BY <1>12 DEF Probe, ReadGraph, ReadCounter, TypeOK
<1>13. CASE UNCHANGED serveVars
  BY <1>13 DEF serveVars, TypeOK
<1> QED
  BY <1>1, <1>2, <1>3, <1>4, <1>5, <1>6, <1>7, <1>8, <1>9, <1>10, <1>11, <1>12, <1>13,
     <1>14 DEF Next, WatchThread

LEMMA CountStep == TypeOK /\ CountInv /\ [Next]_serveVars => CountInv'
<1> SUFFICES ASSUME TypeOK, CountInv, [Next]_serveVars PROVE CountInv'
  OBVIOUS
<1> USE DEF TypeOK, CountInv, StaleClientsAreTold, ProbeKeepsUp,
            watchVars, sharedVars, publishVars, streamVars, probeVars
<1>1. ASSUME NEW f \in Files, Edit(f) PROVE CountInv'
  BY <1>1 DEF Edit
<1>2. CASE FirstStamps \/ NoFirstStamps \/ Poll \/ Remember
  BY <1>2 DEF FirstStamps, NoFirstStamps, Poll, Remember, Step
<1>3. CASE Walk
  <2>1. /\ watcher = "batch" /\ watcher' \in {"made", "reading"}
        /\ UNCHANGED <<sharedVars, streamVars, probeVars>>
    BY <1>3 DEF Walk, Rebuild, Patch, Step
  <2> QED BY <2>1
<1>4. ASSUME NEW f \in Files, Read(f) \/ ReadFails(f) PROVE CountInv'
  BY <1>4 DEF Read, ReadFails
<1>5. CASE StoreGraph \/ StoreFails
  BY <1>5 DEF StoreGraph, StoreFails, Step
<1>6. CASE Republish
  BY <1>6 DEF Republish, Publish, StoreState, ClearError, Bump, Step
<1>7. CASE AnalysisFails
  BY <1>7 DEF AnalysisFails, Fail, Step
<1>8. CASE Connect \/ FirstCount \/ Fetch \/ PollEvent
  BY <1>8 DEF Connect, FirstCount, Fetch, PollEvent
<1>9. CASE Probe
  BY <1>9 DEF Probe, ReadGraph, ReadCounter
<1>10. CASE UNCHANGED serveVars
  BY <1>10 DEF serveVars
<1> QED
  BY <1>1, <1>2, <1>3, <1>4, <1>5, <1>6, <1>7, <1>8, <1>9, <1>10 DEF Next, WatchThread

LEMMA FollowStep == TypeOK /\ FollowInv /\ [Next]_serveVars => FollowInv'
<1> SUFFICES ASSUME TypeOK, FollowInv, [Next]_serveVars, NEW g \in Files
             PROVE  /\ previous'[g] <= tree'[g] /\ current'[g] <= tree'[g]
                    /\ g \notin overlapped' => Recorded(g)' /\ Followed(g)'
  BY DEF FollowInv
<1>a. /\ previous[g] <= tree[g] /\ current[g] <= tree[g]
      /\ g \notin overlapped => Recorded(g) /\ Followed(g)
      /\ previous[g] \in Nat /\ current[g] \in Nat /\ tree[g] \in Nat /\ tree[g] # 0
  BY DEF FollowInv, TypeOK
<1> USE <1>a
    DEF Recorded, Followed, watchVars, sharedVars, publishVars, streamVars, probeVars
<1>1. ASSUME NEW f \in Files, Edit(f)
      PROVE  /\ previous'[g] <= tree'[g] /\ current'[g] <= tree'[g]
             /\ g \notin overlapped' => Recorded(g)' /\ Followed(g)'
  <2>1. CASE f = g
    <3>1. /\ tree'[g] = tree[g] + 1
          /\ g \notin overlapped' => g \notin overlapped /\ ~Unseen(g)
      BY <1>1, <2>1 DEF Edit, TypeOK
    <3>2. UNCHANGED <<watchVars, publishVars>>
      BY <1>1 DEF Edit
    <3> QED BY <3>1, <3>2 DEF Unseen
  <2>2. CASE f # g
    BY <1>1, <2>2 DEF Edit, Unseen, TypeOK
  <2> QED BY <2>1, <2>2
<1>2. CASE FirstStamps \/ NoFirstStamps
  BY <1>2 DEF FirstStamps, NoFirstStamps, Step
<1>3. CASE Poll
  BY <1>3 DEF Poll, Step
<1>4. CASE Walk
  <2>1. PICK first \in 0..1, second \in 0..1 :
          /\ found' = Listed(first)
          /\ Rebuild(second) \/ Patch(first)
          /\ UNCHANGED <<tree, previous, current, stamps, text, sharedVars, streamVars,
                         probeVars>>
    BY <1>4 DEF Walk
  <2>2. CASE Rebuild(second)
    BY <2>1, <2>2 DEF Rebuild, Listed, Step
  <2>3. CASE Patch(first)
    <3>1. CASE first = 0
      BY <2>1, <2>3, <3>1 DEF Patch, Listed, Step
    <3>2. CASE first = 1
      BY <2>1, <2>3, <3>2 DEF Patch, Listed, Step
    <3> QED BY <3>1, <3>2
  <2> QED BY <2>1, <2>2, <2>3
<1>5. ASSUME NEW f \in Files, Read(f)
      PROVE  /\ previous'[g] <= tree'[g] /\ current'[g] <= tree'[g]
             /\ g \notin overlapped' => Recorded(g)' /\ Followed(g)'
  BY <1>5 DEF Read, TypeOK
<1>13. ASSUME NEW f \in Files, ReadFails(f)
       PROVE  /\ previous'[g] <= tree'[g] /\ current'[g] <= tree'[g]
              /\ g \notin overlapped' => Recorded(g)' /\ Followed(g)'
  BY <1>13 DEF ReadFails, TypeOK
<1>6. CASE StoreGraph
  BY <1>6 DEF StoreGraph, Step
<1>7. CASE StoreFails
  BY <1>7 DEF StoreFails, Step
<1>8. CASE Republish
  BY <1>8 DEF Republish, Publish, StoreState, ClearError, Bump, Step
<1>9. CASE AnalysisFails
  BY <1>9 DEF AnalysisFails, Fail, Step
<1>10. CASE Remember
  BY <1>10 DEF Remember, Remembered, Step
<1>11. CASE Connect \/ FirstCount \/ Fetch \/ PollEvent \/ Probe
  BY <1>11 DEF Connect, FirstCount, Fetch, PollEvent, Probe, ReadGraph, ReadCounter
<1>12. CASE UNCHANGED serveVars
  BY <1>12 DEF serveVars
<1> QED
  BY <1>1, <1>2, <1>3, <1>4, <1>5, <1>6, <1>7, <1>8, <1>9, <1>10, <1>11, <1>12, <1>13
     DEF Next, WatchThread

LEMMA ServeInvariant == Spec => []ServeInv
<1>1. ServeInv /\ [Next]_serveVars => ServeInv'
  BY TypeStep, CountStep, FollowStep DEF ServeInv
<1> QED BY ServeInitInv, <1>1, PTL DEF Spec

\* At rest, whatever was edited, read, stored, or failed in whatever order, a
\* file that is served out of date was changed unseen, passed over by a walk or
\* a read that failed, or the failure shows (run_serve and watcher::watch).
THEOREM StaleExplained == Spec => []StaleIsExplained
<1>1. ServeInv => StaleIsExplained
  BY DEF ServeInv, FollowInv, Followed, StaleIsExplained, AtRest
<1> QED BY ServeInvariant, <1>1, PTL

\* The graph is published before the counter rises, so a client that the stream
\* has not told holds the graph announced last (stream_events).
THEOREM StaleClientsTold == Spec => []StaleClientsAreTold
<1>1. ServeInv => StaleClientsAreTold
  BY DEF ServeInv, CountInv
<1> QED BY ServeInvariant, <1>1, PTL

\* A probe that reads the graph and then the counter is at most one behind.
THEOREM ProbesKeepUp == Spec => []ProbeKeepsUp
<1>1. ServeInv => ProbeKeepsUp
  BY DEF ServeInv, CountInv
<1> QED BY ServeInvariant, <1>1, PTL
=============================================================================
