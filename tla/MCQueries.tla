----------------------------- MODULE MCQueries -----------------------------
(* The questions on small graphs, one question in a behaviour.             *)
EXTENDS ShortestPath, Impact, Expand, Cycles, FiniteSetsExt

CONSTANT MaxEdges \* bound: edges of a graph

VARIABLE question

\* Three definitions in three files, and a placeholder.
MCNodes == 1..4
MCDefined == 1..3
MCFileOf == [n \in MCDefined |-> n]
MCRoutes == {<<3, 2>>}
MCDispatches == {<<2, 3>>}
MCUses == {<<1, 3>>}
MCDocuments == {}
MCMembers == [n \in MCNodes |-> IF n = 2 THEN {1} ELSE {}]
\* The last is over the threshold.
MCSeedCosts == [n \in {1, 2, 3} |-> CASE n = 1 -> 0 [] n = 2 -> 2 [] n = 3 -> 5]

MCInit ==
  /\ \E k \in 0..MaxEdges : edges \in kSubset(k, {e \in Edges : e.source # e.target})
  /\ floor \in Confidences
  /\ PathInit /\ ImpactInit /\ ExpandInit /\ CyclesInit
  /\ question \in {"path", "impact", "expand", "cycles"}
  /\ question # "impact" => changed = 1
  /\ question # "cycles" => searcher = "guard"
  /\ question = "expand" => floor = Ambiguous

MCNext ==
  /\ UNCHANGED question
  /\ \/ question = "path" /\ PathNext /\ UNCHANGED <<impactVars, expandVars, cyclesVars>>
     \/ question = "impact" /\ ImpactNext /\ UNCHANGED <<pathVars, expandVars, cyclesVars>>
     \/ question = "expand" /\ ExpandNext /\ UNCHANGED <<pathVars, impactVars, cyclesVars>>
     \/ question = "cycles" /\ CyclesNext /\ UNCHANGED <<pathVars, impactVars, expandVars>>

MCSpec == MCInit /\ [][MCNext]_<<asked, pathVars, impactVars, expandVars, cyclesVars, question>>
=============================================================================
