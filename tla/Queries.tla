------------------------------ MODULE Queries ------------------------------
(***************************************************************************)
(* What a question about the graph reads: one published snapshot, which    *)
(* never changes while the question is answered.  ShortestPath, Impact,    *)
(* Expand and Cycles are the questions.                                    *)
(*                                                                         *)
(* A confidence is a number: Ambiguous is 1, the strongest is the highest. *)
(***************************************************************************)
EXTENDS Naturals, FiniteSets

CONSTANTS Nodes,     \* node ids, in the order that breaks ties
          Strongest, \* the highest confidence
          Defined    \* Served::defined, the rest are placeholders

ASSUME QueriesAssumption ==
  /\ Nodes \subseteq Nat /\ IsFiniteSet(Nodes)
  /\ Strongest \in Nat \ {0}
  /\ Defined \subseteq Nodes

Ambiguous == 1
Confidences == Ambiguous..Strongest
Edges == [source : Nodes, target : Nodes, confidence : Confidences]

VARIABLES edges, \* of the snapshot; two may join the same nodes
          floor  \* min_confidence of the question

asked == <<edges, floor>>

\* The edges a question may walk.
Walkable == {e \in edges : e.confidence >= floor}

AskedTypeOK == edges \subseteq Edges /\ floor \in Confidences
=============================================================================
