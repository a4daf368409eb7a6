------------------------------- MODULE Expand -------------------------------
(***************************************************************************)
(* expand of src/physics.rs: the symbols worth reading around the seeds of *)
(* a question, best first.  One action takes a candidate from the heap or  *)
(* follows one of its edges.                                               *)
(*                                                                         *)
(* A score is a product of factors of at most one.  Here it is the sum of  *)
(* their logarithms with the sign turned: a cost, where less is better.    *)
(* The factors of an edge are taken together as Cost; rounding, and the    *)
(* age and the source of an edge beside its confidence, are left out.      *)
(***************************************************************************)
EXTENDS Queries

CONSTANTS SeedCosts, \* by seed: the cost of its weight
          Penalty,   \* of Physics::foreign_penalty
          MaxCost,   \* of Physics::threshold
          MaxHops,   \* Physics::max_hops
          MaxNodes   \* Physics::max_nodes

Seeds == DOMAIN SeedCosts

ASSUME ExpandAssumption ==
  /\ Seeds \subseteq Nodes /\ SeedCosts \in [Seeds -> Nat]
  /\ {Penalty, MaxCost, MaxHops, MaxNodes} \subseteq Nat

VARIABLES best,    \* by node reached: Scored
          heap,    \* the candidates, at the cost of the path alone
          current, \* the candidate whose edges are being followed
          rest,    \* of its edges
          kept,    \* the answer
          expandAt

expandVars == <<best, heap, current, rest, kept, expandAt>>

\* One hop along the edge: authority times hop_decay.
Cost(e) == 1 + Strongest - e.confidence

Ranked(n, path) == IF n \in Defined THEN path ELSE path + Penalty

ExpandInit ==
  /\ best = [s \in Seeds |-> [cost |-> Ranked(s, SeedCosts[s]), hops |-> 0]]
  /\ heap = {[cost |-> SeedCosts[s], node |-> s, hops |-> 0] : s \in Seeds}
  /\ current = [cost |-> 0, node |-> 0, hops |-> 0]
  /\ rest = {}
  /\ kept = {}
  /\ expandAt = "popping"

\* Candidate::cmp; candidates that compare equal come in either order.
BestCandidates ==
  {c \in heap : \A d \in heap : c.cost < d.cost \/ (c.cost = d.cost /\ c.node <= d.node)}

\* "A better path to this node was already processed", or the hops are used up.
Spent(c) == best[c.node].cost < c.cost \/ c.hops >= MaxHops

Pop ==
  /\ expandAt = "popping"
  /\ \E c \in BestCandidates :
       /\ heap' = heap \ {c}
       /\ IF Spent(c)
          THEN UNCHANGED <<current, rest, expandAt>>
          ELSE /\ current' = c
               /\ rest' = {e \in edges : e.source = c.node}
               /\ expandAt' = "following"
  /\ UNCHANGED <<best, kept>>

\* The branch is cut only when neither the path nor the node passes.
Within(path, cost) == path <= MaxCost \/ cost <= MaxCost

\* Faulty variant: the first path to a node is taken for the best.
ImprovesNever(n, cost) == n \notin DOMAIN best

Improves(n, cost) == n \notin DOMAIN best \/ cost < best[n].cost

FollowEdge ==
  /\ expandAt = "following"
  /\ \E e \in rest :
       LET path == current.cost + Cost(e)
           cost == Ranked(e.target, path)
           hops == current.hops + 1
       IN /\ rest' = rest \ {e}
          /\ IF Within(path, cost) /\ Improves(e.target, cost)
             THEN /\ best' = [n \in DOMAIN best \cup {e.target} |->
                               IF n = e.target THEN [cost |-> cost, hops |-> hops]
                               ELSE best[n]]
                  /\ heap' = heap \cup
                       {[cost |-> path, node |-> e.target, hops |-> hops]}
             ELSE UNCHANGED <<best, heap>>
  /\ UNCHANGED <<current, kept, expandAt>>

Followed ==
  /\ expandAt = "following" /\ rest = {}
  /\ expandAt' = "popping"
  /\ UNCHANGED <<best, heap, current, rest, kept>>

\* out.sort_by: the best score first, node ids break ties.
Ahead(m, n) ==
  best[m].cost < best[n].cost \/ (best[m].cost = best[n].cost /\ m < n)

Rank ==
  /\ expandAt = "popping" /\ heap = {}
  /\ kept' = {n \in DOMAIN best :
               Cardinality({m \in DOMAIN best : Ahead(m, n)}) < MaxNodes}
  /\ expandAt' = "answered"
  /\ UNCHANGED <<best, heap, current, rest>>

ExpandNext == (Pop \/ FollowEdge \/ Followed \/ Rank) /\ UNCHANGED asked

ExpandSpec == AskedTypeOK /\ ExpandInit /\ [][ExpandNext]_<<asked, expandVars>>

-----------------------------------------------------------------------------
\* The paths of k edges from s to n; At is where one is after i of them.
At(s, path, i) == IF i = 0 THEN s ELSE path[i].target

Paths(s, n, k) ==
  {w \in [1..k -> edges] : /\ \A i \in 1..k : w[i].source = At(s, w, i-1)
                          /\ At(s, w, k) = n}

\* The sum of Cost(path[i]) over the edges of a path.
Length(path) ==
  Cardinality({u \in (DOMAIN path) \X (1..Strongest) : u[2] <= Cost(path[u[1]])})

PathCost(s, path) == SeedCosts[s] + Length(path)

\* A path of every hop allowed reaches n for no more than c: n may be left at it.
HeldUp(n, c) == \E s \in Seeds : \E w \in Paths(s, n, MaxHops) : PathCost(s, w) <= c

\* No node that the path goes on from is held up on the way.
Unhindered(s, path) ==
  \A i \in DOMAIN path :
     ~HeldUp(path[i].source, PathCost(s, [j \in 1..(i-1) |-> path[j]]))

\* A seed, or a path above the threshold.
Counts(path, cost) == DOMAIN path = {} \/ cost <= MaxCost

\* However few the hops allowed: a node's score is that of a real path above the
\* threshold within those hops, or the seed's own; a node with such a path has at
\* least its score, whichever path was found first and through foreign nodes too,
\* unless a node on the way was reached as cheaply by a path that used up the
\* hops; and the answer is the best of the nodes (physics.rs:129-137, 179-186).
KeptAreTheBest ==
  expandAt = "answered" =>
    /\ \A n \in DOMAIN best : \E s \in Seeds, k \in 0..MaxHops : \E w \in Paths(s, n, k) :
         /\ Counts(w, PathCost(s, w))
         /\ best[n] = [cost |-> Ranked(n, PathCost(s, w)), hops |-> k]
    /\ \A n \in Nodes, s \in Seeds, k \in 0..MaxHops : \A w \in Paths(s, n, k) :
         Counts(w, PathCost(s, w)) /\ Unhindered(s, w) =>
           n \in DOMAIN best /\ best[n].cost <= Ranked(n, PathCost(s, w))
    /\ kept = {n \in DOMAIN best : Cardinality({m \in DOMAIN best : Ahead(m, n)}) < MaxNodes}

\* "A node keeps its best score if reached by several paths" (physics.rs:135): no
\* path of the hops allowed gives a node that was reached a better one.
BestScoreIsKept ==
  expandAt = "answered" =>
    \A n \in DOMAIN best, s \in Seeds, k \in 0..MaxHops : \A w \in Paths(s, n, k) :
      Counts(w, PathCost(s, w)) => best[n].cost <= Ranked(n, PathCost(s, w))

\* "Every node reached during expansion carries a score, and anything below the
\* threshold is dropped" (physics.rs:5-7, 36): no node reached by an edge is kept
\* below it, a foreign one either.
BelowIsDropped ==
  expandAt = "answered" => \A n \in kept : best[n].hops > 0 => best[n].cost <= MaxCost
=============================================================================
