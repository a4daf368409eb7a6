---------------------------- MODULE ShortestPath ----------------------------
(***************************************************************************)
(* shortest_path of src/mcp.rs: a breadth-first search that remembers by   *)
(* which edge it first saw a node, and the walk back from the goal.  One   *)
(* action is one iteration of a loop of the code.                          *)
(***************************************************************************)
EXTENDS Queries, Sequences

CONSTANTS From, To

ASSUME PathAssumption == From \in Nodes /\ To \in Nodes

VARIABLES queue,  \* nodes seen and not yet visited
          seen,
          prev,   \* by node: the edge it was first seen by, or Unreached
          chain,  \* the way back, first node first
          pathAt

pathVars == <<queue, seen, prev, chain, pathAt>>

Unreached == [source |-> From, confidence |-> 0]

PathInit ==
  /\ queue = <<From>>
  /\ seen = {From}
  /\ prev = [n \in Nodes |-> Unreached]
  /\ chain = <<>>
  /\ pathAt = "searching"

\* Faulty variant: whether they have been seen or not.
Targets(n) == {e.target : e \in {f \in Walkable : f.source = n}}

\* The nodes an edge of n leads to that nobody has seen, and the best such edge.
Fresh(n) == {e.target : e \in {f \in Walkable : f.source = n}} \ seen
Provenance(n, t) ==
  CHOOSE c \in {e.confidence : e \in {f \in Walkable : f.source = n /\ f.target = t}} :
    \A e \in Walkable : e.source = n /\ e.target = t => e.confidence <= c

\* edges.sort_by: the strongest provenance first, node ids break ties.
Sooner(n, t, u) ==
  \/ Provenance(n, t) > Provenance(n, u)
  \/ Provenance(n, t) = Provenance(n, u) /\ t < u
Sorted(n, order) ==
  \A i, j \in DOMAIN order : i < j => Sooner(n, order[i], order[j])

Searching == pathAt = "searching" /\ queue # <<>> /\ Head(queue) # To

Visit ==
  /\ Searching
  /\ LET n == Head(queue) IN
       /\ \E order \in [1..Cardinality(Fresh(n)) -> Fresh(n)] :
            Sorted(n, order) /\ queue' = Tail(queue) \o order
       /\ seen' = seen \cup Fresh(n)
       /\ prev' = [t \in Nodes |->
                    IF t \in Fresh(n)
                    THEN [source |-> n, confidence |-> Provenance(n, t)]
                    ELSE prev[t]]
  /\ UNCHANGED <<chain, pathAt>>

\* The search ends at the goal, or with nothing left; without a way to the
\* goal the answer is a refusal.
EndSearch ==
  /\ pathAt = "searching" /\ ~Searching
  /\ IF To # From /\ prev[To] = Unreached
     THEN pathAt' = "refused" /\ chain' = chain
     ELSE pathAt' = "following" /\ chain' = <<To>>
  /\ UNCHANGED <<queue, seen, prev>>

Follow ==
  /\ pathAt = "following" /\ prev[Head(chain)] # Unreached
  /\ chain' = <<prev[Head(chain)].source>> \o chain
  /\ UNCHANGED <<queue, seen, prev, pathAt>>

AnswerPath ==
  /\ pathAt = "following" /\ prev[Head(chain)] = Unreached
  /\ pathAt' = "answered"
  /\ UNCHANGED <<queue, seen, prev, chain>>

PathNext == (Visit \/ EndSearch \/ Follow \/ AnswerPath) /\ UNCHANGED asked

PathSpec == AskedTypeOK /\ PathInit /\ [][PathNext]_<<asked, pathVars>>

-----------------------------------------------------------------------------
\* A walk of k edges the question may use, from From to n.
Walks(k, n) ==
  {w \in [0..k -> Nodes] :
     /\ w[0] = From /\ w[k] = n
     /\ \A i \in 1..k : \E e \in Walkable : e.source = w[i-1] /\ e.target = w[i]}

\* The answer is a walk from one symbol to the other over edges of at least
\* the confidence asked for, no walk is shorter, and a refusal means that
\* there is none (mcp.rs:1325, 1359, 1375).
PathIsShortest ==
  /\ pathAt = "answered" =>
       /\ [i \in 0..(Len(chain)-1) |-> chain[i+1]] \in Walks(Len(chain)-1, To)
       /\ \A k \in 0..(Len(chain)-2) : Walks(k, To) = {}
  /\ pathAt = "refused" =>
       \A k \in 0..(Cardinality(Nodes)-1) : Walks(k, To) = {}
=============================================================================
