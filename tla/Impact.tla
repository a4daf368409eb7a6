------------------------------- MODULE Impact -------------------------------
(***************************************************************************)
(* impact and reverse_levels of src/mcp.rs: who is affected by a change,   *)
(* swept backwards one hop at a time from all the changed symbols at once. *)
(* One action is one iteration of the loop over the hops.  Which of        *)
(* several edges gives a caller its confidence is left out.                *)
(***************************************************************************)
EXTENDS Queries, Sequences

CONSTANTS Depth,      \* hops asked for
          Routes,     \* <<from, to>>: by_route, a request that reaches a handler
          Dispatches, \* by_dispatch, an indirect call
          Uses,       \* by_target, a use by name
          Documents,  \* is_documentation
          Members     \* by node: the definitions inside it

ASSUME ImpactAssumption ==
  /\ Depth \in Nat \ {0}
  /\ Routes \cup Dispatches \cup Uses \subseteq Nodes \X Nodes
  /\ Documents \subseteq Nodes
  /\ Members \in [Nodes -> SUBSET Nodes]

VARIABLES changed,   \* the symbol asked about
          seeds,     \* what the sweep began with
          affected,  \* seen
          frontier,
          levels,
          impactAt

impactVars == <<changed, seeds, affected, frontier, levels, impactAt>>

SweepFrom(nodes) ==
  /\ seeds' = nodes
  /\ affected' = nodes
  /\ frontier' = nodes
  /\ levels' = <<>>

ImpactInit ==
  /\ changed \in Nodes
  /\ seeds = {changed}
  /\ affected = seeds
  /\ frontier = seeds
  /\ levels = <<>>
  /\ impactAt = "sweeping"

Into(pairs, n) == {p[1] : p \in {q \in pairs : q[2] = n}}
CallSites(n) == {e.source : e \in {f \in Walkable : f.target = n}}

\* direct_callers_with: a call through a placeholder is a call of whoever calls
\* the placeholder; what is matched by name or path alone is ambiguous.
DirectCallers(n, uses) ==
  LET placeholders == CallSites(n) \ Defined
      through == (UNION {CallSites(p) : p \in placeholders}) \ {n}
      matched == IF floor > Ambiguous THEN {}
                 ELSE Into(Routes, n) \cup Into(Dispatches, n)
                      \cup (IF uses THEN Into(Uses, n) ELSE {})
  IN ((CallSites(n) \cap Defined) \cup through \cup matched) \ Documents

Callers(nodes, hop) == UNION {DirectCallers(n, hop = 0) : n \in nodes}

\* Faulty variant: only the level before this one is remembered.
SweepForgetting ==
  /\ impactAt = "sweeping"
  /\ LET next == Callers(frontier, Len(levels)) \ frontier IN
       /\ Len(levels) < Depth /\ next # {}
       /\ levels' = Append(levels, next)
       /\ frontier' = next
       /\ affected' = affected \cup next
  /\ UNCHANGED <<changed, seeds, impactAt>>

Sweep ==
  /\ impactAt = "sweeping"
  /\ LET next == Callers(frontier, Len(levels)) \ affected IN
       /\ Len(levels) < Depth /\ next # {}
       /\ levels' = Append(levels, next)
       /\ frontier' = next
       /\ affected' = affected \cup next
  /\ UNCHANGED <<changed, seeds, impactAt>>

SweepEnds ==
  impactAt = "sweeping"
  /\ (Len(levels) = Depth \/ Callers(frontier, Len(levels)) \subseteq affected)

\* Nothing names the symbol: once more, with the definitions inside it.
SweepMembers ==
  /\ SweepEnds /\ levels = <<>> /\ seeds = {changed} /\ Members[changed] # {}
  /\ SweepFrom({changed} \cup Members[changed])
  /\ UNCHANGED <<changed, impactAt>>

AnswerImpact ==
  /\ SweepEnds
  /\ levels # <<>> \/ seeds # {changed} \/ Members[changed] = {}
  /\ impactAt' = "answered"
  /\ UNCHANGED <<changed, seeds, affected, frontier, levels>>

ImpactNext == (Sweep \/ SweepMembers \/ AnswerImpact) /\ UNCHANGED asked

ImpactSpec == AskedTypeOK /\ ImpactInit /\ [][ImpactNext]_<<asked, impactVars>>

-----------------------------------------------------------------------------
\* n reaches a seed by k calls, the last of which may be a use by name.
Reaches(n, k) ==
  \E w \in [0..k -> Nodes] :
    /\ w[0] \in seeds /\ w[k] = n
    /\ \A i \in 1..k : w[i] \in DirectCallers(w[i-1], i = 1)

\* Every symbol that reaches the change in as many hops as were asked for is
\* listed once, under the fewest hops it takes, and no other is
\* (reverse_levels, mcp.rs:2807).
LevelsAreDistances ==
  impactAt = "answered" =>
    \A n \in Nodes \ seeds, k \in 1..Depth :
      (k \in DOMAIN levels /\ n \in levels[k])
        <=> (Reaches(n, k) /\ \A j \in 1..(k-1) : ~Reaches(n, j))
=============================================================================
