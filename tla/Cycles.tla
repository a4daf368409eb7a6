------------------------------- MODULE Cycles -------------------------------
(***************************************************************************)
(* The search for dependency cycles between files: cycles and walk of      *)
(* src/mcp.rs, which list them up to a length and a number, and            *)
(* first_cycle and dfs of src/guard.rs, which stop at the first.  The two  *)
(* searches are the same walk but for where they test the length.  One     *)
(* action is one iteration of the loop over the neighbours.                *)
(***************************************************************************)
EXTENDS Queries, Integers, Sequences, SequencesExt

CONSTANTS FileOf,  \* by defined node: the number of its file
          MaxFiles,\* max_len of cycles, the depth of first_cycle
          Limit    \* of cycles to list

Files == {FileOf[n] : n \in Defined}

ASSUME CyclesAssumption ==
  /\ FileOf \in [Defined -> Nat]
  /\ MaxFiles \in Nat /\ MaxFiles >= 2
  /\ Limit \in Nat \ {0}

VARIABLES searcher, \* "cycles" or "guard"
          stack,    \* the files walked, the start first
          tried,    \* by place on the stack: the last neighbour looked at
          found,
          cyclesAt

cyclesVars == <<searcher, stack, tried, found, cyclesAt>>

\* file_graph: a placeholder stands for the file it resolves to, if that is one.
StandsFor(n) ==
  IF n \in Defined THEN {FileOf[n]}
  ELSE LET targets == {FileOf[e.target] : e \in {f \in edges : f.source = n /\ f.target \in Defined}}
       IN IF Cardinality(targets) = 1 THEN targets ELSE {}

Adjacent(f) ==
  (UNION {StandsFor(e.target) : e \in {x \in Walkable : x.source \in Defined /\ FileOf[x.source] = f}})
    \ {f}

First(files) == CHOOSE f \in files : \A g \in files : f <= g

CyclesInit ==
  /\ searcher \in {"cycles", "guard"}
  /\ stack = <<First(Files)>>
  /\ tried = <<-1>>
  /\ found = <<>>
  /\ cyclesAt = "walking"

Start == stack[1]
Untried == {f \in Adjacent(Last(stack)) : f > Last(tried)}

Wanted == IF searcher = "guard" THEN 1 ELSE Limit

\* dfs gives up on a stack that has grown too long before it looks at anything.
TooDeep == searcher = "guard" /\ Len(stack) > MaxFiles

Walking == cyclesAt = "walking" /\ Len(found) < Wanted

LookAt(f) == tried' = Append(Front(tried), f)

CloseCycle ==
  /\ Walking /\ ~TooDeep /\ Untried # {}
  /\ First(Untried) = Start
  /\ LookAt(Start)
  /\ found' = Append(found, stack)
  /\ UNCHANGED <<searcher, stack, cyclesAt>>

InStack(f) == f \in {stack[i] : i \in DOMAIN stack}

\* Faulty variant: the test comes one file early.
PassableEarly(f) ==
  /\ f > Start /\ ~InStack(f)
  /\ searcher = "cycles" => Len(stack) < MaxFiles - 1

\* walk tests the bound on the descent, after the way back to the start.
Passable(f) ==
  /\ f > Start /\ ~InStack(f)
  /\ searcher = "cycles" => Len(stack) < MaxFiles

SkipFile ==
  /\ Walking /\ ~TooDeep /\ Untried # {}
  /\ First(Untried) # Start /\ ~Passable(First(Untried))
  /\ LookAt(First(Untried))
  /\ UNCHANGED <<searcher, stack, found, cyclesAt>>

Descend ==
  /\ Walking /\ ~TooDeep /\ Untried # {}
  /\ First(Untried) # Start /\ Passable(First(Untried))
  /\ stack' = Append(stack, First(Untried))
  /\ tried' = Append(Append(Front(tried), First(Untried)), -1)
  /\ UNCHANGED <<searcher, found, cyclesAt>>

GoBack ==
  /\ Walking /\ Len(stack) > 1
  /\ TooDeep \/ Untried = {}
  /\ stack' = Front(stack)
  /\ tried' = Front(tried)
  /\ UNCHANGED <<searcher, found, cyclesAt>>

NextStart ==
  /\ Walking /\ Len(stack) = 1 /\ Untried = {}
  /\ \E f \in Files : f > Start
  /\ stack' = <<First({f \in Files : f > Start})>>
  /\ tried' = <<-1>>
  /\ UNCHANGED <<searcher, found, cyclesAt>>

AnswerCycles ==
  /\ cyclesAt = "walking"
  /\ ~Walking \/ (Len(stack) = 1 /\ Untried = {} /\ \A f \in Files : f <= Start)
  /\ cyclesAt' = "answered"
  /\ UNCHANGED <<searcher, stack, tried, found>>

CyclesNext ==
  /\ CloseCycle \/ SkipFile \/ Descend \/ GoBack \/ NextStart \/ AnswerCycles
  /\ UNCHANGED asked

CyclesSpec == AskedTypeOK /\ CyclesInit /\ [][CyclesNext]_<<asked, cyclesVars>>

-----------------------------------------------------------------------------
\* A call from f to g: to a definition in g, or by a name that can only mean
\* definitions in g.
DependsOn(f, g) ==
  /\ f # g
  /\ \E e \in Walkable :
       /\ e.source \in Defined /\ FileOf[e.source] = f
       /\ LET meant == IF e.target \in Defined THEN {e.target}
                       ELSE {x.target : x \in {y \in edges : y.source = e.target}} \cap Defined
          IN meant # {} /\ \A t \in meant : FileOf[t] = g

\* A cycle, named by its lowest file.
IsCycle(c) ==
  /\ \A i, j \in DOMAIN c : i # j => c[i] # c[j]
  /\ \A i \in DOMAIN c : c[1] <= c[i]
  /\ \A i \in 1..(Len(c)-1) : DependsOn(c[i], c[i+1])
  /\ DependsOn(c[Len(c)], c[1])

AllCycles == {c \in UNION {[1..k -> Files] : k \in 2..MaxFiles} : IsCycle(c)}

\* Every cycle found is one and is found once; unless the limit cut the list
\* short, none of a length within the bound is missing; the guard passes a tree
\* only if it has none (mcp.rs:4357, 4472-4476, guard.rs:255).
CyclesAreFound ==
  /\ \A i, j \in DOMAIN found : found[i] \in AllCycles /\ (i # j => found[i] # found[j])
  /\ cyclesAt = "answered" /\ Len(found) < Wanted =>
       AllCycles = {found[i] : i \in DOMAIN found}
=============================================================================
