--------------------------- MODULE QueriesProofs ---------------------------
(***************************************************************************)
(* Proofs about the questions a graph answers: the path found is shortest, *)
(* the levels of an impact are the distances, the symbols kept are those   *)
(* of the best paths, the cycles listed are those there are.               *)
(***************************************************************************)
EXTENDS ShortestPath, Impact, Expand, Cycles, FiniteSetTheorems, SequenceTheorems, TLAPS

\* A set of numbers has a least one.
LEMMA LeastNumber ==
  ASSUME NEW S \in SUBSET Nat, S # {}
  PROVE  \E n \in S : \A m \in S : n <= m
<1> DEFINE R == OpToRel(<, Nat)
<1>1. \A x, y \in Nat : <<x, y>> \in R <=> x < y
  BY DEF OpToRel
<1>2. IsWellFoundedOn(R, Nat)
  BY NatLessThanWellFounded
<1> HIDE DEF R
<1>3. PICK n \in S : \A m \in S : ~(<<m, n>> \in R)
  BY <1>2, WFMin
<1>4. \A m \in S : m \in Nat /\ n \in Nat /\ ~(m < n)
  BY <1>1, <1>3
<1> QED BY <1>4

-----------------------------------------------------------------------------
(* ShortestPath                                                            *)

\* An edge the question may walk.
Arc(m, n) == \E e \in Walkable : e.source = m /\ e.target = n

PathTypeOK ==
  /\ AskedTypeOK
  /\ queue \in Seq(Nodes) /\ seen \in SUBSET Nodes
  /\ prev \in [Nodes -> [source : Nodes, confidence : Nat]]
  /\ pathAt \in {"searching", "following", "refused", "answered"}

\* prev is a tree over what was seen, in which d is the depth.
Tree(d) ==
  /\ From \in seen /\ d[From] = 0 /\ prev[From] = Unreached
  /\ \A n \in seen \ {From} :
       LET p == prev[n].source
       IN  p \in seen /\ Arc(p, n) /\ d[n] = d[p] + 1 /\ prev[n].confidence # 0
  /\ \A n \in Nodes \ seen : prev[n] = Unreached

Queued(n) == \E i \in 1..Len(queue) : queue[i] = n

\* The queue is sorted by depth and spans two depths at most; what was visited
\* is no deeper than its head, and an edge leads from it one deeper at most.
Layered(d) ==
  /\ \A i \in 1..Len(queue) : queue[i] \in seen
  /\ \A i, j \in 1..Len(queue) : i <= j => d[queue[i]] <= d[queue[j]]
  /\ \A i \in 1..Len(queue) : d[queue[i]] <= d[queue[1]] + 1
  /\ \A n \in seen : ~Queued(n) =>
       /\ queue # <<>> => d[n] <= d[queue[1]]
       /\ \A t \in Nodes : Arc(n, t) => t \in seen /\ d[t] <= d[n] + 1

\* No walk to the goal is shorter than its depth.
Shortest(d) == To \in seen /\ \A k \in Nat : Walks(k, To) # {} => d[To] <= k

\* What was followed leads to the goal, and is as long as the depths say.
Leads(d) ==
  /\ chain \in Seq(Nodes) /\ chain # <<>>
  /\ chain[Len(chain)] = To
  /\ chain[1] \in seen
  /\ \A i \in 1..(Len(chain)-1) : Arc(chain[i], chain[i+1])
  /\ d[chain[1]] + Len(chain) = d[To] + 1

PathFound(d) ==
  /\ Tree(d)
  /\ pathAt = "searching" => Layered(d)
  /\ pathAt \in {"following", "answered"} => Shortest(d) /\ Leads(d)

PathInv ==
  /\ PathTypeOK
  /\ \E d \in [Nodes -> Nat] : PathFound(d)
  /\ pathAt = "answered" => chain[1] = From
  /\ pathAt = "refused" => \A k \in Nat : Walks(k, To) = {}

-----------------------------------------------------------------------------
\* However a walk begins, it is within what was visited or crosses the queue.
LEMMA WalksCrossTheQueue ==
  ASSUME PathTypeOK, NEW d \in [Nodes -> Nat], Tree(d), Layered(d),
         NEW k \in Nat, NEW n, NEW w \in Walks(k, n)
  PROVE  \/ n \in seen /\ d[n] <= k
         \/ \E i \in 1..Len(queue) : d[queue[i]] <= k
<1> DEFINE Inside(i) == \/ w[i] \in seen /\ d[w[i]] <= i
                        \/ \E j \in 1..Len(queue) : d[queue[j]] <= i
           Bad == {i \in 0..k : ~Inside(i)}
<1>1. /\ w \in [0..k -> Nodes] /\ w[0] = From /\ w[k] = n
      /\ \A i \in 1..k : Arc(w[i-1], w[i])
  BY DEF Walks, Arc
<1>2. SUFFICES Bad = {}
  BY <1>1
<1>3. SUFFICES ASSUME Bad # {} PROVE FALSE
  OBVIOUS
<1>4. PICK i \in Bad : \A j \in Bad : i <= j
  <2>1. Bad \in SUBSET Nat
    OBVIOUS
  <2> HIDE DEF Bad
  <2> QED BY <1>3, <2>1, LeastNumber
<1>5. i # 0
  BY <1>1, <1>4 DEF Tree
<1>6. i - 1 \in 0..k /\ i \in 1..k /\ i - 1 \in Nat /\ (i - 1) + 1 = i
  BY <1>4, <1>5
<1>7. Inside(i - 1)
  BY <1>4, <1>6
<1> DEFINE m == w[i-1]
<1>8. m \in Nodes /\ w[i] \in Nodes /\ Arc(m, w[i])
  BY <1>1, <1>6
<1>9. d[m] \in Nat /\ d[w[i]] \in Nat
  BY <1>8
<1>10. CASE m \in seen /\ d[m] <= i - 1 /\ ~Queued(m)
  <2>1. w[i] \in seen /\ d[w[i]] <= d[m] + 1
    BY <1>8, <1>10 DEF Layered
  <2>2. d[w[i]] <= i
    BY <1>6, <1>9, <1>10, <2>1
  <2> QED BY <1>4, <2>1, <2>2
<1>11. CASE m \in seen /\ d[m] <= i - 1 /\ Queued(m)
  <2>1. PICK j \in 1..Len(queue) : queue[j] = m
    BY <1>11 DEF Queued
  <2>2. d[queue[j]] <= i
    BY <1>6, <1>9, <1>11, <2>1
  <2> QED BY <1>4, <2>2
<1>12. CASE \E j \in 1..Len(queue) : d[queue[j]] <= i - 1
  <2>1. PICK j \in 1..Len(queue) : d[queue[j]] <= i - 1
    BY <1>12
  <2>2. d[queue[j]] \in Nat
    BY <2>1 DEF PathTypeOK
  <2>3. d[queue[j]] <= i
    BY <1>6, <2>1, <2>2
  <2> QED BY <1>4, <2>3
<1> QED BY <1>7, <1>10, <1>11, <1>12

LEMMA StoppedSearch ==
  ASSUME PathTypeOK, NEW d \in [Nodes -> Nat], Tree(d), Layered(d),
         queue = <<>> \/ Head(queue) = To,
         NEW k \in Nat, Walks(k, To) # {}
  PROVE  To \in seen /\ d[To] <= k
<1>1. PICK w : w \in Walks(k, To)
  OBVIOUS
<1>2. CASE To \in seen /\ d[To] <= k
  BY <1>2
<1>3. CASE \E i \in 1..Len(queue) : d[queue[i]] <= k
  <2>1. PICK i \in 1..Len(queue) : d[queue[i]] <= k
    BY <1>3
  <2>2. Len(queue) \in Nat /\ 1 \in 1..Len(queue) /\ queue # <<>> /\ queue[1] = To
    BY <2>1 DEF PathTypeOK
  <2>3. To \in seen /\ d[To] <= d[queue[i]]
    BY <2>1, <2>2 DEF Layered
  <2>4. d[queue[i]] \in Nat /\ d[To] \in Nat
    BY <2>1, PathAssumption DEF PathTypeOK
  <2> QED BY <2>1, <2>3, <2>4
<1> QED BY <1>1, <1>2, <1>3, WalksCrossTheQueue

\* The best confidence is one.
LEMMA ProvenanceIsConfidence ==
  ASSUME AskedTypeOK, NEW n, NEW t, Arc(n, t)
  PROVE  Provenance(n, t) \in Nat /\ Provenance(n, t) # 0
<1> DEFINE C == {e.confidence : e \in {f \in Walkable : f.source = n /\ f.target = t}}
           S == {Strongest - c : c \in C}
<1>1. C # {}
  BY DEF Arc
<1>2. \A c \in C : c \in 1..Strongest
  BY DEF AskedTypeOK, Edges, Confidences, Ambiguous, Walkable
<1>3. Strongest \in Nat
  BY QueriesAssumption
<1>4. S \in SUBSET Nat /\ S # {}
  <2> HIDE DEF C
  <2> QED BY <1>1, <1>2, <1>3
<1>5. PICK s \in S : \A r \in S : s <= r
  <2> HIDE DEF S
  <2> QED BY <1>4, LeastNumber
<1>6. PICK c \in C : s = Strongest - c
  BY <1>5
<1>7. \A b \in C : b <= c
  <2> HIDE DEF C
  <2> TAKE b \in C
  <2>1. s <= Strongest - b
    BY <1>5
  <2> QED BY <1>2, <1>3, <1>6, <2>1
<1>8. \A e \in Walkable : e.source = n /\ e.target = t => e.confidence <= c
  BY <1>7
<1>9. Provenance(n, t) \in C
  BY <1>6, <1>8 DEF Provenance
<1> QED BY <1>2, <1>9

LEMMA Concatenated ==
  ASSUME NEW S, NEW s \in Seq(S), NEW t \in Seq(S)
  PROVE  /\ s \o t \in Seq(S)
         /\ Len(s \o t) = Len(s) + Len(t)
         /\ \A i \in 1..Len(s) : (s \o t)[i] = s[i]
         /\ \A i \in 1..Len(t) : (s \o t)[Len(s) + i] = t[i]
<1>1. s \o t \in Seq(S) /\ Len(s \o t) = Len(s) + Len(t) /\ Len(s) \in Nat /\ Len(t) \in Nat
  OBVIOUS
<1>2. \A i \in 1..Len(s) : (s \o t)[i] = s[i]
  OBVIOUS
<1>3. ASSUME NEW i \in 1..Len(t) PROVE (s \o t)[Len(s) + i] = t[i]
  <2>1. Len(s) + i \in 1..(Len(s) + Len(t)) /\ ~(Len(s) + i <= Len(s)) /\ (Len(s) + i) - Len(s) = i
    BY <1>1
  <2>2. (s \o t)[Len(s) + i] = t[(Len(s) + i) - Len(s)]
    BY <1>1, <2>1
  <2> QED BY <2>1, <2>2
<1> QED BY <1>1, <1>2, <1>3

\* The order visits every fresh node.
LEMMA OrderIsComplete ==
  ASSUME AskedTypeOK, NEW n, seen \in SUBSET Nodes,
         NEW order \in [1..Cardinality(Fresh(n)) -> Fresh(n)], Sorted(n, order)
  PROVE  /\ order \in Seq(Nodes)
         /\ \A t \in Fresh(n) : \E i \in 1..Len(order) : order[i] = t
         /\ \A i \in 1..Len(order) : order[i] \in Fresh(n)
<1> DEFINE F == Fresh(n)
<1>1. F \in SUBSET Nodes
  BY DEF Fresh, AskedTypeOK, Edges, Walkable
<1>2. IsFiniteSet(F) /\ Cardinality(F) \in Nat
  BY <1>1, QueriesAssumption, FS_Subset, FS_CardinalityType
<1>3. \A t \in F : Arc(n, t) /\ t \in Nat /\ Provenance(n, t) \in Nat
  <2>1. \A t \in F : Arc(n, t)
    BY DEF Fresh, Arc
  <2> QED BY <1>1, <2>1, QueriesAssumption, ProvenanceIsConfidence
<1> DEFINE N == 1..Cardinality(F)
<1>4. ASSUME NEW i \in N, NEW j \in N, order[i] = order[j] PROVE i = j
  <2>1. order[i] \in F /\ DOMAIN order = N
    OBVIOUS
  <2>2. ~Sooner(n, order[i], order[i])
    <3> HIDE DEF F
    <3> QED BY <1>3, <2>1 DEF Sooner
  <2>3. ~(i < j) /\ ~(j < i)
    BY <1>4, <2>1, <2>2 DEF Sorted
  <2> QED BY <1>2, <2>3
<1>5. order \in Injection(N, F)
  BY <1>4 DEF Injection, IsInjective
<1>6. Cardinality(N) = Cardinality(F)
  BY <1>2, FS_Interval
<1>7. order \in Surjection(N, F)
  BY <1>2, <1>5, <1>6, FS_Injection
<1>8. order \in Seq(Nodes) /\ Len(order) = Cardinality(F)
  <2>1. order \in [N -> F]
    OBVIOUS
  <2> HIDE DEF F
  <2>2. order \in [N -> Nodes]
    BY <1>1, <2>1
  <2> QED BY <1>2, <2>2
<1> HIDE DEF F
<1> QED BY <1>7, <1>8 DEF Surjection, F

-----------------------------------------------------------------------------
LEMMA PathStart == AskedTypeOK /\ PathInit => PathInv
<1> SUFFICES ASSUME AskedTypeOK, PathInit PROVE PathInv
  OBVIOUS
<1> DEFINE d == [n \in Nodes |-> 0]
<1>1. PathTypeOK
  BY PathAssumption DEF PathTypeOK, PathInit, Unreached
<1>2. Tree(d)
  BY PathAssumption DEF Tree, PathInit
<1>3. Len(queue) = 1 /\ queue[1] = From /\ 1 \in 1..Len(queue)
  BY DEF PathInit
<1>4. Layered(d)
  BY <1>3, PathAssumption DEF Layered, PathInit, Queued
<1>5. PathFound(d) /\ d \in [Nodes -> Nat]
  BY <1>2, <1>4 DEF PathFound, PathInit
<1> HIDE DEF d
<1> QED BY <1>1, <1>5 DEF PathInv, PathInit

LEMMA ArcsKept ==
  ASSUME UNCHANGED asked
  PROVE  /\ \A m, n : Arc(m, n)' <=> Arc(m, n)
         /\ \A k, n : Walks(k, n)' = Walks(k, n)
BY DEF Arc, Walks, Walkable, asked

LEMMA VisitStep == PathInv /\ Visit /\ UNCHANGED asked => PathInv'
<1> SUFFICES ASSUME PathInv, Visit, UNCHANGED asked PROVE PathInv'
  OBVIOUS
<1>1. PICK d \in [Nodes -> Nat] : PathFound(d)
  BY DEF PathInv
<1>2. PICK n \in Nodes : n = Head(queue)
  BY DEF PathInv, PathTypeOK, Visit, Searching
<1>3. PICK F \in SUBSET Nodes : F = Fresh(n)
  <2>1. \A e \in edges : e \in Edges
    BY DEF PathInv, PathTypeOK, AskedTypeOK
  <2>2. \A e \in edges : e.target \in Nodes
    BY <2>1 DEF Edges
  <2>3. Fresh(n) \in SUBSET Nodes
    BY <2>2 DEF Fresh, Walkable
  <2> QED BY <2>3
<1>4. PICK order \in [1..Cardinality(F) -> F] : Sorted(n, order) /\ queue' = Tail(queue) \o order
  BY <1>2, <1>3 DEF Visit
<1>5. /\ pathAt = "searching" /\ pathAt' = pathAt
      /\ seen' = seen \cup F
      /\ prev' = [t \in Nodes |-> IF t \in F
                                THEN [source |-> n, confidence |-> Provenance(n, t)]
                                ELSE prev[t]]
      /\ queue # <<>> /\ n # To
  BY <1>2, <1>3 DEF Visit, Searching
<1>6. /\ AskedTypeOK /\ queue \in Seq(Nodes) /\ seen \in SUBSET Nodes
      /\ prev \in [Nodes -> [source : Nodes, confidence : Nat]]
  BY DEF PathInv, PathTypeOK
<1>7. Tree(d) /\ Layered(d)
  BY <1>1, <1>5 DEF PathFound
<1>8. /\ order \in Seq(Nodes)
      /\ \A t \in F : \E i \in 1..Len(order) : order[i] = t
      /\ \A i \in 1..Len(order) : order[i] \in F
  BY <1>3, <1>4, <1>6, OrderIsComplete
<1>9. \A t \in Nodes : t \in F <=> Arc(n, t) /\ t \notin seen
  BY <1>3 DEF Fresh, Arc
<1>10. \A t \in F : Provenance(n, t) \in Nat /\ Provenance(n, t) # 0
  BY <1>6, <1>9, ProvenanceIsConfidence
<1>11. PICK L \in Nat : L = Len(queue) /\ L # 0 /\ queue[1] = n /\ 1 \in 1..L
  BY <1>2, <1>5, <1>6
<1>12. PICK K \in Nat : K = Len(order)
  BY <1>8
<1>13. /\ queue' \in Seq(Nodes) /\ Len(queue') = (L - 1) + K
       /\ \A i \in 1..(L-1) : queue'[i] = queue[i+1]
       /\ \A i \in 1..K : queue'[(L-1) + i] = order[i]
  <2>1. /\ Tail(queue) \in Seq(Nodes) /\ Len(Tail(queue)) = L - 1
        /\ \A i \in 1..(L-1) : Tail(queue)[i] = queue[i+1]
    BY <1>5, <1>6, <1>11
  <2>2. PICK tail \in Seq(Nodes) : tail = Tail(queue)
    BY <2>1
  <2>3. /\ Len(tail) = L - 1 /\ Len(tail) \in Nat
        /\ \A i \in 1..(L-1) : tail[i] = queue[i+1]
    BY <2>1, <2>2
  <2>4. PICK sum : sum = tail \o order
    OBVIOUS
  <2>5. /\ sum \in Seq(Nodes) /\ Len(sum) = Len(tail) + Len(order)
        /\ \A i \in 1..Len(tail) : sum[i] = tail[i]
        /\ \A i \in 1..Len(order) : sum[Len(tail) + i] = order[i]
    <3>1. order \in Seq(Nodes)
      BY <1>8
    <3>2. /\ tail \o order \in Seq(Nodes) /\ Len(tail \o order) = Len(tail) + Len(order)
          /\ \A i \in 1..Len(tail) : (tail \o order)[i] = tail[i]
          /\ \A i \in 1..Len(order) : (tail \o order)[Len(tail) + i] = order[i]
      BY <3>1, Concatenated
    <3> QED BY <2>4, <3>2
  <2>6. queue' = sum
    BY <1>4, <2>2, <2>4
  <2> QED BY <2>5, <2>6, <2>3, <1>12
<1>14. n \in seen
  BY <1>7, <1>11 DEF Layered
<1>15. PICK e \in [Nodes -> Nat] : e = [t \in Nodes |-> IF t \in F THEN d[n] + 1 ELSE d[t]]
  <2>1. [t \in Nodes |-> IF t \in F THEN d[n] + 1 ELSE d[t]] \in [Nodes -> Nat]
    OBVIOUS
  <2> QED BY <2>1
<1>16. /\ \A t \in F : e[t] = d[n] + 1
       /\ \A t \in Nodes \ F : e[t] = d[t]
       /\ \A t \in seen : t \notin F /\ t \in Nodes
       /\ \A t \in F : t \notin seen /\ t \in Nodes
       /\ \A t \in Nodes : d[t] \in Nat
  BY <1>6, <1>9, <1>15
<1>17. PathTypeOK'
  <2>1. prev' \in [Nodes -> [source : Nodes, confidence : Nat]]
    BY <1>5, <1>6, <1>10
  <2>2. AskedTypeOK'
    BY <1>6 DEF AskedTypeOK, asked
  <2> QED BY <1>5, <1>6, <1>13, <2>1, <2>2 DEF PathTypeOK
<1>18. Tree(e)'
  <2>1. From \in seen' /\ e[From] = 0 /\ prev'[From] = Unreached
    BY <1>5, <1>7, <1>16 DEF Tree
  <2>2. ASSUME NEW t \in seen' \ {From}
        PROVE  LET p == prev'[t].source
               IN  p \in seen' /\ Arc(p, t) /\ e[t] = e[p] + 1 /\ prev'[t].confidence # 0
    <3>1. CASE t \in F
      <4>1. prev'[t] = [source |-> n, confidence |-> Provenance(n, t)]
        BY <1>5, <1>16, <3>1
      <4> QED BY <1>5, <1>9, <1>10, <1>14, <1>16, <3>1, <4>1
    <3>2. CASE t \notin F
      <4>1. t \in seen /\ prev'[t] = prev[t] /\ t \in Nodes
        BY <1>5, <1>6, <3>2
      <4>2. prev[t].source \in seen /\ d[t] = d[prev[t].source] + 1
            /\ Arc(prev[t].source, t) /\ prev[t].confidence # 0
        BY <1>7, <2>2, <4>1 DEF Tree
      <4> QED BY <1>5, <1>16, <4>1, <4>2
    <3> QED BY <3>1, <3>2
  <2>3. \A t \in Nodes \ seen' : prev'[t] = Unreached
    BY <1>5, <1>7, <1>16 DEF Tree
  <2> QED BY <2>1, <2>2, <2>3, ArcsKept DEF Tree
<1>19. /\ \A i \in 1..(L-1) : /\ queue'[i] \in seen /\ e[queue'[i]] = d[queue[i+1]]
                             /\ i + 1 \in 1..L
       /\ \A i \in 1..((L-1)+K) : i \notin 1..(L-1) =>
             queue'[i] \in F /\ e[queue'[i]] = d[n] + 1
  <2>1. ASSUME NEW i \in 1..(L-1)
        PROVE  queue'[i] \in seen /\ e[queue'[i]] = d[queue[i+1]] /\ i + 1 \in 1..L
    <3>1. i + 1 \in 1..Len(queue)
      BY <1>11
    <3>2. queue[i+1] \in seen
      BY <1>7, <3>1 DEF Layered
    <3> QED BY <1>11, <1>13, <1>16, <3>1, <3>2
  <2>2. ASSUME NEW i \in 1..((L-1)+K), i \notin 1..(L-1)
        PROVE  queue'[i] \in F /\ e[queue'[i]] = d[n] + 1
    <3>1. PICK j \in 1..K : i = (L - 1) + j
      <4>1. i - (L - 1) \in 1..K /\ i = (L - 1) + (i - (L - 1))
        BY <2>2
      <4> QED BY <4>1
    <3>2. queue'[i] = order[j]
      BY <1>13, <3>1
    <3> QED BY <1>8, <1>12, <1>16, <3>2
  <2> QED BY <2>1, <2>2
<1>20. /\ \A i, j \in 1..L : i <= j => d[queue[i]] <= d[queue[j]]
       /\ \A i \in 1..L : d[n] <= d[queue[i]] /\ d[queue[i]] <= d[n] + 1 /\ d[queue[i]] \in Nat
  <2>1. \A i, j \in 1..L : i <= j => d[queue[i]] <= d[queue[j]]
    BY <1>7, <1>11 DEF Layered
  <2>2. \A i \in 1..L : queue[i] \in Nodes
    BY <1>6, <1>11
  <2> QED BY <1>7, <1>11, <1>16, <2>1, <2>2 DEF Layered
<1>21. \A i, j \in 1..((L-1)+K) : i <= j => e[queue'[i]] <= e[queue'[j]]
  <2> TAKE i, j \in 1..((L-1)+K)
  <2> HAVE i <= j
  <2>1. CASE j \in 1..(L-1)
    <3>1. i \in 1..(L-1) /\ i + 1 <= j + 1
      BY <2>1
    <3> QED BY <1>19, <1>20, <2>1, <3>1
  <2>2. CASE j \notin 1..(L-1) /\ i \in 1..(L-1)
    BY <1>19, <1>20, <2>2
  <2>3. CASE j \notin 1..(L-1) /\ i \notin 1..(L-1)
    BY <1>16, <1>19, <2>3
  <2> QED BY <2>1, <2>2, <2>3
<1>22. \A i \in 1..((L-1)+K) : /\ d[n] <= e[queue'[i]] /\ e[queue'[i]] <= d[n] + 1
                              /\ e[queue'[i]] \in Nat
  <2> TAKE i \in 1..((L-1)+K)
  <2>1. CASE i \in 1..(L-1)
    BY <1>19, <1>20, <2>1
  <2>2. CASE i \notin 1..(L-1)
    BY <1>16, <1>19, <2>2
  <2> QED BY <2>1, <2>2
<1>23. ASSUME NEW t \in seen', ~Queued(t)'
       PROVE  /\ t \in seen /\ d[t] <= d[n]
              /\ \A u \in Nodes : Arc(t, u) => u \in seen' /\ e[u] <= e[t] + 1
  <2>0. \A i \in 1..((L-1)+K) : queue'[i] # t
    BY <1>13, <1>23 DEF Queued
  <2>1. t \notin F
    <3> SUFFICES ASSUME t \in F PROVE FALSE
      OBVIOUS
    <3>1. PICK i \in 1..K : order[i] = t
      BY <1>8, <1>12
    <3>2. (L - 1) + i \in 1..((L-1)+K)
      BY <1>11
    <3> QED BY <1>13, <2>0, <3>1, <3>2
  <2>2. t \in seen /\ t \in Nodes /\ e[t] = d[t]
    BY <1>5, <1>16, <2>1
  <2>3. CASE t = n
    <3> SUFFICES ASSUME NEW u \in Nodes, Arc(n, u)
                 PROVE  u \in seen' /\ e[u] <= d[n] + 1
      BY <1>16, <2>2, <2>3
    <3>1. CASE u \in F
      BY <1>5, <1>16, <3>1
    <3>2. CASE u \in seen /\ Queued(u)
      BY <1>5, <1>11, <1>16, <1>20, <3>2 DEF Queued
    <3>3. CASE u \in seen /\ ~Queued(u)
      <4>1. d[u] <= d[n]
        BY <1>5, <1>7, <1>11, <3>3 DEF Layered
      <4> QED BY <1>5, <1>16, <3>3, <4>1
    <3> QED BY <1>9, <3>1, <3>2, <3>3
  <2>4. CASE t # n
    <3>1. ~Queued(t)
      <4> SUFFICES ASSUME NEW i \in 1..L, queue[i] = t PROVE FALSE
        BY <1>11 DEF Queued
      <4>1. i # 1
        BY <1>11, <2>4
      <4>2. i - 1 \in 1..(L-1) /\ (i - 1) + 1 = i /\ i - 1 \in 1..((L-1)+K)
        BY <4>1
      <4>3. queue'[i-1] = queue[i]
        BY <1>13, <4>2
      <4> QED BY <2>0, <4>2, <4>3
    <3>2. d[t] <= d[n] /\ \A u \in Nodes : Arc(t, u) => u \in seen /\ d[u] <= d[t] + 1
      BY <1>5, <1>7, <1>11, <2>2, <3>1 DEF Layered
    <3> QED BY <1>5, <1>16, <2>2, <3>2
  <2> QED BY <2>3, <2>4
<1>24. Layered(e)'
  <2>1. \A i \in 1..Len(queue') : queue'[i] \in seen'
    BY <1>5, <1>13, <1>19
  <2>2. \A i, j \in 1..Len(queue') : i <= j => e[queue'[i]] <= e[queue'[j]]
    BY <1>13, <1>21
  <2>3. \A i \in 1..Len(queue') : e[queue'[i]] <= e[queue'[1]] + 1
    <3> TAKE i \in 1..Len(queue')
    <3>1. 1 \in 1..((L-1)+K) /\ i \in 1..((L-1)+K)
      BY <1>13
    <3>2. e[queue'[i]] <= d[n] + 1 /\ d[n] <= e[queue'[1]] /\ e[queue'[i]] \in Nat
          /\ e[queue'[1]] \in Nat
      BY <1>22, <3>1
    <3> QED BY <1>16, <3>2
  <2>4. ASSUME NEW t \in seen', ~Queued(t)'
        PROVE  /\ queue' # <<>> => e[t] <= e[queue'[1]]
               /\ \A u \in Nodes : Arc(t, u) => u \in seen' /\ e[u] <= e[t] + 1
    <3>1. t \in seen /\ d[t] <= d[n] /\ e[t] = d[t]
      BY <1>16, <1>23, <2>4
    <3>2. ASSUME queue' # <<>> PROVE e[t] <= e[queue'[1]]
      <4>1. 1 \in 1..((L-1)+K)
        BY <1>13, <3>2
      <4>2. d[n] <= e[queue'[1]] /\ e[queue'[1]] \in Nat
        BY <1>22, <4>1
      <4> QED BY <1>16, <3>1, <4>2
    <3> QED BY <1>23, <2>4, <3>2
  <2> QED BY <2>1, <2>2, <2>3, <2>4, ArcsKept DEF Layered
<1>25. PathFound(e)'
  BY <1>5, <1>18, <1>24 DEF PathFound
<1> QED BY <1>5, <1>17, <1>25 DEF PathInv

LEMMA EndStep == PathInv /\ EndSearch /\ UNCHANGED asked => PathInv'
<1> SUFFICES ASSUME PathInv, EndSearch, UNCHANGED asked PROVE PathInv'
  OBVIOUS
<1>1. PICK d \in [Nodes -> Nat] : PathFound(d)
  BY DEF PathInv
<1>2. /\ pathAt = "searching" /\ UNCHANGED <<queue, seen, prev>>
      /\ queue = <<>> \/ Head(queue) = To
  BY DEF EndSearch, Searching
<1>3. PathTypeOK /\ Tree(d) /\ Layered(d)
  BY <1>1, <1>2 DEF PathInv, PathFound
<1>4. \A k \in Nat : Walks(k, To) # {} => To \in seen /\ d[To] <= k
  BY <1>2, <1>3, StoppedSearch
<1>5. Tree(d)'
  BY <1>2, <1>3, ArcsKept DEF Tree
<1>6. pathAt' \in {"following", "refused"} /\ PathTypeOK'
  <2>1. pathAt' \in {"following", "refused"}
    BY DEF EndSearch
  <2> QED BY <1>2, <1>3, <2>1 DEF PathTypeOK, AskedTypeOK, asked
<1>7. CASE To # From /\ prev[To] = Unreached
  <2>1. To \notin seen
    <3> SUFFICES ASSUME To \in seen PROVE FALSE
      OBVIOUS
    <3>1. prev[To].confidence # 0
      BY <1>3, <1>7 DEF Tree
    <3> QED BY <1>7, <3>1 DEF Unreached
  <2>2. \A k \in Nat : Walks(k, To)' = {}
    BY <1>4, <2>1, ArcsKept
  <2>3. pathAt' = "refused"
    BY <1>7 DEF EndSearch
  <2>4. PathFound(d)'
    BY <1>5, <2>3 DEF PathFound
  <2> QED BY <1>6, <2>2, <2>3, <2>4 DEF PathInv
<1>8. CASE To = From \/ prev[To] # Unreached
  <2>1. To \in seen
    BY <1>3, <1>8, PathAssumption DEF Tree
  <2>2. pathAt' = "following" /\ chain' = <<To>>
    BY <1>8 DEF EndSearch
  <2>3. Shortest(d)'
    BY <1>2, <1>4, <2>1, ArcsKept DEF Shortest
  <2>4. Leads(d)'
    <3>1. chain' \in Seq(Nodes) /\ Len(chain') = 1 /\ chain'[1] = To /\ chain' # <<>>
      BY <2>2, PathAssumption
    <3>2. d[To] \in Nat /\ To \in seen'
      BY <1>2, <2>1, PathAssumption
    <3> QED BY <3>1, <3>2 DEF Leads
  <2>5. PathFound(d)'
    BY <1>5, <2>2, <2>3, <2>4 DEF PathFound
  <2> QED BY <1>6, <2>2, <2>5 DEF PathInv
<1> QED BY <1>7, <1>8

LEMMA FollowStep == PathInv /\ Follow /\ UNCHANGED asked => PathInv'
<1> SUFFICES ASSUME PathInv, Follow, UNCHANGED asked PROVE PathInv'
  OBVIOUS
<1>1. PICK d \in [Nodes -> Nat] : PathFound(d)
  BY DEF PathInv
<1>2. /\ pathAt = "following" /\ UNCHANGED <<queue, seen, prev, pathAt>>
      /\ prev[Head(chain)] # Unreached
  BY DEF Follow
<1>3. PathTypeOK /\ Tree(d) /\ Shortest(d) /\ Leads(d)
  BY <1>1, <1>2 DEF PathInv, PathFound
<1>4. PICK L \in Nat : L = Len(chain) /\ L # 0 /\ Head(chain) = chain[1] /\ chain \in Seq(Nodes)
  BY <1>3 DEF Leads
<1> DEFINE p == prev[chain[1]].source
<1>5. /\ p \in seen /\ Arc(p, chain[1]) /\ d[chain[1]] = d[p] + 1
      /\ chain[1] \in seen /\ p \in Nodes /\ chain[1] \in Nodes
  <2>1. chain[1] # From /\ chain[1] \in seen
    BY <1>2, <1>3, <1>4 DEF Tree, Leads
  <2>2. p \in seen /\ Arc(p, chain[1]) /\ d[chain[1]] = d[p] + 1
    BY <1>3, <2>1 DEF Tree
  <2> QED BY <1>3, <2>1, <2>2 DEF PathTypeOK
<1>6. chain' = <<p>> \o chain
  BY <1>4 DEF Follow
<1> HIDE DEF p
<1>7. /\ chain' \in Seq(Nodes) /\ Len(chain') = L + 1 /\ chain' # <<>>
      /\ chain'[1] = p
      /\ \A i \in 2..(L+1) : chain'[i] = chain[i-1]
  BY <1>4, <1>5, <1>6
<1>8. Leads(d)'
  <2>1. chain'[Len(chain')] = To
    BY <1>3, <1>4, <1>7 DEF Leads
  <2>2. ASSUME NEW i \in 1..L PROVE Arc(chain'[i], chain'[i+1])
    <3>1. i + 1 \in 2..(L+1) /\ (i + 1) - 1 = i
      BY <1>4
    <3>2. chain'[i+1] = chain[i]
      BY <1>7, <3>1
    <3>3. CASE i = 1
      BY <1>5, <1>7, <3>2, <3>3
    <3>4. CASE i # 1
      <4>1. i \in 2..(L+1) /\ i - 1 \in 1..(L-1) /\ (i - 1) + 1 = i
        BY <1>4, <3>4
      <4>2. chain'[i] = chain[i-1]
        BY <1>7, <4>1
      <4>3. Arc(chain[i-1], chain[(i-1)+1])
        BY <1>3, <1>4, <4>1 DEF Leads
      <4> QED BY <3>2, <4>1, <4>2, <4>3
    <3> QED BY <3>3, <3>4
  <2>3. d[p] + Len(chain') = d[To] + 1
    <3>1. d[chain[1]] + L = d[To] + 1 /\ d[p] \in Nat /\ d[To] \in Nat
      BY <1>3, <1>4, <1>5, PathAssumption DEF Leads
    <3>2. d[chain[1]] = d[p] + 1 /\ Len(chain') = L + 1
      BY <1>5, <1>7
    <3> QED BY <3>1, <3>2
  <2>4. Len(chain') - 1 = L
    BY <1>4, <1>7
  <2> QED BY <1>2, <1>5, <1>7, <2>1, <2>2, <2>3, <2>4, ArcsKept DEF Leads
<1>9. Tree(d)' /\ Shortest(d)'
  BY <1>2, <1>3, ArcsKept DEF Tree, Shortest
<1>10. PathTypeOK'
  BY <1>2, <1>3 DEF PathTypeOK, AskedTypeOK, asked
<1>11. PathFound(d)'
  BY <1>2, <1>8, <1>9 DEF PathFound
<1> QED BY <1>2, <1>10, <1>11 DEF PathInv

LEMMA AnswerPathStep == PathInv /\ AnswerPath /\ UNCHANGED asked => PathInv'
<1> SUFFICES ASSUME PathInv, AnswerPath, UNCHANGED asked PROVE PathInv'
  OBVIOUS
<1>1. PICK d \in [Nodes -> Nat] : PathFound(d)
  BY DEF PathInv
<1>2. /\ pathAt = "following" /\ UNCHANGED <<queue, seen, prev, chain>>
      /\ prev[Head(chain)] = Unreached /\ pathAt' = "answered"
  BY DEF AnswerPath
<1>3. PathTypeOK /\ Tree(d) /\ Shortest(d) /\ Leads(d)
  BY <1>1, <1>2 DEF PathInv, PathFound
<1>4. chain[1] = From
  <2>1. chain[1] \in seen /\ prev[chain[1]].confidence = 0
    BY <1>2, <1>3 DEF Leads, Unreached
  <2> QED BY <1>3, <2>1 DEF Tree
<1>5. (Tree(d) /\ Shortest(d) /\ Leads(d) /\ PathTypeOK)'
  <2>1. /\ \A m, n : Arc(m, n)' <=> Arc(m, n)
        /\ \A k, n : Walks(k, n)' = Walks(k, n)
    BY ArcsKept
  <2>2. Tree(d)'
    BY <1>2, <1>3, <2>1 DEF Tree
  <2>3. Shortest(d)'
    BY <1>2, <1>3, <2>1 DEF Shortest
  <2>4. Leads(d)'
    BY <1>2, <1>3, <2>1 DEF Leads
  <2>5. PathTypeOK'
    BY <1>2, <1>3 DEF PathTypeOK, AskedTypeOK, asked
  <2> QED BY <2>2, <2>3, <2>4, <2>5
<1>6. PathFound(d)'
  BY <1>2, <1>5 DEF PathFound
<1> QED BY <1>2, <1>4, <1>5, <1>6 DEF PathInv

LEMMA PathIdle == PathInv /\ UNCHANGED <<asked, pathVars>> => PathInv'
<1> SUFFICES ASSUME PathInv, UNCHANGED <<asked, pathVars>> PROVE PathInv'
  OBVIOUS
<1>1. PICK d \in [Nodes -> Nat] : PathFound(d)
  BY DEF PathInv
<1>2. UNCHANGED <<queue, seen, prev, chain, pathAt>> /\ UNCHANGED asked
  BY DEF pathVars
<1>3. PathTypeOK'
  BY <1>2 DEF PathInv, PathTypeOK, AskedTypeOK, asked
<1>4. /\ Tree(d) => Tree(d)'
      /\ Layered(d) => Layered(d)'
      /\ Shortest(d) => Shortest(d)'
      /\ Leads(d) => Leads(d)'
  BY <1>2, ArcsKept DEF Tree, Layered, Queued, Shortest, Leads
<1>5. PathFound(d)'
  BY <1>1, <1>2, <1>4 DEF PathFound
<1>6. \A k : Walks(k, To)' = Walks(k, To)
  BY <1>2, ArcsKept
<1> QED BY <1>2, <1>3, <1>5, <1>6 DEF PathInv

LEMMA InvGivesShortest == PathInv => PathIsShortest
<1> SUFFICES ASSUME PathInv PROVE PathIsShortest
  OBVIOUS
<1>1. PICK d \in [Nodes -> Nat] : PathFound(d)
  BY DEF PathInv
<1>2. ASSUME pathAt = "answered"
      PROVE  /\ [i \in 0..(Len(chain)-1) |-> chain[i+1]] \in Walks(Len(chain)-1, To)
             /\ \A k \in 0..(Len(chain)-2) : Walks(k, To) = {}
  <2>1. Shortest(d) /\ Leads(d) /\ Tree(d) /\ chain[1] = From
    BY <1>1, <1>2 DEF PathInv, PathFound
  <2>2. PICK L \in Nat : L = Len(chain) - 1 /\ Len(chain) = L + 1 /\ chain \in Seq(Nodes)
    <3>1. chain \in Seq(Nodes) /\ chain # <<>>
      BY <2>1 DEF Leads
    <3>2. Len(chain) \in Nat /\ Len(chain) # 0
      BY <3>1
    <3>3. Len(chain) - 1 \in Nat /\ Len(chain) = (Len(chain) - 1) + 1
      BY <3>2
    <3> QED BY <3>1, <3>3
  <2> DEFINE w == [i \in 0..L |-> chain[i+1]]
  <2>3. w \in [0..L -> Nodes] /\ w[0] = From /\ w[L] = To
    BY <2>1, <2>2 DEF Leads
  <2>4. ASSUME NEW i \in 1..L PROVE Arc(w[i-1], w[i])
    <3>1. i \in 1..(Len(chain)-1) /\ i - 1 \in 0..L /\ (i - 1) + 1 = i
      BY <2>2
    <3>2. w[i-1] = chain[i] /\ w[i] = chain[i+1]
      BY <3>1
    <3> QED BY <2>1, <3>1, <3>2 DEF Leads
  <2>5. w \in Walks(L, To)
    <3> HIDE DEF w
    <3> QED BY <2>3, <2>4 DEF Walks, Arc
  <2>6. d[To] = L
    <3>1. d[From] = 0 /\ d[From] + (L + 1) = d[To] + 1 /\ d[To] \in Nat
      BY <2>1, <2>2, PathAssumption DEF Leads, Tree
    <3> QED BY <3>1
  <2>7. \A k \in 0..(L-1) : Walks(k, To) = {}
    BY <2>1, <2>6 DEF Shortest
  <2>8. Len(chain) - 2 = L - 1
    BY <2>2
  <2> QED BY <2>2, <2>5, <2>7, <2>8
<1>3. ASSUME pathAt = "refused"
      PROVE  \A k \in 0..(Cardinality(Nodes)-1) : Walks(k, To) = {}
  BY <1>3 DEF PathInv
<1> QED BY <1>2, <1>3 DEF PathIsShortest

\* The answer is a walk from one symbol to the other over edges of the confidence
\* asked for, no walk is shorter, and a refusal means that there is none
\* (shortest_path).
THEOREM ShortestWalkFound == PathSpec => []PathIsShortest
<1>1. PathInv /\ [PathNext]_<<asked, pathVars>> => PathInv'
  BY VisitStep, EndStep, FollowStep, AnswerPathStep, PathIdle DEF PathNext
<1> QED BY <1>1, PathStart, InvGivesShortest, PTL DEF PathSpec

-----------------------------------------------------------------------------
(* Impact                                                                  *)

\* The seeds are level zero.
Level(i) == IF i = 0 THEN seeds ELSE levels[i]

Swept ==
  \A i \in 1..Len(levels) : \A n \in Nodes :
    n \in levels[i] <=> /\ n \in Callers(Level(i-1), i-1)
                        /\ \A j \in 0..(i-1) : n \notin Level(j)

\* Nothing calls the last level but what is affected.
Closed ==
  \A n \in Callers(Level(Len(levels)), Len(levels)) :
    \E j \in 0..Len(levels) : n \in Level(j)

ImpactInv ==
  /\ AskedTypeOK
  /\ changed \in Nodes /\ seeds \subseteq Nodes
  /\ levels \in Seq(SUBSET Nodes) /\ Len(levels) <= Depth
  /\ frontier = Level(Len(levels))
  /\ affected = {n \in Nodes : \E j \in 0..Len(levels) : n \in Level(j)}
  /\ Swept
  /\ impactAt \in {"sweeping", "answered"}
  /\ impactAt = "answered" => Len(levels) = Depth \/ Closed

LEMMA CallersAreNodes ==
  ASSUME AskedTypeOK, NEW m \in Nodes
  PROVE  /\ DirectCallers(m, TRUE) \subseteq Nodes
         /\ DirectCallers(m, FALSE) \subseteq DirectCallers(m, TRUE)
<1>1. CallSites(m) \subseteq Nodes /\ \A p \in Nodes : CallSites(p) \subseteq Nodes
  BY DEF CallSites, Walkable, AskedTypeOK, Edges
<1>2. Into(Routes, m) \cup Into(Dispatches, m) \cup Into(Uses, m) \subseteq Nodes
  BY ImpactAssumption DEF Into
<1> QED BY <1>1, <1>2 DEF DirectCallers

LEMMA CallersOfNodes ==
  ASSUME AskedTypeOK, NEW S \in SUBSET Nodes, NEW hop \in Nat
  PROVE  Callers(S, hop) \subseteq Nodes
<1>1. \A n \in S : DirectCallers(n, TRUE) \subseteq Nodes /\ DirectCallers(n, FALSE) \subseteq Nodes
  BY CallersAreNodes
<1>2. (hop = 0) \in BOOLEAN
  OBVIOUS
<1>3. ASSUME NEW n \in S PROVE DirectCallers(n, hop = 0) \subseteq Nodes
  <2>1. CASE hop = 0
    <3>1. (hop = 0) = TRUE
      BY <2>1
    <3> QED BY <1>1, <3>1
  <2>2. CASE hop # 0
    <3>1. (hop = 0) = FALSE
      BY <2>2
    <3> QED BY <1>1, <3>1
  <2> QED BY <2>1, <2>2
<1> QED BY <1>3 DEF Callers

LEMMA LevelsAreNodes ==
  ASSUME ImpactInv
  PROVE  \A j \in 0..Len(levels) : Level(j) \in SUBSET Nodes
BY DEF ImpactInv, Level

\* A walk of k calls and one more is a walk of k+1.
LEMMA ReachesOn ==
  ASSUME NEW m, NEW k \in Nat, Reaches(m, k), NEW n \in Nodes,
         n \in DirectCallers(m, k = 0)
  PROVE  Reaches(n, k + 1)
<1>1. PICK w \in [0..k -> Nodes] :
        /\ w[0] \in seeds /\ w[k] = m
        /\ \A i \in 1..k : w[i] \in DirectCallers(w[i-1], i = 1)
  BY DEF Reaches
<1> DEFINE v == [i \in 0..(k+1) |-> IF i = k + 1 THEN n ELSE w[i]]
<1>2. v \in [0..(k+1) -> Nodes] /\ v[0] \in seeds /\ v[k+1] = n
  BY <1>1
<1>3. ASSUME NEW i \in 1..(k+1)
      PROVE  v[i] \in DirectCallers(v[i-1], i = 1)
  <2>1. CASE i \in 1..k
    <3>1. v[i] = w[i] /\ v[i-1] = w[i-1]
      BY <2>1
    <3> QED BY <1>1, <2>1, <3>1
  <2>2. CASE i = k + 1
    <3>1. v[i] = n /\ v[i-1] = m
      BY <1>1, <2>2
    <3>2. (i = 1) = (k = 0)
      BY <2>2
    <3> QED BY <3>1, <3>2
  <2> QED BY <2>1, <2>2
<1> HIDE DEF v
<1> QED BY <1>2, <1>3 DEF Reaches

\* A walk of k+1 calls is one of k and one more.
LEMMA ReachesBack ==
  ASSUME NEW n, NEW k \in Nat, Reaches(n, k + 1)
  PROVE  \E m \in Nodes : Reaches(m, k) /\ n \in DirectCallers(m, k = 0)
<1>1. PICK w \in [0..(k+1) -> Nodes] :
        /\ w[0] \in seeds /\ w[k+1] = n
        /\ \A i \in 1..(k+1) : w[i] \in DirectCallers(w[i-1], i = 1)
  BY DEF Reaches
<1> DEFINE v == [i \in 0..k |-> w[i]]
<1>2. v \in [0..k -> Nodes] /\ v[0] \in seeds /\ v[k] = w[k]
  BY <1>1
<1>3. \A i \in 1..k : v[i] \in DirectCallers(v[i-1], i = 1)
  <2> TAKE i \in 1..k
  <2>1. v[i] = w[i] /\ v[i-1] = w[i-1] /\ i \in 1..(k+1)
    OBVIOUS
  <2> QED BY <1>1, <2>1
<1>4. Reaches(w[k], k)
  <2> HIDE DEF v
  <2> QED BY <1>2, <1>3 DEF Reaches
<1>5. n \in DirectCallers(w[k], k = 0)
  <2>1. w[k+1] \in DirectCallers(w[(k+1)-1], k + 1 = 1)
    BY <1>1
  <2>2. (k + 1) - 1 = k /\ (k + 1 = 1) = (k = 0)
    OBVIOUS
  <2> QED BY <1>1, <2>1, <2>2
<1> QED BY <1>1, <1>4, <1>5

LEMMA LevelsReach ==
  ASSUME ImpactInv
  PROVE  \A i \in 0..Len(levels) : \A n \in Level(i) : Reaches(n, i)
<1> DEFINE Bad == {i \in 0..Len(levels) : \E n \in Level(i) : ~Reaches(n, i)}
<1> SUFFICES ASSUME Bad # {} PROVE FALSE
  OBVIOUS
<1>0. Len(levels) \in Nat
  BY DEF ImpactInv
<1>1. PICK i \in Bad : \A j \in Bad : i <= j
  <2>1. Bad \in SUBSET Nat
    BY <1>0
  <2> HIDE DEF Bad
  <2> QED BY <2>1, LeastNumber
<1>2. PICK n \in Level(i) : ~Reaches(n, i)
  BY <1>1
<1>3. CASE i = 0
  <2> DEFINE w == [x \in 0..0 |-> n]
  <2>1. n \in seeds /\ n \in Nodes
    BY <1>2, <1>3 DEF Level, ImpactInv
  <2>2. w \in [0..i -> Nodes] /\ w[0] \in seeds /\ w[i] = n
    BY <1>3, <2>1
  <2>3. \A x \in 1..i : w[x] \in DirectCallers(w[x-1], x = 1)
    BY <1>3
  <2>4. Reaches(n, i)
    <3> HIDE DEF w
    <3> QED BY <2>2, <2>3 DEF Reaches
  <2> QED BY <1>2, <2>4
<1>4. CASE i # 0
  <2>1. i \in 1..Len(levels) /\ i - 1 \in Nat /\ i - 1 \in 0..Len(levels) /\ Level(i) = levels[i]
    BY <1>0, <1>4 DEF Level
  <2>2. n \in Nodes
    BY <1>2, <2>1, LevelsAreNodes
  <2>3. n \in Callers(Level(i-1), i-1)
    BY <1>2, <2>1, <2>2 DEF ImpactInv, Swept
  <2>4. PICK m \in Level(i-1) : n \in DirectCallers(m, i - 1 = 0)
    BY <2>3 DEF Callers
  <2>5. i - 1 \notin Bad
    BY <1>1, <2>1
  <2>6. Reaches(m, i - 1)
    BY <2>1, <2>4, <2>5
  <2>7. Reaches(n, (i - 1) + 1)
    BY <2>1, <2>2, <2>4, <2>6, ReachesOn
  <2>8. (i - 1) + 1 = i
    BY <2>1
  <2> QED BY <1>2, <2>7, <2>8
<1> QED BY <1>3, <1>4

LEMMA ReachedIsListed ==
  ASSUME ImpactInv, NEW k \in Nat, k <= Len(levels) \/ Closed, NEW n \in Nodes, Reaches(n, k)
  PROVE  \E j \in 0..Len(levels) : j <= k /\ n \in Level(j)
<1> DEFINE Listed(x, i) == \E j \in 0..Len(levels) : j <= i /\ x \in Level(j)
           Bad == {i \in 0..k : \E x \in Nodes : Reaches(x, i) /\ ~Listed(x, i)}
<1> SUFFICES ASSUME Bad # {} PROVE FALSE
  OBVIOUS
<1>0. Len(levels) \in Nat
  BY DEF ImpactInv
<1>1. PICK i \in Bad : \A j \in Bad : i <= j
  <2>1. Bad \in SUBSET Nat
    OBVIOUS
  <2> HIDE DEF Bad
  <2> QED BY <2>1, LeastNumber
<1>2. PICK x \in Nodes : Reaches(x, i) /\ ~Listed(x, i)
  BY <1>1
<1>3. CASE i = 0
  <2>1. x \in seeds
    BY <1>2, <1>3 DEF Reaches
  <2> QED BY <1>0, <1>2, <1>3, <2>1 DEF Level
<1>4. CASE i # 0
  <2>1. i - 1 \in Nat /\ i - 1 \in 0..k /\ (i - 1) + 1 = i
    BY <1>4
  <2>2. PICK m \in Nodes : Reaches(m, i - 1) /\ x \in DirectCallers(m, i - 1 = 0)
    BY <1>2, <2>1, ReachesBack
  <2>3. i - 1 \notin Bad
    BY <1>1, <2>1
  <2>4. PICK j \in 0..Len(levels) : j <= i - 1 /\ m \in Level(j)
    BY <2>1, <2>2, <2>3
  <2>5. x \in DirectCallers(m, j = 0)
    <3>1. CASE i - 1 = 0
      <4>1. (i - 1 = 0) = (j = 0)
        BY <2>4, <3>1
      <4> QED BY <2>2, <4>1
    <3>2. CASE i - 1 # 0
      <4>1. (i - 1 = 0) = FALSE
        BY <3>2
      <4>2. x \in DirectCallers(m, FALSE) /\ x \in DirectCallers(m, TRUE)
        BY <2>2, <4>1, CallersAreNodes DEF ImpactInv
      <4>3. (j = 0) = TRUE \/ (j = 0) = FALSE
        OBVIOUS
      <4> QED BY <4>2, <4>3
    <3> QED BY <3>1, <3>2
  <2>6. x \in Callers(Level(j), j)
    BY <2>4, <2>5 DEF Callers
  <2>7. CASE j < Len(levels)
    <3>1. j + 1 \in 1..Len(levels) /\ (j + 1) - 1 = j /\ j + 1 <= i
      BY <1>0, <2>1, <2>4, <2>7
    <3>2. x \in levels[j + 1] \/ \E l \in 0..j : x \in Level(l)
      BY <2>6, <3>1 DEF ImpactInv, Swept
    <3>3. levels[j+1] = Level(j+1)
      BY <3>1 DEF Level
    <3> QED BY <1>0, <1>2, <2>4, <3>1, <3>2, <3>3
  <2>8. CASE j = Len(levels)
    <3>1. Closed
      BY <1>0, <2>1, <2>4, <2>8
    <3>2. \E l \in 0..Len(levels) : x \in Level(l)
      BY <2>6, <2>8, <3>1 DEF Closed
    <3> QED BY <1>0, <1>2, <2>4, <2>8, <3>2
  <2> QED BY <1>0, <2>7, <2>8
<1> QED BY <1>3, <1>4

LEMMA InvGivesDistances == ImpactInv => LevelsAreDistances
<1> SUFFICES ASSUME ImpactInv, impactAt = "answered",
                    NEW n \in Nodes \ seeds, NEW k \in 1..Depth
             PROVE  (k \in DOMAIN levels /\ n \in levels[k])
                      <=> (Reaches(n, k) /\ \A j \in 1..(k-1) : ~Reaches(n, j))
  BY DEF LevelsAreDistances
<1>0. Len(levels) \in Nat /\ DOMAIN levels = 1..Len(levels) /\ Depth \in Nat
  BY ImpactAssumption DEF ImpactInv
<1>1. ASSUME k \in DOMAIN levels, n \in levels[k]
      PROVE  Reaches(n, k) /\ \A j \in 1..(k-1) : ~Reaches(n, j)
  <2>1. k \in 0..Len(levels) /\ Level(k) = levels[k]
    BY <1>0, <1>1 DEF Level
  <2>2. Reaches(n, k)
    BY <1>1, <2>1, LevelsReach
  <2>3. ASSUME NEW j \in 1..(k-1), Reaches(n, j) PROVE FALSE
    <3>1. j \in Nat /\ j <= Len(levels) /\ j <= k - 1
      BY <2>1
    <3>2. PICK l \in 0..Len(levels) : l <= j /\ n \in Level(l)
      BY <2>3, <3>1, ReachedIsListed
    <3>3. l \in 0..(k-1)
      BY <1>0, <3>1, <3>2
    <3> QED BY <1>0, <1>1, <3>2, <3>3 DEF ImpactInv, Swept
  <2> QED BY <2>2, <2>3
<1>2. ASSUME Reaches(n, k), \A j \in 1..(k-1) : ~Reaches(n, j)
      PROVE  k \in DOMAIN levels /\ n \in levels[k]
  <2>0. Len(levels) = Depth \/ Closed
    BY DEF ImpactInv
  <2>1. k <= Len(levels) \/ Closed
    <3>1. CASE Len(levels) = Depth
      BY <1>0, <3>1
    <3>2. CASE Closed
      BY <3>2
    <3> QED BY <2>0, <3>1, <3>2
  <2>2. PICK j \in 0..Len(levels) : j <= k /\ n \in Level(j)
    BY <1>2, <2>1, ReachedIsListed
  <2>3. j # 0
    BY <2>2 DEF Level
  <2>4. Reaches(n, j)
    BY <2>2, LevelsReach
  <2>5. j = k
    BY <1>2, <2>2, <2>3, <2>4
  <2> QED BY <1>0, <2>2, <2>3, <2>5 DEF Level
<1> QED BY <1>1, <1>2

-----------------------------------------------------------------------------
LEMMA CallersKept ==
  ASSUME UNCHANGED asked, NEW S, NEW hop
  PROVE  Callers(S, hop)' = Callers(S, hop)
BY DEF asked, Callers, DirectCallers, CallSites, Walkable

LEMMA ImpactStart == AskedTypeOK /\ ImpactInit => ImpactInv
<1> SUFFICES ASSUME AskedTypeOK, ImpactInit PROVE ImpactInv
  OBVIOUS
<1>1. Len(levels) = 0 /\ levels \in Seq(SUBSET Nodes) /\ Depth \in Nat
  BY ImpactAssumption DEF ImpactInit
<1>2. Swept
  BY <1>1 DEF Swept
<1>3. Level(0) = seeds
  BY DEF Level
<1> QED BY <1>1, <1>2, <1>3 DEF ImpactInv, ImpactInit

LEMMA SweepStep == ImpactInv /\ Sweep /\ UNCHANGED asked => ImpactInv'
<1> SUFFICES ASSUME ImpactInv, Sweep, UNCHANGED asked PROVE ImpactInv'
  OBVIOUS
<1> DEFINE next == Callers(frontier, Len(levels)) \ affected
<1>0. PICK L \in Nat : L = Len(levels)
  BY DEF ImpactInv
<1>1. /\ levels' = Append(levels, next) /\ frontier' = next
      /\ affected' = affected \cup next
      /\ UNCHANGED <<changed, seeds, impactAt>> /\ L < Depth
      /\ impactAt = "sweeping"
  BY <1>0 DEF Sweep
<1>2. /\ L \in Nat /\ L = Len(levels) /\ levels \in Seq(SUBSET Nodes)
      /\ AskedTypeOK /\ Depth \in Nat
  BY <1>0, ImpactAssumption DEF ImpactInv
<1>3. next \in SUBSET Nodes
  <2>1. frontier \in SUBSET Nodes
    BY <1>2, LevelsAreNodes DEF ImpactInv
  <2> QED BY <1>2, <2>1, CallersOfNodes
<1> HIDE DEF next
<1>4. /\ levels' \in Seq(SUBSET Nodes) /\ Len(levels') = L + 1
      /\ \A i \in 1..L : levels'[i] = levels[i]
      /\ levels'[L+1] = next
  BY <1>1, <1>2, <1>3
<1>5. /\ \A i \in 0..L : Level(i)' = Level(i)
      /\ Level(L+1)' = next
  <2>1. ASSUME NEW i \in 0..L PROVE Level(i)' = Level(i)
    <3>1. CASE i = 0
      BY <1>1, <3>1 DEF Level
    <3>2. CASE i # 0
      <4>1. i \in 1..L
        BY <1>2, <3>2
      <4> QED BY <1>4, <3>2, <4>1 DEF Level
    <3> QED BY <3>1, <3>2
  <2>2. L + 1 # 0
    BY <1>2
  <2> QED BY <1>4, <2>1, <2>2 DEF Level
<1>6. AskedTypeOK'
  BY <1>2 DEF AskedTypeOK, asked
<1>7. affected' = {n \in Nodes : \E j \in 0..(L+1) : n \in Level(j)'}
  <2>1. \A n \in Nodes : (\E j \in 0..(L+1) : n \in Level(j)')
                         <=> (\E j \in 0..L : n \in Level(j)) \/ n \in next
    <3>1. \A j : j \in 0..(L+1) <=> j \in 0..L \/ j = L + 1
      BY <1>2
    <3> QED BY <1>5, <3>1
  <2> QED BY <1>1, <1>2, <1>3, <2>1 DEF ImpactInv
<1>8. Swept'
  <2> SUFFICES ASSUME NEW i \in 1..(L+1), NEW n \in Nodes
               PROVE  n \in levels'[i] <=> /\ n \in Callers(Level(i-1)', i-1)
                                          /\ \A j \in 0..(i-1) : n \notin Level(j)'
    <3>1. \A S, hop : Callers(S, hop)' = Callers(S, hop)
      BY CallersKept
    <3> QED BY <1>4, <3>1 DEF Swept
  <2>1. i - 1 \in 0..L /\ \A j \in 0..(i-1) : Level(j)' = Level(j)
    BY <1>2, <1>5
  <2>2. CASE i \in 1..L
    BY <1>2, <1>4, <2>1, <2>2 DEF ImpactInv, Swept
  <2>3. CASE i = L + 1
    <3>1. n \in next <=> n \in Callers(Level(L), L) /\ \A j \in 0..L : n \notin Level(j)
      BY <1>2 DEF next, ImpactInv
    <3>2. i - 1 = L
      BY <1>2, <2>3
    <3> QED BY <1>4, <2>1, <2>3, <3>1, <3>2
  <2> QED BY <1>2, <2>2, <2>3
<1>9. /\ frontier' = Level(Len(levels))' /\ Len(levels') <= Depth
      /\ changed' \in Nodes /\ seeds' \subseteq Nodes
      /\ impactAt' = "sweeping"
  <2>1. Level(Len(levels))' = next
    <3>1. Len(levels)' # 0 /\ levels'[Len(levels)'] = next
      BY <1>2, <1>4
    <3> QED BY <3>1 DEF Level
  <2>2. Len(levels') <= Depth
    BY <1>1, <1>2, <1>4
  <2> QED BY <1>1, <2>1, <2>2 DEF ImpactInv
<1>10. affected' = {n \in Nodes : \E j \in 0..Len(levels') : n \in Level(j)'}
  BY <1>4, <1>7
<1> QED BY <1>4, <1>6, <1>8, <1>9, <1>10 DEF ImpactInv

LEMMA MembersStep == ImpactInv /\ SweepMembers /\ UNCHANGED asked => ImpactInv'
<1> SUFFICES ASSUME ImpactInv, SweepMembers, UNCHANGED asked PROVE ImpactInv'
  OBVIOUS
<1> DEFINE nodes == {changed} \cup Members[changed]
<1>1. /\ seeds' = nodes /\ affected' = nodes /\ frontier' = nodes /\ levels' = <<>>
      /\ UNCHANGED <<changed, impactAt>> /\ impactAt = "sweeping"
  BY DEF SweepMembers, SweepEnds, SweepFrom
<1>2. nodes \in SUBSET Nodes
  BY ImpactAssumption DEF ImpactInv
<1>3. Len(levels') = 0 /\ levels' \in Seq(SUBSET Nodes) /\ Depth \in Nat
  BY <1>1, ImpactAssumption
<1>4. Level(0)' = nodes
  BY <1>1 DEF Level
<1>5. Swept'
  BY <1>3 DEF Swept
<1>6. AskedTypeOK'
  BY DEF AskedTypeOK, asked, ImpactInv
<1> HIDE DEF nodes
<1> QED BY <1>1, <1>2, <1>3, <1>4, <1>5, <1>6 DEF ImpactInv

LEMMA AnswerStep == ImpactInv /\ AnswerImpact /\ UNCHANGED asked => ImpactInv'
<1> SUFFICES ASSUME ImpactInv, AnswerImpact, UNCHANGED asked PROVE ImpactInv'
  OBVIOUS
<1>1. UNCHANGED <<changed, seeds, affected, frontier, levels>> /\ impactAt' = "answered"
  BY DEF AnswerImpact
<1>2. \A S, hop : Callers(S, hop)' = Callers(S, hop)
  BY CallersKept
<1>3. \A i : Level(i)' = Level(i)
  BY <1>1 DEF Level
<1>4. Swept' /\ AskedTypeOK'
  BY <1>1, <1>2, <1>3 DEF ImpactInv, Swept, AskedTypeOK, asked
<1>5. Len(levels) = Depth \/ Closed
  <2>1. CASE Len(levels) = Depth
    BY <2>1
  <2>2. CASE Callers(frontier, Len(levels)) \subseteq affected
    BY <2>2 DEF Closed, ImpactInv
  <2> QED BY <2>1, <2>2 DEF AnswerImpact, SweepEnds
<1>6. (Len(levels) = Depth \/ Closed)'
  <2>1. CASE Len(levels) = Depth
    BY <1>1, <2>1
  <2>2. CASE Closed
    BY <1>1, <1>2, <1>3, <2>2 DEF Closed
  <2> QED BY <1>5, <2>1, <2>2
<1> QED BY <1>1, <1>3, <1>4, <1>6 DEF ImpactInv

LEMMA ImpactIdle == ImpactInv /\ UNCHANGED <<asked, impactVars>> => ImpactInv'
<1> SUFFICES ASSUME ImpactInv, UNCHANGED <<asked, impactVars>> PROVE ImpactInv'
  OBVIOUS
<1>1. UNCHANGED impactVars /\ UNCHANGED asked
  OBVIOUS
<1>2. \A S, hop : Callers(S, hop)' = Callers(S, hop)
  BY <1>1, CallersKept
<1>3. \A i : Level(i)' = Level(i)
  BY <1>1 DEF Level, impactVars
<1>4. Swept' /\ AskedTypeOK' /\ (Closed => Closed')
  BY <1>1, <1>2, <1>3 DEF ImpactInv, Swept, AskedTypeOK, asked, impactVars, Closed
<1> QED BY <1>1, <1>3, <1>4 DEF ImpactInv, impactVars

\* Every symbol that reaches the change within the depth asked for is listed
\* once, under the fewest hops it takes, and no other is (reverse_levels).
THEOREM LevelsAreExact == ImpactSpec => []LevelsAreDistances
<1>1. ImpactInv /\ [ImpactNext]_<<asked, impactVars>> => ImpactInv'
  BY SweepStep, MembersStep, AnswerStep, ImpactIdle DEF ImpactNext
<1> QED BY <1>1, ImpactStart, InvGivesDistances, PTL DEF ImpactSpec

-----------------------------------------------------------------------------
(* Expand                                                                  *)

\* A path of h edges from a seed to n costs c.
Priced(n, c, h) == \E s \in Seeds : \E w \in Paths(s, n, h) : c = SeedCosts[s] + Length(w)

\* Such a path that nothing on the way holds up.
PricedFreely(n, c, h) ==
  \E s \in Seeds : \E w \in Paths(s, n, h) : c = SeedCosts[s] + Length(w) /\ Unhindered(s, w)

\* The units that the edges of a path cost.
Units(w) == {u \in (DOMAIN w) \X (1..Strongest) : u[2] <= Cost(w[u[1]])}

LEMMA CostsAreNumbers ==
  ASSUME AskedTypeOK, NEW e \in edges
  PROVE  Cost(e) \in 1..Strongest /\ e.source \in Nodes /\ e.target \in Nodes
<1>1. e \in Edges
  BY DEF AskedTypeOK
<1>2. e.confidence \in 1..Strongest /\ e.source \in Nodes /\ e.target \in Nodes
  BY <1>1 DEF Edges, Confidences, Ambiguous
<1> QED BY <1>2, QueriesAssumption DEF Cost

LEMMA UnitsAreFinite ==
  ASSUME NEW k \in Nat, NEW w \in [1..k -> edges]
  PROVE  IsFiniteSet(Units(w)) /\ Length(w) = Cardinality(Units(w)) /\ Length(w) \in Nat
<1>1. IsFiniteSet(1..k) /\ IsFiniteSet(1..Strongest)
  BY FS_Interval, QueriesAssumption
<1>2. IsFiniteSet((1..k) \X (1..Strongest))
  BY <1>1, FS_Product
<1>3. Units(w) \subseteq (1..k) \X (1..Strongest)
  BY DEF Units
<1>4. IsFiniteSet(Units(w))
  BY <1>2, <1>3, FS_Subset
<1>5. Length(w) = Cardinality(Units(w))
  BY DEF Length, Units
<1> QED BY <1>4, <1>5, FS_CardinalityType

\* A path is as long as what comes before its last edge, and that edge.
LEMMA LengthAdds ==
  ASSUME AskedTypeOK, NEW k \in Nat, NEW w \in [1..(k+1) -> edges],
         NEW v \in [1..k -> edges], \A i \in 1..k : v[i] = w[i]
  PROVE  Length(w) = Length(v) + Cost(w[k+1])
<1> DEFINE c == Cost(w[k+1])
           new == {<<k+1, j>> : j \in 1..c}
           f == [j \in 1..c |-> <<k+1, j>>]
<1>1. c \in 1..Strongest /\ c \in Nat
  BY CostsAreNumbers, QueriesAssumption
<1>2. Units(w) = Units(v) \cup new
  <2>1. ASSUME NEW u \in Units(w) PROVE u \in Units(v) \cup new
    <3>1. PICK i \in 1..(k+1), j \in 1..Strongest : u = <<i, j>> /\ j <= Cost(w[i])
      BY <2>1 DEF Units
    <3>2. CASE i = k+1
      <4>1. j \in 1..c
        BY <1>1, <3>1, <3>2
      <4> QED BY <3>1, <3>2, <4>1
    <3>3. CASE i # k+1
      <4>1. i \in 1..k /\ v[i] = w[i]
        BY <3>3
      <4> QED BY <3>1, <4>1 DEF Units
    <3> QED BY <3>2, <3>3
  <2>2. ASSUME NEW u \in Units(v) PROVE u \in Units(w)
    <3>1. PICK i \in 1..k, j \in 1..Strongest : u = <<i, j>> /\ j <= Cost(v[i])
      BY <2>2 DEF Units
    <3>2. i \in 1..(k+1) /\ v[i] = w[i]
      BY <3>1
    <3> QED BY <3>1, <3>2 DEF Units
  <2>3. ASSUME NEW u \in new PROVE u \in Units(w)
    <3>1. PICK j \in 1..c : u = <<k+1, j>>
      BY <2>3
    <3>2. j \in 1..Strongest /\ k+1 \in 1..(k+1) /\ j <= Cost(w[k+1])
      BY <1>1, <3>1, QueriesAssumption
    <3> QED BY <3>1, <3>2 DEF Units
  <2> QED BY <2>1, <2>2, <2>3
<1>3. Units(v) \cap new = {}
  BY DEF Units
<1>4. IsFiniteSet(new) /\ Cardinality(new) = c
  <2>1. f \in Bijection(1..c, new)
    BY DEF Bijection, Injection, Surjection, IsInjective
  <2>2. IsFiniteSet(1..c) /\ Cardinality(1..c) = c
    <3>1. 1 \in Int /\ c \in Int /\ ~(1 > c)
      BY <1>1, QueriesAssumption
    <3> QED BY <3>1, FS_Interval
  <2> HIDE DEF f, new, c
  <2>3. ExistsBijection(1..c, new)
    BY <2>1 DEF ExistsBijection
  <2> QED BY <2>2, <2>3, FS_Bijection
<1>5. IsFiniteSet(Units(v)) /\ Length(v) = Cardinality(Units(v)) /\ Length(v) \in Nat
  BY UnitsAreFinite
<1>6. Length(w) = Cardinality(Units(w))
  BY UnitsAreFinite
<1>7. Cardinality(Units(v) \cap new) = 0
  BY <1>3, FS_EmptySet
<1> HIDE DEF new, c
<1>8. Cardinality(Units(v) \cup new) = Cardinality(Units(v)) + Cardinality(new)
                                       - Cardinality(Units(v) \cap new)
  BY <1>4, <1>5, FS_Union
<1> QED BY <1>1, <1>2, <1>4, <1>5, <1>6, <1>7, <1>8 DEF c

LEMMA NoEdgesNoLength ==
  ASSUME NEW w \in [1..0 -> edges] PROVE Length(w) = 0
<1>1. Units(w) = {}
  BY DEF Units
<1>2. Length(w) = Cardinality(Units(w))
  BY UnitsAreFinite
<1> QED BY <1>1, <1>2, FS_EmptySet

LEMMA SeedsArePriced ==
  ASSUME NEW s \in Seeds PROVE Priced(s, SeedCosts[s], 0)
<1> DEFINE w == [i \in 1..0 |-> CHOOSE e \in edges : TRUE]
<1>1. w \in [1..0 -> edges]
  OBVIOUS
<1>2. w \in Paths(s, s, 0)
  BY <1>1 DEF Paths, At
<1>3. Length(w) = 0 /\ SeedCosts[s] \in Nat
  BY <1>1, NoEdgesNoLength, ExpandAssumption
<1> HIDE DEF w
<1> QED BY <1>2, <1>3 DEF Priced

\* Without an edge, one is at a seed.
LEMMA UnmovedIsSeed ==
  ASSUME NEW n, NEW c, Priced(n, c, 0)
  PROVE  n \in Seeds /\ c = SeedCosts[n]
<1>0. PICK s \in Seeds : \E w \in Paths(s, n, 0) : c = SeedCosts[s] + Length(w)
  BY DEF Priced
<1>1. PICK w \in Paths(s, n, 0) : c = SeedCosts[s] + Length(w)
  BY <1>0
<1>2. w \in [1..0 -> edges] /\ s = n
  BY DEF Paths, At
<1>3. Length(w) = 0 /\ SeedCosts[s] \in Nat
  BY <1>2, NoEdgesNoLength, ExpandAssumption
<1> QED BY <1>1, <1>2, <1>3

LEMMA PricedTypes ==
  ASSUME AskedTypeOK, NEW h \in Nat, NEW n, NEW c, Priced(n, c, h)
  PROVE  n \in Nodes /\ c \in Nat
<1>0. PICK s \in Seeds : \E w \in Paths(s, n, h) : c = SeedCosts[s] + Length(w)
  BY DEF Priced
<1>1. PICK w \in Paths(s, n, h) : c = SeedCosts[s] + Length(w)
  BY <1>0
<1>2. w \in [1..h -> edges] /\ At(s, w, h) = n
  BY DEF Paths
<1>3. Length(w) \in Nat /\ SeedCosts[s] \in Nat /\ s \in Nodes
  BY <1>2, UnitsAreFinite, ExpandAssumption
<1>4. CASE h = 0
  BY <1>1, <1>2, <1>3, <1>4 DEF At
<1>5. CASE h # 0
  <2>1. w[h] \in edges /\ n = w[h].target
    BY <1>2, <1>5 DEF At
  <2> QED BY <1>1, <1>3, <2>1, CostsAreNumbers
<1> QED BY <1>4, <1>5

\* A path goes on along an edge.
LEMMA PathGoesOn ==
  ASSUME AskedTypeOK, NEW h \in Nat, NEW n, NEW c, Priced(n, c, h),
         NEW e \in edges, e.source = n
  PROVE  Priced(e.target, c + Cost(e), h + 1)
<1>0. PICK s \in Seeds : \E v \in Paths(s, n, h) : c = SeedCosts[s] + Length(v)
  BY DEF Priced
<1>1. PICK v \in Paths(s, n, h) : c = SeedCosts[s] + Length(v)
  BY <1>0
<1>2. /\ v \in [1..h -> edges] /\ At(s, v, h) = n
      /\ \A i \in 1..h : v[i].source = At(s, v, i-1)
  BY DEF Paths
<1> DEFINE w == [i \in 1..(h+1) |-> IF i = h+1 THEN e ELSE v[i]]
<1>3. w \in [1..(h+1) -> edges]
  BY <1>2
<1>4. \A i \in 1..h : v[i] = w[i]
  OBVIOUS
<1>5. w[h+1] = e
  OBVIOUS
<1> HIDE DEF w
<1>6. \A i \in 0..h : At(s, w, i) = At(s, v, i)
  BY <1>4 DEF At
<1>7. ASSUME NEW i \in 1..(h+1) PROVE w[i].source = At(s, w, i-1)
  <2>1. i - 1 \in 0..h
    OBVIOUS
  <2>2. CASE i = h+1
    <3>1. i - 1 = h
      BY <2>2
    <3> QED BY <1>2, <1>5, <1>6, <2>1, <2>2, <3>1
  <2>3. CASE i # h+1
    <3>1. i \in 1..h
      BY <2>3
    <3> QED BY <1>2, <1>4, <1>6, <2>1, <3>1
  <2> QED BY <2>2, <2>3
<1>8. At(s, w, h+1) = e.target
  BY <1>5 DEF At
<1>9. w \in Paths(s, e.target, h+1)
  BY <1>3, <1>7, <1>8 DEF Paths
<1>10. Length(w) = Length(v) + Cost(e)
  BY <1>2, <1>3, <1>4, <1>5, LengthAdds
<1>11. Length(v) \in Nat /\ SeedCosts[s] \in Nat /\ Cost(e) \in Nat
  BY <1>2, UnitsAreFinite, ExpandAssumption, CostsAreNumbers, QueriesAssumption
<1>12. c + Cost(e) = SeedCosts[s] + Length(w)
  BY <1>1, <1>10, <1>11
<1> QED BY <1>9, <1>12 DEF Priced

\* A path of some edges came along its last one, from a node not held up.
LEMMA PathCameFrom ==
  ASSUME AskedTypeOK, NEW h \in Nat, NEW n, NEW c, PricedFreely(n, c, h + 1)
  PROVE  \E e \in edges, x \in Nat :
            /\ e.target = n /\ c = x + Cost(e)
            /\ PricedFreely(e.source, x, h) /\ ~HeldUp(e.source, x)
<1>0. PICK s \in Seeds :
         \E w \in Paths(s, n, h + 1) : c = SeedCosts[s] + Length(w) /\ Unhindered(s, w)
  BY DEF PricedFreely
<1>1. PICK w \in Paths(s, n, h + 1) : c = SeedCosts[s] + Length(w) /\ Unhindered(s, w)
  BY <1>0
<1>2. /\ w \in [1..(h+1) -> edges] /\ At(s, w, h+1) = n
      /\ \A i \in 1..(h+1) : w[i].source = At(s, w, i-1)
  BY DEF Paths
<1> DEFINE v == [i \in 1..h |-> w[i]]
           e == w[h+1]
           x == SeedCosts[s] + Length(v)
<1>3. e \in edges /\ e.target = n
  BY <1>2 DEF At
<1>4. v \in [1..h -> edges] /\ \A i \in 1..h : v[i] = w[i]
  BY <1>2
<1> HIDE DEF v
<1>5. \A i \in 0..h : At(s, w, i) = At(s, v, i)
  BY <1>4 DEF At
<1>6. \A i \in 1..h : v[i].source = At(s, v, i-1)
  BY <1>2, <1>4, <1>5
<1>7. e.source = At(s, v, h)
  <2>1. h + 1 \in 1..(h+1) /\ (h + 1) - 1 = h /\ h \in 0..h
    OBVIOUS
  <2> QED BY <1>2, <1>5, <2>1
<1>8. v \in Paths(s, e.source, h)
  BY <1>4, <1>6, <1>7 DEF Paths
<1>9. Length(w) = Length(v) + Cost(e)
  BY <1>2, <1>4, LengthAdds
<1>10. Length(v) \in Nat /\ SeedCosts[s] \in Nat /\ Cost(e) \in Nat
  BY <1>3, <1>4, UnitsAreFinite, ExpandAssumption, CostsAreNumbers, QueriesAssumption
<1>11. x \in Nat /\ c = x + Cost(e)
  BY <1>1, <1>9, <1>10
<1>12. ~HeldUp(e.source, x)
  <2>1. h + 1 \in DOMAIN w /\ [j \in 1..((h + 1) - 1) |-> w[j]] = v
    BY <1>2 DEF v
  <2> QED BY <1>1, <2>1 DEF Unhindered, PathCost
<1>13. Unhindered(s, v)
  <2> SUFFICES ASSUME NEW i \in 1..h
               PROVE  ~HeldUp(v[i].source, PathCost(s, [j \in 1..(i-1) |-> v[j]]))
    BY <1>4 DEF Unhindered
  <2>1. i \in DOMAIN w /\ w[i] = v[i]
    BY <1>2, <1>4
  <2>2. [j \in 1..(i-1) |-> w[j]] = [j \in 1..(i-1) |-> v[j]]
    BY <1>4
  <2> QED BY <1>1, <2>1, <2>2 DEF Unhindered
<1>14. PricedFreely(e.source, x, h)
  BY <1>8, <1>13 DEF PricedFreely
<1> QED BY <1>3, <1>11, <1>12, <1>14

\* What is held up has a path of every hop, and what costs more is held up too.
LEMMA HeldUpIsPriced ==
  ASSUME AskedTypeOK, NEW n, NEW c \in Nat, Priced(n, c, MaxHops), NEW d \in Nat, c <= d
  PROVE  HeldUp(n, d)
<1>0. PICK s \in Seeds : \E w \in Paths(s, n, MaxHops) : c = SeedCosts[s] + Length(w)
  BY DEF Priced
<1> QED BY <1>0 DEF HeldUp, PathCost

-----------------------------------------------------------------------------
Candidates == [cost : Nat, node : Nodes, hops : Nat]

ExpandTypeOK ==
  /\ AskedTypeOK
  /\ DOMAIN best \subseteq Nodes /\ best \in [DOMAIN best -> [cost : Nat, hops : Nat]]
  /\ heap \subseteq Candidates
  /\ expandAt \in {"popping", "following", "answered"}
  /\ expandAt = "following" =>
       current \in Candidates /\ rest \subseteq {e \in edges : e.source = current.node}

\* The score of n is that of a path which costs c at most.
Bound(n, c) == n \in DOMAIN best /\ best[n].cost <= Ranked(n, c)

\* A score is that of a path of so many hops, above the threshold or at a seed.
ScoresAreReal ==
  \A n \in DOMAIN best : \E c \in Nat :
     /\ best[n].cost = Ranked(n, c) /\ Priced(n, c, best[n].hops)
     /\ c <= MaxCost \/ best[n].hops = 0
     /\ best[n].hops <= MaxHops

\* A candidate stands for a path within the hops.
IsCandidate(d) ==
  Priced(d.node, d.cost, d.hops) /\ Bound(d.node, d.cost) /\ d.hops <= MaxHops

Frontier ==
  /\ \A d \in heap : IsCandidate(d)
  /\ expandAt = "following" => /\ IsCandidate(current) /\ current.hops < MaxHops
                              /\ \A d \in heap : current.cost <= d.cost

\* To follow e from a node at cost c improves nothing any more.
Settled(e, c) == c + Cost(e) > MaxCost \/ Bound(e.target, c + Cost(e))

\* It is still to be followed.
Pending(e, c) ==
  \/ \E h \in Nat : [cost |-> c, node |-> e.source, hops |-> h] \in heap
  \/ expandAt = "following" /\ current.node = e.source /\ current.cost = c /\ e \in rest

NothingMissed ==
  /\ \A s \in Seeds : Bound(s, SeedCosts[s])
  /\ \A e \in edges, c \in Nat :
        e.source \in DOMAIN best /\ best[e.source].cost = Ranked(e.source, c) =>
          Settled(e, c) \/ Pending(e, c) \/ Priced(e.source, c, MaxHops)

Chosen ==
  expandAt = "answered" =>
    /\ heap = {}
    /\ kept = {n \in DOMAIN best : Cardinality({m \in DOMAIN best : Ahead(m, n)}) < MaxNodes}

ExpandInv == ExpandTypeOK /\ ScoresAreReal /\ Frontier /\ NothingMissed /\ Chosen

-----------------------------------------------------------------------------
LEMMA RankedOrder ==
  ASSUME NEW n, NEW a \in Nat, NEW b \in Nat
  PROVE  /\ Ranked(n, a) \in Nat
         /\ Ranked(n, a) <= Ranked(n, b) <=> a <= b
         /\ Ranked(n, a) < Ranked(n, b) <=> a < b
         /\ Ranked(n, a) = Ranked(n, b) <=> a = b
         /\ a <= Ranked(n, a)
<1>1. Penalty \in Nat
  BY ExpandAssumption
<1>2. CASE n \in Defined
  BY <1>2 DEF Ranked
<1>3. CASE n \notin Defined
  BY <1>1, <1>3 DEF Ranked
<1> QED BY <1>2, <1>3

LEMMA BoundsRise ==
  ASSUME ExpandTypeOK, NEW n, NEW a \in Nat, NEW b \in Nat, a <= b, Bound(n, a)
  PROVE  Bound(n, b)
<1>1. n \in DOMAIN best /\ best[n] \in [cost : Nat, hops : Nat]
  BY DEF ExpandTypeOK, Bound
<1>2. best[n].cost \in Nat
  BY <1>1
<1>3. Ranked(n, a) \in Nat /\ Ranked(n, b) \in Nat /\ Ranked(n, a) <= Ranked(n, b)
  BY RankedOrder
<1>4. best[n].cost <= Ranked(n, a)
  BY DEF Bound
<1>5. best[n].cost <= Ranked(n, b)
  BY <1>2, <1>3, <1>4
<1> QED BY <1>1, <1>5 DEF Bound

\* A path not held up that costs no more than what is still to be followed is
\* known, or a better one to the same node.
LEMMA NothingCheaper ==
  ASSUME ExpandInv, NEW h \in Nat, NEW n, NEW x \in Nat, PricedFreely(n, x, h),
         x <= MaxCost \/ h = 0,
         \A d \in heap : x <= d.cost,
         expandAt = "following" => x <= current.cost
  PROVE  Bound(n, x)
<1> DEFINE Missed(m, y, k) == /\ PricedFreely(m, y, k) /\ y <= x /\ ~Bound(m, y)
                              /\ y <= MaxCost \/ k = 0
           Bad == {k \in Nat : \E m : \E y \in Nat : Missed(m, y, k)}
<1>0. AskedTypeOK /\ ExpandTypeOK
  BY DEF ExpandInv, ExpandTypeOK
<1>1. SUFFICES ASSUME Bad # {} PROVE FALSE
  OBVIOUS
<1>2. PICK k \in Bad : \A j \in Bad : k <= j
  <2>1. Bad \in SUBSET Nat
    OBVIOUS
  <2> HIDE DEF Bad
  <2> QED BY <1>1, <2>1, LeastNumber
<1>3. PICK m : \E y \in Nat : Missed(m, y, k)
  BY <1>2
<1>4. PICK y \in Nat : Missed(m, y, k)
  BY <1>3
<1>5. k # 0
  <2>1. SUFFICES ASSUME k = 0 PROVE FALSE
    OBVIOUS
  <2>2. Priced(m, y, 0)
    BY <1>4, <2>1 DEF Priced, PricedFreely
  <2>3. m \in Seeds /\ y = SeedCosts[m]
    BY <2>2, UnmovedIsSeed
  <2> QED BY <1>4, <2>3 DEF ExpandInv, NothingMissed
<1>6. k - 1 \in Nat /\ (k - 1) + 1 = k /\ k - 1 \notin Bad
  BY <1>2, <1>5
<1>7. PricedFreely(m, y, (k - 1) + 1)
  BY <1>4, <1>6
<1>8. PICK e \in edges, z \in Nat :
         /\ e.target = m /\ y = z + Cost(e)
         /\ PricedFreely(e.source, z, k - 1) /\ ~HeldUp(e.source, z)
  <2> HIDE DEF Missed, Bad
  <2> QED BY <1>0, <1>6, <1>7, PathCameFrom
<1>9. Cost(e) \in Nat /\ Cost(e) >= 1 /\ MaxCost \in Nat
  BY <1>0, CostsAreNumbers, QueriesAssumption, ExpandAssumption
<1>10. z < y /\ z <= x /\ z <= MaxCost /\ y <= MaxCost /\ y <= x
  BY <1>4, <1>5, <1>8, <1>9
<1> DEFINE p == e.source
<1>11. Bound(p, z)
  <2>1. ~Missed(p, z, k - 1)
    BY <1>6
  <2> QED BY <1>8, <1>10, <2>1
<1>12. PICK c \in Nat : best[p].cost = Ranked(p, c)
  BY <1>11 DEF ExpandInv, ScoresAreReal, Bound
<1>13. c <= z
  <2>1. Ranked(p, c) <= Ranked(p, z)
    BY <1>11, <1>12 DEF Bound
  <2> HIDE DEF p
  <2> QED BY <2>1, RankedOrder
<1>14. Settled(e, c) \/ Pending(e, c)
  <2>1. ~Priced(p, c, MaxHops)
    BY <1>0, <1>8, <1>13, HeldUpIsPriced
  <2> QED BY <1>11, <1>12, <2>1 DEF ExpandInv, NothingMissed, Bound
<1>15. CASE Settled(e, c)
  <2>1. c + Cost(e) <= y /\ c + Cost(e) \in Nat
    BY <1>8, <1>9, <1>13
  <2>2. ~(c + Cost(e) > MaxCost)
    BY <1>9, <1>10, <2>1
  <2>3. Bound(m, c + Cost(e))
    BY <1>8, <1>15, <2>2 DEF Settled
  <2>4. Bound(m, y)
    BY <1>0, <2>1, <2>3, BoundsRise
  <2> QED BY <1>4, <2>4
<1>16. CASE Pending(e, c)
  <2>1. c < x
    BY <1>10, <1>13
  <2>2. CASE \E i \in Nat : [cost |-> c, node |-> e.source, hops |-> i] \in heap
    <3>1. PICK i \in Nat : [cost |-> c, node |-> e.source, hops |-> i] \in heap
      BY <2>2
    <3>2. x <= [cost |-> c, node |-> e.source, hops |-> i].cost
      BY <3>1
    <3>3. x <= c
      BY <3>2
    <3> QED BY <2>1, <3>3
  <2>3. CASE expandAt = "following" /\ current.cost = c
    <3>1. x <= c
      BY <2>3
    <3> QED BY <2>1, <3>1
  <2> QED BY <1>16, <2>2, <2>3 DEF Pending
<1> QED BY <1>14, <1>15, <1>16

-----------------------------------------------------------------------------
LEMMA PathsKept ==
  ASSUME UNCHANGED asked
  PROVE  \A n, c, h : Priced(n, c, h)' <=> Priced(n, c, h)
<1>1. edges' = edges
  BY DEF asked
<1> QED BY <1>1 DEF Priced, Paths

\* What is asked is typed, and candidates have numbers.
LEMMA CandidatesTyped ==
  ASSUME ExpandTypeOK, NEW d \in heap
  PROVE  d.cost \in Nat /\ d.node \in Nodes /\ d.hops \in Nat
                         /\ d = [cost |-> d.cost, node |-> d.node, hops |-> d.hops]
<1>1. d \in Candidates
  BY DEF ExpandTypeOK
<1> QED BY <1>1 DEF Candidates

LEMMA ExpandStart == AskedTypeOK /\ ExpandInit => ExpandInv
<1> SUFFICES ASSUME AskedTypeOK, ExpandInit PROVE ExpandInv
  OBVIOUS
<1>1. \A s \in Seeds : s \in Nodes /\ SeedCosts[s] \in Nat
  BY ExpandAssumption
<1>2. DOMAIN best = Seeds
  BY DEF ExpandInit
<1>3. \A s \in Seeds : /\ best[s].cost = Ranked(s, SeedCosts[s])
                       /\ best[s].hops = 0 /\ best[s] = [cost |-> best[s].cost, hops |-> 0]
  BY DEF ExpandInit
<1>4. \A s \in Seeds : Ranked(s, SeedCosts[s]) \in Nat
  BY <1>1, RankedOrder
<1>5. \A s \in Seeds : Bound(s, SeedCosts[s])
  <2> TAKE s \in Seeds
  <2>1. best[s].cost = Ranked(s, SeedCosts[s]) /\ Ranked(s, SeedCosts[s]) \in Nat
    BY <1>3, <1>4
  <2>2. best[s].cost <= Ranked(s, SeedCosts[s])
    BY <2>1
  <2> QED BY <1>2, <2>2 DEF Bound
<1>6. expandAt = "popping" /\ heap = {[cost |-> SeedCosts[s], node |-> s, hops |-> 0] : s \in Seeds}
  BY DEF ExpandInit
<1>7. ExpandTypeOK
  <2>1. heap \subseteq Candidates
    BY <1>1, <1>6 DEF Candidates
  <2>2. best = [n \in DOMAIN best |-> best[n]]
    BY DEF ExpandInit
  <2>3. \A n \in DOMAIN best : best[n] \in [cost : Nat, hops : Nat]
    BY <1>2, <1>3, <1>4
  <2> QED BY <1>1, <1>2, <1>6, <2>1, <2>2, <2>3 DEF ExpandTypeOK
<1>8. ScoresAreReal
  <2> SUFFICES ASSUME NEW n \in Seeds
               PROVE  \E c \in Nat :
                         /\ best[n].cost = Ranked(n, c) /\ Priced(n, c, best[n].hops)
                         /\ c <= MaxCost \/ best[n].hops = 0
                         /\ best[n].hops <= MaxHops
    BY <1>2 DEF ScoresAreReal
  <2>1. Priced(n, SeedCosts[n], 0)
    BY SeedsArePriced
  <2>2. 0 <= MaxHops
    BY ExpandAssumption
  <2>3. best[n].hops = 0
    BY <1>3
  <2>4. Priced(n, SeedCosts[n], best[n].hops) /\ best[n].hops <= MaxHops
    BY <2>1, <2>2, <2>3
  <2>5. SeedCosts[n] \in Nat
    BY <1>1
  <2> QED BY <1>3, <2>3, <2>4, <2>5
<1>9. Frontier
  <2> SUFFICES ASSUME NEW d \in heap PROVE IsCandidate(d)
    BY <1>6 DEF Frontier
  <2>1. PICK s \in Seeds : d = [cost |-> SeedCosts[s], node |-> s, hops |-> 0]
    BY <1>6
  <2>2. d.cost = SeedCosts[s] /\ d.node = s /\ d.hops = 0
    BY <2>1
  <2>3. Priced(d.node, d.cost, d.hops)
    BY <2>2, SeedsArePriced
  <2>4. Bound(d.node, d.cost)
    BY <1>5, <2>2
  <2>6. d.hops <= MaxHops
    BY <2>2, ExpandAssumption
  <2> QED BY <2>3, <2>4, <2>6 DEF IsCandidate
<1>10. NothingMissed
  <2>1. ASSUME NEW e \in edges, NEW c \in Nat, e.source \in DOMAIN best,
               best[e.source].cost = Ranked(e.source, c)
        PROVE  Pending(e, c)
    <3>1. e.source \in Seeds /\ SeedCosts[e.source] \in Nat
      BY <1>1, <1>2, <2>1
    <3>2. Ranked(e.source, c) = Ranked(e.source, SeedCosts[e.source])
      BY <1>3, <2>1, <3>1
    <3>3. c = SeedCosts[e.source]
      BY <3>1, <3>2, RankedOrder
    <3>4. [cost |-> c, node |-> e.source, hops |-> 0] \in heap
      BY <1>6, <3>1, <3>3
    <3> QED BY <3>4 DEF Pending
  <2> QED BY <1>5, <2>1 DEF NothingMissed
<1>11. Chosen
  BY <1>6 DEF Chosen
<1> QED BY <1>7, <1>8, <1>9, <1>10, <1>11 DEF ExpandInv

-----------------------------------------------------------------------------
LEMMA PopStep ==
  ASSUME ExpandInv, Pop, UNCHANGED asked
  PROVE  ExpandInv'
<1>1. /\ expandAt = "popping" /\ best' = best /\ kept' = kept
      /\ edges' = edges /\ floor' = floor
  BY DEF Pop, asked
<1>2. PICK d \in BestCandidates :
         /\ heap' = heap \ {d}
         /\ IF Spent(d)
            THEN UNCHANGED <<current, rest, expandAt>>
            ELSE /\ current' = d
                 /\ rest' = {e \in edges : e.source = d.node}
                 /\ expandAt' = "following"
  BY DEF Pop
<1>3. AskedTypeOK /\ ExpandTypeOK /\ d \in heap
  BY DEF ExpandInv, ExpandTypeOK, BestCandidates
<1>4. d.cost \in Nat /\ d.node \in Nodes /\ d.hops \in Nat
      /\ d = [cost |-> d.cost, node |-> d.node, hops |-> d.hops]
  BY <1>3, CandidatesTyped
<1>5. \A n, c, h : Priced(n, c, h)' <=> Priced(n, c, h)
  BY PathsKept
<1>6. \A n, c : Bound(n, c)' <=> Bound(n, c)
  BY <1>1 DEF Bound
<1>7. \A c : IsCandidate(c)' <=> IsCandidate(c)
  BY <1>5, <1>6 DEF IsCandidate
<1>8. \A e, c : Settled(e, c)' <=> Settled(e, c)
  BY <1>6 DEF Settled
<1>9. IsCandidate(d)
  BY <1>3 DEF ExpandInv, Frontier
<1>10. ExpandTypeOK'
  <2>1. AskedTypeOK'
    BY <1>1, <1>3 DEF AskedTypeOK
  <2>2. d \in Candidates
    BY <1>3 DEF ExpandTypeOK
  <2> QED BY <1>1, <1>2, <1>3, <2>1, <2>2 DEF ExpandTypeOK
<1>11. ScoresAreReal'
  BY <1>1, <1>5 DEF ExpandInv, ScoresAreReal
<1>12. Frontier'
  <2>1. \A c \in heap' : IsCandidate(c)'
    BY <1>2, <1>7 DEF ExpandInv, Frontier
  <2>2. ASSUME expandAt' = "following"
        PROVE  current' = d /\ d.hops < MaxHops
    <3>1. ~Spent(d) /\ current' = d
      BY <1>1, <1>2, <2>2
    <3> QED BY <1>4, <3>1, ExpandAssumption DEF Spent
  <2>3. \A c \in heap' : d.cost <= c.cost
    <3> TAKE c \in heap'
    <3>1. d.cost < c.cost \/ d.cost = c.cost
      BY <1>2 DEF BestCandidates
    <3>2. c.cost \in Nat
      BY <1>2, <1>3, CandidatesTyped
    <3> QED BY <1>4, <3>1, <3>2
  <2>4. IsCandidate(d)'
    BY <1>7, <1>9
  <2>5. ASSUME expandAt' = "following"
        PROVE  IsCandidate(current)' /\ current'.hops < MaxHops
    <3>1. current' = d
      BY <2>2, <2>5
    <3>2. IsCandidate(current)' <=> IsCandidate(current')
      BY <1>5, <1>6 DEF IsCandidate
    <3> QED BY <1>9, <2>2, <2>5, <3>1, <3>2
  <2> QED BY <2>1, <2>2, <2>3, <2>5 DEF Frontier
<1>13. NothingMissed'
  <2>1. \A s \in Seeds : Bound(s, SeedCosts[s])'
    BY <1>6 DEF ExpandInv, NothingMissed
  <2>2. ASSUME NEW e \in edges, NEW c \in Nat, e.source \in DOMAIN best,
               best[e.source].cost = Ranked(e.source, c)
        PROVE  Settled(e, c) \/ Pending(e, c)' \/ Priced(e.source, c, MaxHops)
    <3>1. Settled(e, c) \/ Pending(e, c) \/ Priced(e.source, c, MaxHops)
      BY <2>2 DEF ExpandInv, NothingMissed
    <3>2. CASE Pending(e, c) /\ ~(e.source = d.node /\ c = d.cost)
      <4>1. PICK h \in Nat : [cost |-> c, node |-> e.source, hops |-> h] \in heap
        BY <1>1, <3>2 DEF Pending
      <4>2. [cost |-> c, node |-> e.source, hops |-> h] # d
        BY <1>4, <3>2
      <4>3. [cost |-> c, node |-> e.source, hops |-> h] \in heap'
        BY <1>2, <4>1, <4>2
      <4> QED BY <4>3 DEF Pending
    <3>3. CASE e.source = d.node /\ c = d.cost
      <4>1. CASE Spent(d)
        <5>1. best[d.node].cost = Ranked(d.node, d.cost) /\ Ranked(d.node, d.cost) \in Nat
              /\ d.cost <= Ranked(d.node, d.cost)
          BY <1>4, <2>2, <3>3, RankedOrder
        <5>2. d.hops = MaxHops
          BY <1>4, <1>9, <4>1, <5>1, ExpandAssumption DEF Spent, IsCandidate
        <5> QED BY <1>9, <3>3, <5>2 DEF IsCandidate
      <4>2. CASE ~Spent(d)
        <5>1. expandAt' = "following" /\ current' = d /\ e \in rest'
          BY <1>2, <3>3, <4>2
        <5> QED BY <3>3, <5>1 DEF Pending
      <4> QED BY <4>1, <4>2
    <3> QED BY <3>1, <3>2, <3>3
  <2> QED BY <1>1, <1>5, <1>8, <2>1, <2>2 DEF NothingMissed
<1>14. Chosen'
  BY <1>1, <1>2 DEF Chosen
<1> QED BY <1>10, <1>11, <1>12, <1>13, <1>14 DEF ExpandInv

LEMMA FollowEdgeStep ==
  ASSUME ExpandInv, FollowEdge, UNCHANGED asked
  PROVE  ExpandInv'
<1>1. /\ expandAt = "following" /\ expandAt' = expandAt /\ current' = current
      /\ kept' = kept /\ edges' = edges /\ floor' = floor
  BY DEF FollowEdge, asked
<1>0. PICK e \in rest :
         LET path == current.cost + Cost(e)
             cost == Ranked(e.target, path)
             hops == current.hops + 1
         IN /\ rest' = rest \ {e}
            /\ IF Within(path, cost) /\ Improves(e.target, cost)
               THEN /\ best' = [n \in DOMAIN best \cup {e.target} |->
                                 IF n = e.target THEN [cost |-> cost, hops |-> hops]
                                 ELSE best[n]]
                    /\ heap' = heap \cup
                         {[cost |-> path, node |-> e.target, hops |-> hops]}
               ELSE UNCHANGED <<best, heap>>
  BY DEF FollowEdge
<1>a. PICK path : path = current.cost + Cost(e)
  OBVIOUS
<1>b. PICK hops : hops = current.hops + 1
  OBVIOUS
<1> DEFINE score == Ranked(e.target, path)
           fresh == [cost |-> path, node |-> e.target, hops |-> hops]
           Better == Within(path, score) /\ Improves(e.target, score)
<1>2. /\ rest' = rest \ {e}
      /\ IF Better
         THEN /\ best' = [n \in DOMAIN best \cup {e.target} |->
                            IF n = e.target THEN [cost |-> score, hops |-> hops]
                            ELSE best[n]]
              /\ heap' = heap \cup {fresh}
         ELSE UNCHANGED <<best, heap>>
  BY <1>0, <1>a, <1>b
<1>3. AskedTypeOK /\ ExpandTypeOK
  BY DEF ExpandInv, ExpandTypeOK
<1>4. e \in edges /\ e.source = current.node /\ current \in Candidates
  BY <1>1, <1>3 DEF ExpandTypeOK
<1>5. current.cost \in Nat /\ current.node \in Nodes /\ current.hops \in Nat
  BY <1>4 DEF Candidates
<1>6. Cost(e) \in Nat /\ Cost(e) >= 1 /\ e.target \in Nodes
  BY <1>3, <1>4, CostsAreNumbers, QueriesAssumption
<1>7. /\ path \in Nat /\ current.cost < path
      /\ score \in Nat /\ path <= score /\ hops \in Nat
  <2>1. path \in Nat /\ current.cost < path /\ hops \in Nat
    BY <1>5, <1>6, <1>a, <1>b
  <2> QED BY <2>1, RankedOrder
<1>8. /\ IsCandidate(current) /\ current.hops < MaxHops
      /\ \A d \in heap : current.cost <= d.cost
  BY <1>1 DEF ExpandInv, Frontier
<1>9. MaxCost \in Nat /\ MaxHops \in Nat
  BY ExpandAssumption
<1>10. \A n, c, h : Priced(n, c, h)' <=> Priced(n, c, h)
  BY PathsKept
<1> HIDE DEF score, fresh, Better
\* What a better path changes.
<1>11. ASSUME Better
       PROVE  /\ DOMAIN best' = DOMAIN best \cup {e.target}
              /\ best'[e.target] = [cost |-> score, hops |-> hops]
              /\ \A n \in DOMAIN best \ {e.target} : best'[n] = best[n]
              /\ heap' = heap \cup {fresh}
  BY <1>2, <1>11
<1>12. ASSUME Better
       PROVE  /\ path <= MaxCost
              /\ e.target \notin DOMAIN best \/ score < best[e.target].cost
  BY <1>7, <1>9, <1>12 DEF Better, Within, Improves
<1>13. \A n, c : Bound(n, c) /\ c \in Nat => Bound(n, c)'
  <2> SUFFICES ASSUME NEW n, NEW c \in Nat, Bound(n, c) PROVE Bound(n, c)'
    OBVIOUS
  <2>1. n \in DOMAIN best /\ best[n].cost <= Ranked(n, c)
    BY DEF Bound
  <2>2. CASE ~Better \/ n # e.target
    <3>1. n \in DOMAIN best' /\ best'[n] = best[n]
      BY <1>2, <1>11, <2>1, <2>2
    <3> QED BY <2>1, <3>1 DEF Bound
  <2>3. CASE Better /\ n = e.target
    <3>1. n \in DOMAIN best' /\ best'[n].cost = score
      BY <1>11, <2>3
    <3>2. score < best[n].cost
      BY <1>12, <2>1, <2>3
    <3>3. best[n] \in [cost : Nat, hops : Nat]
      BY <1>3, <2>1 DEF ExpandTypeOK
    <3>4. best[n].cost \in Nat /\ Ranked(n, c) \in Nat
      BY <3>3, RankedOrder
    <3>5. best'[n].cost <= Ranked(n, c)
      BY <1>7, <2>1, <3>1, <3>2, <3>4
    <3> QED BY <3>1, <3>5 DEF Bound
  <2> QED BY <2>2, <2>3
<1>14. \A d : d.cost \in Nat /\ IsCandidate(d) => IsCandidate(d)'
  BY <1>10, <1>13 DEF IsCandidate
<1>15. Bound(e.target, path)' \/ path > MaxCost
  <2>1. CASE Better
    <3>1. e.target \in DOMAIN best' /\ best'[e.target].cost = score
      BY <1>11, <2>1
    <3>2. best'[e.target].cost <= Ranked(e.target, path)
      BY <1>7, <3>1 DEF score
    <3> QED BY <3>1, <3>2 DEF Bound
  <2>2. CASE ~Within(path, score)
    BY <1>7, <1>9, <2>2 DEF Within
  <2>3. CASE ~Improves(e.target, score)
    <3>1. e.target \in DOMAIN best /\ ~(score < best[e.target].cost)
      BY <2>3 DEF Improves
    <3>2. best[e.target] \in [cost : Nat, hops : Nat]
      BY <1>3, <3>1 DEF ExpandTypeOK
    <3>3. best[e.target].cost \in Nat
      BY <3>2
    <3>4. best[e.target].cost <= Ranked(e.target, path)
      BY <1>7, <3>1, <3>3 DEF score
    <3>5. Bound(e.target, path)
      BY <3>1, <3>4 DEF Bound
    <3> QED BY <1>7, <1>13, <3>5
  <2> QED BY <2>1, <2>2, <2>3 DEF Better
<1>16. ExpandTypeOK'
  <2>1. AskedTypeOK'
    BY <1>1, <1>3 DEF AskedTypeOK
  <2>2. CASE ~Better
    BY <1>1, <1>2, <1>3, <2>1, <2>2 DEF ExpandTypeOK
  <2>3. CASE Better
    <3>1. fresh \in Candidates
      BY <1>5, <1>6, <1>7 DEF fresh, Candidates
    <3>2. heap' \subseteq Candidates
      BY <1>3, <1>11, <2>3, <3>1 DEF ExpandTypeOK
    <3>3. DOMAIN best' \subseteq Nodes
      BY <1>3, <1>6, <1>11, <2>3 DEF ExpandTypeOK
    <3>4. \A n \in DOMAIN best' : best'[n] \in [cost : Nat, hops : Nat]
      <4> TAKE n \in DOMAIN best'
      <4>1. CASE n = e.target
        BY <1>5, <1>7, <1>11, <2>3, <4>1
      <4>2. CASE n # e.target
        <5>1. n \in DOMAIN best /\ best'[n] = best[n]
          BY <1>11, <2>3, <4>2
        <5> QED BY <1>3, <5>1 DEF ExpandTypeOK
      <4> QED BY <4>1, <4>2
    <3>5. best' = [n \in DOMAIN best' |-> best'[n]]
      BY <1>2, <2>3
    <3>6. best' \in [DOMAIN best' -> [cost : Nat, hops : Nat]]
      BY <3>4, <3>5
    <3> QED BY <1>1, <1>2, <1>3, <2>1, <3>2, <3>3, <3>6 DEF ExpandTypeOK
  <2> QED BY <2>2, <2>3
<1>18. ASSUME Better PROVE IsCandidate(fresh)'
  <2>1. fresh.cost = path /\ fresh.node = e.target /\ fresh.hops = hops
    BY DEF fresh
  <2>2. Priced(e.target, path, hops)
    BY <1>3, <1>4, <1>5, <1>8, <1>a, <1>b, PathGoesOn DEF IsCandidate
  <2>3. Bound(e.target, path)'
    BY <1>7, <1>9, <1>12, <1>15, <1>18
  <2>4. hops <= MaxHops
    BY <1>5, <1>8, <1>9, <1>b
  <2>5. Priced(e.target, path, hops)'
    BY <1>10, <2>2
  <2> QED BY <2>1, <2>3, <2>4, <2>5 DEF IsCandidate
<1>19. ScoresAreReal'
  <2> SUFFICES ASSUME NEW n \in DOMAIN best'
               PROVE  \E c \in Nat :
                         /\ best'[n].cost = Ranked(n, c) /\ Priced(n, c, best'[n].hops)
                         /\ c <= MaxCost \/ best'[n].hops = 0
                         /\ best'[n].hops <= MaxHops
    BY <1>10 DEF ScoresAreReal
  <2>1. CASE Better /\ n = e.target
    <3>1. best'[n].cost = Ranked(n, path) /\ best'[n].hops = hops
      BY <1>11, <2>1 DEF score
    <3>2. path <= MaxCost
      BY <1>12, <2>1
    <3>3. hops <= MaxHops
      BY <1>5, <1>8, <1>9, <1>b
    <3>4. Priced(n, path, hops)
      BY <1>3, <1>4, <1>5, <1>8, <1>a, <1>b, <2>1, PathGoesOn DEF IsCandidate
    <3> QED BY <1>7, <3>1, <3>2, <3>3, <3>4
  <2>2. CASE ~Better \/ n # e.target
    <3>1. n \in DOMAIN best /\ best'[n] = best[n]
      BY <1>2, <1>11, <2>2
    <3> QED BY <3>1 DEF ExpandInv, ScoresAreReal
  <2> QED BY <2>1, <2>2
<1>20. Frontier'
  <2>1. ASSUME NEW d \in heap'
        PROVE  IsCandidate(d)' /\ current.cost <= d.cost
    <3>1. CASE d \in heap
      <4>1. d.cost \in Nat
        BY <1>3, <3>1, CandidatesTyped
      <4>2. IsCandidate(d) /\ current.cost <= d.cost
        BY <1>8, <3>1 DEF ExpandInv, Frontier
      <4> QED BY <1>14, <4>1, <4>2
    <3>2. CASE d \notin heap
      <4>1. Better /\ d = fresh
        BY <1>2, <1>11, <2>1, <3>2
      <4>2. current.cost <= path /\ fresh.cost = path
        BY <1>5, <1>7 DEF fresh
      <4>3. current.cost <= d.cost
        BY <4>1, <4>2
      <4>4. IsCandidate(fresh)'
        BY <1>18, <4>1
      <4> QED BY <4>1, <4>3, <4>4
    <3> QED BY <3>1, <3>2
  <2>2. IsCandidate(current)'
    <3>1. PICK d : d = current
      OBVIOUS
    <3>2. IsCandidate(d)'
      BY <1>5, <1>8, <1>14, <3>1
    <3> QED BY <1>1, <3>1, <3>2 DEF IsCandidate
  <2> QED BY <1>1, <1>8, <2>1, <2>2 DEF Frontier
<1>21. NothingMissed'
  <2>1. \A s \in Seeds : Bound(s, SeedCosts[s])'
    <3>1. \A s \in Seeds : SeedCosts[s] \in Nat
      BY ExpandAssumption
    <3> QED BY <1>13, <3>1 DEF ExpandInv, NothingMissed
  <2>2. ASSUME NEW f \in edges, NEW c \in Nat, f.source \in DOMAIN best',
               best'[f.source].cost = Ranked(f.source, c)
        PROVE  Settled(f, c)' \/ Pending(f, c)' \/ Priced(f.source, c, MaxHops)
    <3>1. CASE Better /\ f.source = e.target
      <4>1. Ranked(f.source, c) = Ranked(f.source, path)
        BY <1>11, <2>2, <3>1 DEF score
      <4>2. c = path
        BY <1>7, <4>1, RankedOrder
      <4>3. [cost |-> c, node |-> f.source, hops |-> hops] \in heap'
        BY <1>11, <3>1, <4>2 DEF fresh
      <4> QED BY <1>7, <4>3 DEF Pending
    <3>2. CASE ~(Better /\ f.source = e.target)
      <4>1. f.source \in DOMAIN best /\ best[f.source].cost = Ranked(f.source, c)
        BY <1>2, <1>11, <2>2, <3>2
      <4>2. Settled(f, c) \/ Pending(f, c) \/ Priced(f.source, c, MaxHops)
        BY <4>1 DEF ExpandInv, NothingMissed
      <4>3. CASE Settled(f, c)
        <5>1. Cost(f) \in Nat
          BY <1>3, CostsAreNumbers, QueriesAssumption
        <5>2. c + Cost(f) \in Nat
          BY <5>1
        <5>3. PICK x \in Nat : x = c + Cost(f)
          BY <5>2
        <5>4. x > MaxCost \/ Bound(f.target, x)'
          BY <1>13, <4>3, <5>3 DEF Settled
        <5>5. Cost(f)' = Cost(f)
          BY DEF Cost
        <5> QED BY <5>3, <5>4 DEF Settled, Cost
      <4>4. CASE \E h \in Nat : [cost |-> c, node |-> f.source, hops |-> h] \in heap
        <5>1. heap \subseteq heap'
          BY <1>2
        <5> QED BY <4>4, <5>1 DEF Pending
      <4>5. CASE current.node = f.source /\ current.cost = c /\ f \in rest /\ f # e
        <5>1. f \in rest'
          BY <1>2, <4>5
        <5> QED BY <1>1, <4>5, <5>1 DEF Pending
      <4>6. CASE current.cost = c /\ f = e
        <5>1. c + Cost(e) = path
          BY <1>a, <4>6
        <5>2. PICK x : x = c + Cost(e)
          OBVIOUS
        <5>3. x > MaxCost \/ Bound(e.target, x)'
          BY <1>15, <5>1, <5>2
        <5> QED BY <4>6, <5>2, <5>3 DEF Settled, Cost
      <4> QED BY <4>2, <4>3, <4>4, <4>5, <4>6 DEF Pending
    <3> QED BY <3>1, <3>2
  <2> QED BY <1>1, <1>10, <2>1, <2>2 DEF NothingMissed
<1>22. Chosen'
  BY <1>1 DEF Chosen
<1> QED BY <1>16, <1>19, <1>20, <1>21, <1>22 DEF ExpandInv

LEMMA FollowedStep ==
  ASSUME ExpandInv, Followed, UNCHANGED asked
  PROVE  ExpandInv'
<1>1. /\ expandAt = "following" /\ expandAt' = "popping" /\ rest = {}
      /\ UNCHANGED <<best, heap, current, rest, kept>>
      /\ edges' = edges /\ floor' = floor
  BY DEF Followed, asked
<1>2. \A n, c, h : Priced(n, c, h)' <=> Priced(n, c, h)
  BY PathsKept
<1>3. \A n, c : Bound(n, c)' <=> Bound(n, c)
  BY <1>1 DEF Bound
<1>4. \A c : IsCandidate(c)' <=> IsCandidate(c)
  BY <1>2, <1>3 DEF IsCandidate
<1>5. \A e, c : Settled(e, c)' <=> Settled(e, c)
  BY <1>3 DEF Settled
<1>6. \A e, c : Pending(e, c) => Pending(e, c)'
  BY <1>1 DEF Pending
<1>7. ExpandTypeOK'
  BY <1>1 DEF ExpandInv, ExpandTypeOK, AskedTypeOK
<1>8. ScoresAreReal'
  BY <1>1, <1>2 DEF ExpandInv, ScoresAreReal
<1>9. Frontier'
  BY <1>1, <1>4 DEF ExpandInv, Frontier
<1>10. NothingMissed'
  BY <1>1, <1>2, <1>3, <1>5, <1>6 DEF ExpandInv, NothingMissed
<1>11. Chosen'
  BY <1>1 DEF Chosen
<1> QED BY <1>7, <1>8, <1>9, <1>10, <1>11 DEF ExpandInv

LEMMA RankStep ==
  ASSUME ExpandInv, Rank, UNCHANGED asked
  PROVE  ExpandInv'
<1>1. /\ expandAt = "popping" /\ expandAt' = "answered" /\ heap = {}
      /\ UNCHANGED <<best, heap, current, rest>>
      /\ edges' = edges /\ floor' = floor
  BY DEF Rank, asked
<1>2. \A n, c, h : Priced(n, c, h)' <=> Priced(n, c, h)
  BY PathsKept
<1>3. \A n, c : Bound(n, c)' <=> Bound(n, c)
  BY <1>1 DEF Bound
<1>5. \A e, c : Settled(e, c)' <=> Settled(e, c)
  BY <1>3 DEF Settled
<1>6. \A e, c : Pending(e, c) => Pending(e, c)'
  BY <1>1 DEF Pending
<1>7. ExpandTypeOK'
  BY <1>1 DEF ExpandInv, ExpandTypeOK, AskedTypeOK
<1>8. ScoresAreReal'
  BY <1>1, <1>2 DEF ExpandInv, ScoresAreReal
<1>9. Frontier'
  BY <1>1 DEF Frontier
<1>10. NothingMissed'
  BY <1>1, <1>2, <1>3, <1>5, <1>6 DEF ExpandInv, NothingMissed
<1>11. Chosen'
  <2>1. \A m, n : Ahead(m, n)' <=> Ahead(m, n)
    BY <1>1 DEF Ahead
  <2>2. kept' = {n \in DOMAIN best :
                   Cardinality({m \in DOMAIN best : Ahead(m, n)}) < MaxNodes}
    BY DEF Rank
  <2> QED BY <1>1, <2>1, <2>2 DEF Chosen
<1> QED BY <1>7, <1>8, <1>9, <1>10, <1>11 DEF ExpandInv

LEMMA ExpandIdle ==
  ASSUME ExpandInv, UNCHANGED <<asked, expandVars>>
  PROVE  ExpandInv'
<1>1. /\ UNCHANGED <<best, heap, current, rest, kept, expandAt>>
      /\ edges' = edges /\ floor' = floor
  BY DEF asked, expandVars
<1>2. \A n, c, h : Priced(n, c, h)' <=> Priced(n, c, h)
  BY PathsKept
<1>3. \A n, c : Bound(n, c)' <=> Bound(n, c)
  BY <1>1 DEF Bound
<1>4. \A c : IsCandidate(c)' <=> IsCandidate(c)
  BY <1>2, <1>3 DEF IsCandidate
<1>5. \A e, c : Settled(e, c)' <=> Settled(e, c)
  BY <1>3 DEF Settled
<1>6. \A e, c : Pending(e, c) => Pending(e, c)'
  BY <1>1 DEF Pending
<1>7. ExpandTypeOK'
  BY <1>1 DEF ExpandInv, ExpandTypeOK, AskedTypeOK
<1>8. ScoresAreReal'
  BY <1>1, <1>2 DEF ExpandInv, ScoresAreReal
<1>9. Frontier'
  <2>1. IsCandidate(current)' <=> IsCandidate(current)
    BY <1>1, <1>2, <1>3 DEF IsCandidate
  <2> QED BY <1>1, <1>4, <2>1 DEF ExpandInv, Frontier
<1>10. NothingMissed'
  BY <1>1, <1>2, <1>3, <1>5, <1>6 DEF ExpandInv, NothingMissed
<1>11. Chosen'
  BY <1>1 DEF ExpandInv, Chosen, Ahead
<1> QED BY <1>7, <1>8, <1>9, <1>10, <1>11 DEF ExpandInv

\* At the end no path that is not held up is missing.
LEMMA InvGivesTheBest == ExpandInv => KeptAreTheBest
<1> SUFFICES ASSUME ExpandInv, expandAt = "answered" PROVE KeptAreTheBest
  BY DEF KeptAreTheBest
<1>1. AskedTypeOK /\ ExpandTypeOK /\ MaxHops \in Nat /\ MaxCost \in Nat
  BY ExpandAssumption DEF ExpandInv, ExpandTypeOK
<1>2. ASSUME NEW n \in DOMAIN best
      PROVE  \E s \in Seeds, k \in 0..MaxHops : \E w \in Paths(s, n, k) :
                /\ Counts(w, PathCost(s, w))
                /\ best[n] = [cost |-> Ranked(n, PathCost(s, w)), hops |-> k]
  <2>1. PICK c \in Nat :
           /\ best[n].cost = Ranked(n, c) /\ Priced(n, c, best[n].hops)
           /\ c <= MaxCost \/ best[n].hops = 0
           /\ best[n].hops <= MaxHops
    BY DEF ExpandInv, ScoresAreReal
  <2>2. best[n] \in [cost : Nat, hops : Nat]
    BY <1>1 DEF ExpandTypeOK
  <2>3. PICK k \in 0..MaxHops : k = best[n].hops
    BY <1>1, <2>1, <2>2
  <2>4. best[n] = [cost |-> Ranked(n, c), hops |-> k]
    BY <2>1, <2>2, <2>3
  <2>5. PICK s \in Seeds : \E w \in Paths(s, n, k) : c = SeedCosts[s] + Length(w)
    BY <2>1, <2>3 DEF Priced
  <2>6. PICK w \in Paths(s, n, k) : c = PathCost(s, w)
    BY <2>5 DEF PathCost
  <2>7. Counts(w, c)
    <3>1. CASE k = 0
      BY <3>1, <2>6 DEF Paths, Counts
    <3> QED BY <2>1, <2>3, <3>1 DEF Counts
  <2> QED BY <2>4, <2>6, <2>7
<1>3. ASSUME NEW n \in Nodes, NEW s \in Seeds, NEW k \in 0..MaxHops,
             NEW w \in Paths(s, n, k), Counts(w, PathCost(s, w)), Unhindered(s, w)
      PROVE  n \in DOMAIN best /\ best[n].cost <= Ranked(n, PathCost(s, w))
  <2>1. w \in [1..k -> edges] /\ k \in Nat
    BY DEF Paths
  <2>2. PICK c \in Nat : c = PathCost(s, w)
    BY <2>1, UnitsAreFinite, ExpandAssumption DEF PathCost
  <2>3. PricedFreely(n, c, k)
    BY <1>3, <2>2 DEF PricedFreely, PathCost
  <2>4. c <= MaxCost \/ k = 0
    <3>1. CASE DOMAIN w = {}
      BY <2>1, <3>1
    <3> QED BY <1>3, <2>2, <3>1 DEF Counts
  <2>5. Bound(n, c)
    BY <2>1, <2>3, <2>4, NothingCheaper DEF ExpandInv, Chosen
  <2> QED BY <2>2, <2>5 DEF Bound
<1>4. kept = {n \in DOMAIN best : Cardinality({m \in DOMAIN best : Ahead(m, n)}) < MaxNodes}
  BY DEF ExpandInv, Chosen
<1> QED BY <1>2, <1>3, <1>4 DEF KeptAreTheBest

\* Whatever the graph, the seeds and the limits: a score is that of a real path
\* above the threshold within the hops, and a node has at least the score of any
\* such path on which no node was reached as cheaply by a path that used the hops
\* up (physics.rs:129-137, 179-186).
THEOREM BestPathsFound == ExpandSpec => []KeptAreTheBest
<1>1. AskedTypeOK /\ ExpandInit => ExpandInv
  BY ExpandStart
<1>2. ExpandInv /\ [ExpandNext]_<<asked, expandVars>> => ExpandInv'
  <2> SUFFICES ASSUME ExpandInv, [ExpandNext]_<<asked, expandVars>> PROVE ExpandInv'
    OBVIOUS
  <2> QED BY PopStep, FollowEdgeStep, FollowedStep, RankStep, ExpandIdle DEF ExpandNext
<1>3. ExpandInv => KeptAreTheBest
  BY InvGivesTheBest
<1> QED BY <1>1, <1>2, <1>3, PTL DEF ExpandSpec

-----------------------------------------------------------------------------
(* Cycles                                                                  *)

\* First is the least file.
LEMMA FirstIsLeast ==
  ASSUME NEW S \in SUBSET Nat, S # {}
  PROVE  First(S) \in S /\ \A f \in S : First(S) <= f
BY LeastNumber DEF First

LEMMA FilesAreNumbers == Files \subseteq Nat
BY CyclesAssumption DEF Files

LEMMA PlacesAreNumbers ==
  ASSUME NEW s \in Seq(Files)
  PROVE  \A i \in 1..Len(s) : s[i] \in Files /\ s[i] \in Nat
<1>1. \A i \in 1..Len(s) : s[i] \in Files
  OBVIOUS
<1> QED BY <1>1, FilesAreNumbers

\* What may follow file i of a cycle: the next file, or the first again.
After(c, i) == IF i = Len(c) THEN c[1] ELSE c[i+1]

\* The cycle begins as the stack does, for i files at least.
Agrees(c, i) == i <= Len(c) /\ \A j \in 1..i : c[j] = stack[j]

\* The search has yet to come to the cycle: it begins above, or leaves the
\* stack by a neighbour not looked at.
Later(c) ==
  \/ c[1] > Start
  \/ \E i \in 1..Len(stack) : Agrees(c, i) /\ After(c, i) > tried[i]

CyclesTypeOK ==
  /\ AskedTypeOK
  /\ searcher \in {"cycles", "guard"} /\ cyclesAt \in {"walking", "answered"}
  /\ stack \in Seq(Files) /\ stack # <<>>
  /\ tried \in Seq(Int) /\ Len(tried) = Len(stack)
  /\ found \in Seq(AllCycles)

\* The stack is a path of files above the first, and follows what was tried.
StackIsPath ==
  /\ \A i, j \in 1..Len(stack) : i # j => stack[i] # stack[j]
  /\ \A i \in 1..Len(stack) : stack[1] <= stack[i]
  /\ \A i \in 1..(Len(stack)-1) : DependsOn(stack[i], stack[i+1]) /\ tried[i] = stack[i+1]
  /\ Len(stack) <= MaxFiles + 1
  /\ searcher = "cycles" => Len(stack) <= MaxFiles

\* The cycles found are those the search has passed, each once.
FoundIsBehind ==
  /\ \A i, j \in 1..Len(found) : i # j => found[i] # found[j]
  /\ \A c \in AllCycles : ~Later(c) <=> \E i \in 1..Len(found) : found[i] = c

Complete ==
  cyclesAt = "answered" /\ Len(found) < Wanted => \A c \in AllCycles : ~Later(c)

CyclesInv ==
  /\ AskedTypeOK
  /\ Files # {} => CyclesTypeOK /\ StackIsPath /\ FoundIsBehind /\ Complete
  /\ Files = {} => found = <<>>

-----------------------------------------------------------------------------
\* The neighbours the code collects are the files depended on.
LEMMA AdjacentIsDependsOn ==
  ASSUME AskedTypeOK, NEW f, NEW g
  PROVE  g \in Adjacent(f) <=> g \in Files /\ DependsOn(f, g)
<1> DEFINE Homes(n) == {FileOf[e.target] : e \in {x \in edges : x.source = n /\ x.target \in Defined}}
           Meant(n) == IF n \in Defined THEN {n}
                       ELSE {x.target : x \in {y \in edges : y.source = n}} \cap Defined
<1>1. IsFiniteSet(Files)
  <2>1. IsFiniteSet(Defined)
    BY QueriesAssumption, FS_Subset
  <2>2. FileOf \in Surjection(Defined, Files)
    BY CyclesAssumption DEF Surjection, Files
  <2> QED BY <2>1, <2>2, FS_Surjection
<1>2. ASSUME NEW n
      PROVE  g \in StandsFor(n) <=> g \in Files /\ Meant(n) # {} /\ \A t \in Meant(n) : FileOf[t] = g
  <2>1. CASE n \in Defined
    BY <2>1 DEF StandsFor, Files
  <2>2. CASE n \notin Defined
    <3>1. Homes(n) \in SUBSET Files
      BY DEF Files
    <3>2. IsFiniteSet(Homes(n))
      BY <1>1, <3>1, FS_Subset
    <3>3. Cardinality(Homes(n)) = 1 <=> \E x : Homes(n) = {x}
      BY <3>2, FS_Singleton
    <3>4. StandsFor(n) = IF Cardinality(Homes(n)) = 1 THEN Homes(n) ELSE {}
      BY <2>2 DEF StandsFor
    <3>5. g \in StandsFor(n) <=> Homes(n) = {g}
      BY <3>3, <3>4
    <3>6. Homes(n) = {FileOf[t] : t \in Meant(n)}
      BY <2>2
    <3>7. Homes(n) = {g} <=> Meant(n) # {} /\ \A t \in Meant(n) : FileOf[t] = g
      BY <3>6
    <3> QED BY <3>1, <3>5, <3>7
  <2> QED BY <2>1, <2>2
<1>3. DependsOn(f, g) <=>
        /\ f # g
        /\ \E e \in Walkable : /\ e.source \in Defined /\ FileOf[e.source] = f
                               /\ Meant(e.target) # {} /\ \A t \in Meant(e.target) : FileOf[t] = g
  BY DEF DependsOn
<1>4. g \in Adjacent(f) <=>
        /\ f # g
        /\ \E e \in Walkable : /\ e.source \in Defined /\ FileOf[e.source] = f
                               /\ g \in StandsFor(e.target)
  BY DEF Adjacent
<1> HIDE DEF Meant
<1> QED BY <1>2, <1>3, <1>4

\* What a cycle is, place by place.
LEMMA CyclePlaces ==
  ASSUME NEW c \in AllCycles
  PROVE  /\ c \in Seq(Files) /\ Len(c) \in 2..MaxFiles
         /\ \A i, j \in 1..Len(c) : i # j => c[i] # c[j]
         /\ \A i \in 1..Len(c) : c[i] \in Files /\ c[1] <= c[i]
         /\ \A i \in 1..Len(c) : DependsOn(c[i], After(c, i)) /\ After(c, i) \in Files
<1>1. PICK k \in 2..MaxFiles : c \in [1..k -> Files] /\ IsCycle(c)
  BY DEF AllCycles
<1>2. k \in Nat /\ c \in Seq(Files) /\ Len(c) = k /\ DOMAIN c = 1..k
  BY <1>1, CyclesAssumption
<1>3. \A i \in 1..k : c[i] \in Files
  BY <1>1
<1>4. \A i \in 1..k : DependsOn(c[i], After(c, i)) /\ After(c, i) \in Files
  <2>1. TAKE i \in 1..k
  <2>2. CASE i = k
    BY <1>1, <1>2, <2>2 DEF After, IsCycle
  <2>3. CASE i # k
    <3>1. i \in 1..(k-1) /\ i + 1 \in 1..k
      BY <1>2, <2>3
    <3> QED BY <1>1, <1>2, <2>3, <3>1 DEF After, IsCycle
  <2> QED BY <2>2, <2>3
<1> QED BY <1>1, <1>2, <1>3, <1>4 DEF IsCycle

-----------------------------------------------------------------------------
LEMMA Trimmed ==
  ASSUME NEW S, NEW s \in Seq(S), s # <<>>
  PROVE  /\ Front(s) \in Seq(S) /\ Len(Front(s)) = Len(s) - 1 /\ Len(s) \in Nat \ {0}
         /\ \A i \in 1..(Len(s)-1) : Front(s)[i] = s[i]
         /\ Last(s) = s[Len(s)] /\ Last(s) \in S
<1>1. Len(s) \in Nat \ {0} /\ Front(s) = SubSeq(s, 1, Len(s)-1)
  BY DEF Front
<1>2. /\ SubSeq(s, 1, Len(s)-1) \in Seq(S) /\ Len(SubSeq(s, 1, Len(s)-1)) = Len(s) - 1
      /\ \A i \in 1..(Len(s)-1) : SubSeq(s, 1, Len(s)-1)[i] = s[i]
  <2>1. PICK k \in Nat : k = Len(s) - 1
    BY <1>1
  <2>2. \A i \in 1..k : s[i] \in S
    BY <2>1
  <2>3. /\ SubSeq(s, 1, k) \in Seq(S) /\ Len(SubSeq(s, 1, k)) = IF 1 <= k THEN k - 1 + 1 ELSE 0
        /\ \A i \in 1..(k-1+1) : SubSeq(s, 1, k)[i] = s[1+i-1]
    BY <2>2, SubSeqProperties
  <2>4. k - 1 + 1 = k /\ \A i \in 1..k : 1 + i - 1 = i
    OBVIOUS
  <2> QED BY <2>1, <2>3, <2>4
<1>3. Last(s) = s[Len(s)] /\ Last(s) \in S
  BY <1>1 DEF Last
<1> QED BY <1>1, <1>2, <1>3

LEMMA Lengthened ==
  ASSUME NEW S, NEW s \in Seq(S), NEW x \in S
  PROVE  /\ Append(s, x) \in Seq(S) /\ Append(s, x) # <<>>
         /\ Len(Append(s, x)) = Len(s) + 1 /\ Len(s) \in Nat
         /\ \A i \in 1..Len(s) : Append(s, x)[i] = s[i]
         /\ Append(s, x)[Len(s) + 1] = x
OBVIOUS

\* Untried is a set of files; the least of it is what a step looks at.
LEMMA UntriedIsDependedOn ==
  ASSUME AskedTypeOK, CyclesTypeOK
  PROVE  /\ Untried \in SUBSET Nat /\ Untried \in SUBSET Files
         /\ \A f : f \in Untried <=> /\ f \in Files /\ DependsOn(stack[Len(stack)], f)
                                     /\ f > tried[Len(stack)]
<1>1. Last(stack) = stack[Len(stack)] /\ Last(tried) = tried[Len(stack)]
  BY DEF CyclesTypeOK, Last
<1>2. \A f : f \in Adjacent(Last(stack)) <=> f \in Files /\ DependsOn(Last(stack), f)
  BY AdjacentIsDependsOn
<1>3. \A f : f \in Untried <=> f \in Adjacent(Last(stack)) /\ f > Last(tried)
  BY DEF Untried
<1> QED BY <1>1, <1>2, <1>3, FilesAreNumbers

\* A cycle that leaves the top of the stack by what is not yet looked at.
LEMMA TopIsUntried ==
  ASSUME CyclesTypeOK, NEW c \in AllCycles,
         Agrees(c, Len(stack)), After(c, Len(stack)) > tried[Len(stack)]
  PROVE  After(c, Len(stack)) \in Untried
<1>1. AskedTypeOK /\ Len(stack) \in 1..Len(c) /\ c[Len(stack)] = stack[Len(stack)]
  BY CyclePlaces DEF CyclesTypeOK, Agrees
<1> QED BY <1>1, CyclePlaces, UntriedIsDependedOn

\* What a step must show of FoundIsBehind when it finds nothing.
LEMMA NothingFound ==
  ASSUME FoundIsBehind, found' = found, AllCycles' = AllCycles,
         \A c \in AllCycles : Later(c)' <=> Later(c)
  PROVE  FoundIsBehind'
BY DEF FoundIsBehind

LEMMA CyclesStay == ASSUME UNCHANGED asked
  PROVE /\ AllCycles' = AllCycles /\ (AskedTypeOK => AskedTypeOK')
        /\ \A f, g : DependsOn(f, g)' = DependsOn(f, g)
<1>1. edges' = edges /\ floor' = floor
  BY DEF asked
<1>2. Walkable' = Walkable
  BY <1>1 DEF Walkable
<1>3. \A f, g : DependsOn(f, g)' = DependsOn(f, g)
  BY <1>1, <1>2 DEF DependsOn
<1>4. \A c : IsCycle(c)' = IsCycle(c)
  BY <1>3 DEF IsCycle
<1> QED BY <1>1, <1>3, <1>4 DEF AllCycles, AskedTypeOK

\* tried with its top replaced.
LEMMA TopReplaced ==
  ASSUME CyclesTypeOK, NEW f \in Int, NEW n \in Nat, n = Len(stack)
  PROVE  /\ Append(Front(tried), f) \in Seq(Int) /\ Len(Append(Front(tried), f)) = n
         /\ Append(Front(tried), f)[n] = f
         /\ \A i \in 1..(n-1) : Append(Front(tried), f)[i] = tried[i]
<1>1. tried \in Seq(Int) /\ Len(tried) = n /\ tried # <<>>
  BY DEF CyclesTypeOK
<1>2. PICK front \in Seq(Int) : front = Front(tried)
  BY <1>1, Trimmed
<1>3. Len(front) = n - 1 /\ \A i \in 1..(n-1) : front[i] = tried[i]
  BY <1>1, <1>2, Trimmed
<1>4. /\ Append(front, f) \in Seq(Int) /\ Len(Append(front, f)) = n
      /\ \A i \in 1..(n-1) : Append(front, f)[i] = front[i]
      /\ Append(front, f)[n] = f
  BY <1>1, <1>3, Lengthened
<1> QED BY <1>2, <1>3, <1>4

-----------------------------------------------------------------------------
LEMMA SkipFileStep ==
  ASSUME CyclesTypeOK, StackIsPath, FoundIsBehind, SkipFile, UNCHANGED asked
  PROVE  CyclesTypeOK' /\ StackIsPath' /\ FoundIsBehind' /\ Complete'
<1>1. PICK n \in Nat \ {0} : n = Len(stack)
  BY DEF CyclesTypeOK
<1>2. PICK f \in Untried : f = First(Untried) /\ \A g \in Untried : f <= g
  BY UntriedIsDependedOn, FirstIsLeast DEF SkipFile, CyclesTypeOK
<1>3. /\ f # Start /\ ~Passable(f) /\ tried' = Append(Front(tried), f)
      /\ stack' = stack /\ searcher' = searcher /\ found' = found
      /\ cyclesAt' = cyclesAt /\ cyclesAt = "walking"
  BY <1>2 DEF SkipFile, LookAt, Walking
<1>4. /\ f \in Files /\ f \in Nat /\ DependsOn(stack[n], f) /\ f > tried[n]
      /\ n \in 1..n /\ tried[n] \in Int /\ stack[n] \in Files
  BY <1>1, <1>2, UntriedIsDependedOn, FilesAreNumbers DEF CyclesTypeOK
<1>5. /\ tried' \in Seq(Int) /\ Len(tried') = n /\ tried'[n] = f
      /\ \A i \in 1..(n-1) : tried'[i] = tried[i]
  BY <1>1, <1>3, <1>4, TopReplaced
<1>6. AllCycles' = AllCycles /\ AskedTypeOK' /\ \A a, b : DependsOn(a, b)' = DependsOn(a, b)
  BY CyclesStay DEF CyclesTypeOK
<1>7. CyclesTypeOK'
  BY <1>1, <1>3, <1>5, <1>6 DEF CyclesTypeOK
<1>8. StackIsPath'
  BY <1>1, <1>3, <1>5, <1>6 DEF StackIsPath
<1>9. ASSUME NEW c \in AllCycles, Agrees(c, n), After(c, n) > tried[n]
      PROVE  After(c, n) > f
  <2>1. After(c, n) \in Untried /\ After(c, n) \in Nat
    <3>1. Agrees(c, Len(stack)) /\ After(c, Len(stack)) > tried[Len(stack)]
      BY <1>1, <1>9
    <3>2. After(c, Len(stack)) \in Untried
      BY <3>1, TopIsUntried
    <3>3. Untried \in SUBSET Nat
      BY UntriedIsDependedOn DEF CyclesTypeOK
    <3> QED BY <1>1, <3>2, <3>3
  <2>2. After(c, n) # f
    <3>1. SUFFICES ASSUME After(c, n) = f PROVE FALSE
      OBVIOUS
    <3>2. /\ n <= Len(c) /\ Len(c) \in 2..MaxFiles /\ MaxFiles \in Nat
          /\ \A j \in 1..n : c[j] = stack[j]
          /\ \A i, j \in 1..Len(c) : i # j => c[i] # c[j]
          /\ \A i \in 1..Len(c) : c[i] \in Nat /\ c[1] <= c[i]
      BY <1>9, CyclePlaces, CyclesAssumption, FilesAreNumbers DEF Agrees
    <3>3. c[1] = Start /\ 1 \in 1..Len(c) /\ 1 \in 1..n
      BY <1>1, <3>2 DEF Start
    <3>4. n # Len(c) /\ f = c[n+1] /\ n + 1 \in 1..Len(c)
      BY <1>1, <1>3, <3>1, <3>2, <3>3 DEF After
    <3>5. f > Start
      BY <1>1, <3>2, <3>3, <3>4
    <3>6. ~InStack(f)
      <4>1. DOMAIN stack = 1..n
        BY <1>1 DEF CyclesTypeOK
      <4>2. \A i \in 1..n : c[n+1] # c[i]
        BY <1>1, <3>2, <3>4
      <4> QED BY <3>2, <3>4, <4>1, <4>2 DEF InStack
    <3>7. Len(stack) < MaxFiles
      BY <1>1, <3>2, <3>4
    <3> QED BY <1>3, <3>5, <3>6, <3>7 DEF Passable
  <2> QED BY <1>2, <1>4, <2>1, <2>2
<1>10. ASSUME NEW c \in AllCycles PROVE Later(c)' <=> Later(c)
  <2>1. Later(c) <=> \/ c[1] > Start
                     \/ \E i \in 1..n : Agrees(c, i) /\ After(c, i) > tried[i]
    BY <1>1 DEF Later
  <2>2. Later(c)' <=> \/ c[1] > Start
                      \/ \E i \in 1..n : Agrees(c, i) /\ After(c, i) > tried'[i]
    BY <1>1, <1>3 DEF Later, Start, Agrees
  <2>3. \A i \in 1..n : i = n \/ i \in 1..(n-1)
    OBVIOUS
  <2>4. ASSUME Agrees(c, n) PROVE After(c, n) \in Nat
    <3>1. n \in 1..Len(c)
      BY <2>4, CyclePlaces DEF Agrees
    <3> QED BY <3>1, CyclePlaces, FilesAreNumbers
  <2>5. Agrees(c, n) => (After(c, n) > tried[n] <=> After(c, n) > tried'[n])
    BY <1>4, <1>5, <1>9, <2>4
  <2> QED BY <1>5, <2>1, <2>2, <2>3, <2>5
<1>11. FoundIsBehind'
  BY <1>3, <1>6, <1>10, NothingFound
<1> QED BY <1>3, <1>7, <1>8, <1>11 DEF Complete

LEMMA CloseCycleStep ==
  ASSUME CyclesTypeOK, StackIsPath, FoundIsBehind, CloseCycle, UNCHANGED asked
  PROVE  CyclesTypeOK' /\ StackIsPath' /\ FoundIsBehind' /\ Complete'
<1>1. PICK n \in Nat \ {0} : n = Len(stack)
  BY DEF CyclesTypeOK
<1>2. /\ Start \in Untried /\ \A g \in Untried : Start <= g
      /\ tried' = Append(Front(tried), Start) /\ found' = Append(found, stack)
      /\ stack' = stack /\ searcher' = searcher /\ ~TooDeep
      /\ cyclesAt' = cyclesAt /\ cyclesAt = "walking"
  BY UntriedIsDependedOn, FirstIsLeast DEF CloseCycle, CyclesTypeOK, LookAt, Walking
<1>3. /\ Start = stack[1] /\ 1 \in 1..n /\ n \in 1..n
      /\ \A i \in 1..n : stack[i] \in Files /\ stack[i] \in Nat
      /\ DependsOn(stack[n], Start) /\ Start > tried[n] /\ tried[n] \in Int
  <2>1. AskedTypeOK /\ stack \in Seq(Files) /\ tried \in Seq(Int) /\ Len(tried) = n
    BY <1>1 DEF CyclesTypeOK
  <2>2. 1 \in 1..n /\ n \in 1..n /\ Start = stack[1]
    BY DEF Start
  <2>3. \A i \in 1..n : stack[i] \in Files /\ stack[i] \in Nat
    BY <1>1, PlacesAreNumbers DEF CyclesTypeOK
  <2>4. DependsOn(stack[n], Start) /\ Start > tried[n] /\ tried[n] \in Int
    BY <1>1, <1>2, <2>1, <2>2, UntriedIsDependedOn
  <2> QED BY <2>2, <2>3, <2>4
<1>4. /\ tried' \in Seq(Int) /\ Len(tried') = n /\ tried'[n] = Start
      /\ \A i \in 1..(n-1) : tried'[i] = tried[i]
  BY <1>1, <1>2, <1>3, TopReplaced
<1>5. AllCycles' = AllCycles /\ AskedTypeOK' /\ \A a, b : DependsOn(a, b)' = DependsOn(a, b)
  BY CyclesStay DEF CyclesTypeOK
<1>6. n \in 2..MaxFiles
  <2>1. n # 1
    BY <1>3 DEF DependsOn
  <2>2. n <= MaxFiles
    BY <1>1, <1>2, CyclesAssumption DEF TooDeep, StackIsPath, CyclesTypeOK
  <2> QED BY <2>1, <2>2, CyclesAssumption
<1>7. stack \in AllCycles
  <2>1. stack \in [1..n -> Files] /\ DOMAIN stack = 1..n
    BY <1>1 DEF CyclesTypeOK
  <2>2. IsCycle(stack)
    BY <1>1, <1>3, <2>1 DEF IsCycle, StackIsPath
  <2> QED BY <1>6, <2>1, <2>2 DEF AllCycles
<1>8. PICK m \in Nat : m = Len(found)
  BY DEF CyclesTypeOK
<1>9. /\ found' \in Seq(AllCycles) /\ Len(found') = m + 1 /\ found'[m+1] = stack
      /\ \A i \in 1..m : found'[i] = found[i]
  BY <1>2, <1>7, <1>8, Lengthened DEF CyclesTypeOK
<1>10. CyclesTypeOK'
  BY <1>1, <1>2, <1>4, <1>5, <1>9 DEF CyclesTypeOK
<1>11. StackIsPath'
  BY <1>1, <1>2, <1>4, <1>5 DEF StackIsPath
<1>12. ASSUME NEW c \in AllCycles, Agrees(c, n), After(c, n) = Start
       PROVE  c = stack
  <2>1. /\ n <= Len(c) /\ Len(c) \in Nat
        /\ \A j \in 1..n : c[j] = stack[j]
        /\ \A i, j \in 1..Len(c) : i # j => c[i] # c[j]
        /\ c \in Seq(Files)
    BY <1>12, CyclePlaces, CyclesAssumption DEF Agrees
  <2>2. n = Len(c)
    <3>1. SUFFICES ASSUME n # Len(c) PROVE FALSE
      OBVIOUS
    <3>2. c[n+1] = c[1] /\ n + 1 \in 1..Len(c) /\ 1 \in 1..Len(c)
      BY <1>3, <1>12, <2>1, <3>1 DEF After
    <3> QED BY <1>6, <2>1, <3>2
  <2>3. stack \in Seq(Files) /\ Len(stack) = Len(c)
    BY <1>1, <2>2 DEF CyclesTypeOK
  <2> QED BY <1>1, <2>1, <2>2, <2>3, SeqEqual
<1>13. After(stack, n) = Start /\ Agrees(stack, n)
  BY <1>1, <1>3 DEF After, Agrees
<1>14. ASSUME NEW c \in AllCycles PROVE Later(c)' <=> Later(c) /\ c # stack
  <2>1. Later(c) <=> \/ c[1] > Start
                     \/ \E i \in 1..n : Agrees(c, i) /\ After(c, i) > tried[i]
    BY <1>1 DEF Later
  <2>2. Later(c)' <=> \/ c[1] > Start
                      \/ \E i \in 1..n : Agrees(c, i) /\ After(c, i) > tried'[i]
    BY <1>1, <1>2 DEF Later, Start, Agrees
  <2>3. \A i \in 1..n : i = n \/ i \in 1..(n-1)
    OBVIOUS
  <2>4. CASE c = stack
    <3>1. ~(c[1] > Start)
      BY <1>3, <2>4
    <3>2. ~(After(c, n) > tried'[n])
      BY <1>3, <1>4, <1>13, <2>4
    <3>3. ASSUME NEW i \in 1..(n-1) PROVE ~(After(c, i) > tried'[i])
      <4>1. i \in 1..n /\ i # n /\ i + 1 \in 1..n
        OBVIOUS
      <4>2. After(c, i) = stack[i+1] /\ tried'[i] = stack[i+1]
        BY <1>1, <1>4, <2>4, <4>1 DEF After, StackIsPath
      <4> QED BY <1>3, <4>1, <4>2
    <3> QED BY <2>2, <2>3, <2>4, <3>1, <3>2, <3>3
  <2>5. CASE c # stack
    <3>1. ASSUME Agrees(c, n), After(c, n) > tried[n]
          PROVE  After(c, n) > Start
      <4>1. Agrees(c, Len(stack)) /\ After(c, Len(stack)) > tried[Len(stack)]
        BY <1>1, <3>1
      <4>2. After(c, n) \in Untried /\ Untried \in SUBSET Nat
        BY <1>1, <4>1, TopIsUntried, UntriedIsDependedOn DEF CyclesTypeOK
      <4>3. Start <= After(c, n) /\ After(c, n) # Start /\ After(c, n) \in Nat
        BY <1>2, <1>12, <2>5, <3>1, <4>2
      <4> QED BY <1>3, <4>3
    <3>2. ASSUME Agrees(c, n), After(c, n) > Start
          PROVE  After(c, n) > tried[n]
      <4>1. n \in 1..Len(c)
        BY <3>2, CyclePlaces DEF Agrees
      <4>2. After(c, n) \in Nat
        BY <4>1, CyclePlaces, FilesAreNumbers
      <4> QED BY <1>3, <3>2, <4>2
    <3> QED BY <1>4, <2>1, <2>2, <2>3, <2>5, <3>1, <3>2
  <2> QED BY <2>4, <2>5
<1>15. Later(stack)
  BY <1>1, <1>3, <1>13 DEF Later
<1>16. FoundIsBehind'
  <2>1. \A i \in 1..m : found[i] # stack /\ found[i] \in AllCycles
    BY <1>7, <1>8, <1>15 DEF FoundIsBehind, CyclesTypeOK
  <2>2. \A i \in 1..(m+1) : i \in 1..m \/ i = m + 1
    OBVIOUS
  <2>3. ASSUME NEW i \in 1..Len(found'), NEW j \in 1..Len(found'), i # j
        PROVE  found'[i] # found'[j]
    BY <1>8, <1>9, <2>1, <2>2, <2>3 DEF FoundIsBehind
  <2>4. ASSUME NEW c \in AllCycles
        PROVE  ~Later(c)' <=> \E i \in 1..Len(found') : found'[i] = c
    <3>1. ~Later(c)' <=> c = stack \/ \E i \in 1..m : found[i] = c
      BY <1>8, <1>14 DEF FoundIsBehind
    <3>2. (\E i \in 1..(m+1) : found'[i] = c) <=> c = stack \/ \E i \in 1..m : found[i] = c
      <4>1. m + 1 \in 1..(m+1) /\ \A i \in 1..m : i \in 1..(m+1)
        OBVIOUS
      <4> QED BY <1>9, <2>2, <4>1
    <3> QED BY <1>9, <3>1, <3>2
  <2> QED BY <1>5, <2>3, <2>4 DEF FoundIsBehind
<1> QED BY <1>2, <1>10, <1>11, <1>16 DEF Complete

LEMMA DescendStep ==
  ASSUME CyclesTypeOK, StackIsPath, FoundIsBehind, Descend, UNCHANGED asked
  PROVE  CyclesTypeOK' /\ StackIsPath' /\ FoundIsBehind' /\ Complete'
<1>1. PICK n \in Nat \ {0} : n = Len(stack)
  BY DEF CyclesTypeOK
<1>2. PICK f \in Untried : f = First(Untried) /\ \A g \in Untried : f <= g
  BY UntriedIsDependedOn, FirstIsLeast DEF Descend, CyclesTypeOK
<1>3. /\ f # Start /\ Passable(f) /\ stack' = Append(stack, f)
      /\ tried' = Append(Append(Front(tried), f), -1)
      /\ searcher' = searcher /\ found' = found /\ ~TooDeep
      /\ cyclesAt' = cyclesAt /\ cyclesAt = "walking"
  BY <1>2 DEF Descend, Walking
<1>4. /\ f \in Files /\ f \in Nat /\ DependsOn(stack[n], f) /\ f > tried[n]
      /\ n \in 1..n /\ 1 \in 1..n /\ tried[n] \in Int
      /\ \A i \in 1..n : stack[i] \in Files /\ stack[i] \in Nat
  <2>1. AskedTypeOK /\ stack \in Seq(Files) /\ tried \in Seq(Int) /\ Len(tried) = n
    BY <1>1 DEF CyclesTypeOK
  <2>2. \A i \in 1..n : stack[i] \in Files /\ stack[i] \in Nat
    BY <1>1, PlacesAreNumbers DEF CyclesTypeOK
  <2>3. f \in Files /\ DependsOn(stack[n], f) /\ f > tried[n]
    BY <1>1, <1>2, <2>1, UntriedIsDependedOn
  <2> QED BY <2>1, <2>2, <2>3, FilesAreNumbers
<1>5. /\ tried' \in Seq(Int) /\ Len(tried') = n + 1 /\ tried'[n] = f /\ tried'[n+1] = -1
      /\ \A i \in 1..(n-1) : tried'[i] = tried[i]
  <2>1. PICK top \in Seq(Int) : top = Append(Front(tried), f)
    <3>1. Append(Front(tried), f) \in Seq(Int)
      BY <1>1, <1>4, TopReplaced
    <3> QED BY <3>1
  <2>2. Len(top) = n /\ top[n] = f /\ \A i \in 1..(n-1) : top[i] = tried[i]
    BY <1>1, <1>4, <2>1, TopReplaced
  <2>3. /\ Append(top, -1) \in Seq(Int) /\ Len(Append(top, -1)) = n + 1
        /\ \A i \in 1..n : Append(top, -1)[i] = top[i]
        /\ Append(top, -1)[n+1] = -1
    BY <2>2, Lengthened
  <2> QED BY <1>3, <1>4, <2>1, <2>2, <2>3
<1>6. /\ stack' \in Seq(Files) /\ stack' # <<>> /\ Len(stack') = n + 1
      /\ \A i \in 1..n : stack'[i] = stack[i]
      /\ stack'[n+1] = f
  BY <1>1, <1>3, <1>4, Lengthened DEF CyclesTypeOK
<1>7. AllCycles' = AllCycles /\ AskedTypeOK' /\ \A a, b : DependsOn(a, b)' = DependsOn(a, b)
  BY CyclesStay DEF CyclesTypeOK
<1>8. CyclesTypeOK'
  BY <1>3, <1>5, <1>6, <1>7 DEF CyclesTypeOK
<1>9. \A i \in 1..(n+1) : i = n + 1 \/ i \in 1..n
  OBVIOUS
<1>10. StackIsPath'
  <2>1. f > stack[1] /\ \A i \in 1..n : stack[i] # f
    <3>1. f > Start /\ ~InStack(f)
      BY <1>3 DEF Passable
    <3>2. DOMAIN stack = 1..n
      BY <1>1 DEF CyclesTypeOK
    <3> QED BY <3>1, <3>2 DEF InStack, Start
  <2>2. \A i, j \in 1..(n+1) : i # j => stack'[i] # stack'[j]
    BY <1>1, <1>6, <1>9, <2>1 DEF StackIsPath
  <2>3. \A i \in 1..(n+1) : stack'[1] <= stack'[i]
    BY <1>1, <1>4, <1>6, <1>9, <2>1 DEF StackIsPath
  <2>4. ASSUME NEW i \in 1..n PROVE DependsOn(stack'[i], stack'[i+1]) /\ tried'[i] = stack'[i+1]
    <3>1. CASE i = n
      BY <1>4, <1>5, <1>6, <3>1
    <3>2. CASE i # n
      <4>1. i \in 1..(n-1) /\ i + 1 \in 1..n
        BY <3>2
      <4> QED BY <1>1, <1>5, <1>6, <4>1 DEF StackIsPath
    <3> QED BY <3>1, <3>2
  <2>5. n + 1 <= MaxFiles + 1 /\ (searcher = "cycles" => n + 1 <= MaxFiles)
    BY <1>1, <1>3, CyclesAssumption DEF Passable, TooDeep, CyclesTypeOK
  <2>6. Len(stack') - 1 = n
    BY <1>6
  <2> QED BY <1>3, <1>6, <1>7, <2>2, <2>3, <2>4, <2>5, <2>6 DEF StackIsPath
<1>11. ASSUME NEW c \in AllCycles PROVE Later(c)' <=> Later(c)
  <2>1. Later(c) <=> \/ c[1] > Start
                     \/ \E i \in 1..n : Agrees(c, i) /\ After(c, i) > tried[i]
    BY <1>1 DEF Later
  <2> DEFINE Follows == /\ n + 1 <= Len(c) /\ \A j \in 1..(n+1) : c[j] = stack'[j]
                        /\ After(c, n+1) > -1
  <2>2. Start' = Start
    BY <1>4, <1>6 DEF Start
  <2>3. \A i \in 1..n : Agrees(c, i)' <=> Agrees(c, i)
    <3>1. TAKE i \in 1..n
    <3>2. \A j \in 1..i : j \in 1..n
      OBVIOUS
    <3> QED BY <1>6, <3>2 DEF Agrees
  <2>4. Later(c)' <=> \/ c[1] > Start
                      \/ \E i \in 1..n : Agrees(c, i) /\ After(c, i) > tried'[i]
                      \/ Follows
    <3>1. Later(c)' <=> \/ c[1] > Start'
                        \/ \E i \in 1..(n+1) : Agrees(c, i)' /\ After(c, i) > tried'[i]
      BY <1>6 DEF Later
    <3>2. Agrees(c, n+1)' /\ After(c, n+1) > tried'[n+1] <=> Follows
      BY <1>5 DEF Agrees
    <3>3. n + 1 \in 1..(n+1) /\ \A i \in 1..n : i \in 1..(n+1)
      OBVIOUS
    <3> HIDE DEF Follows
    <3> QED BY <1>9, <2>2, <2>3, <3>1, <3>2, <3>3
  <2>5. /\ Len(c) \in 2..MaxFiles /\ MaxFiles \in Nat
        /\ \A i \in 1..Len(c) : c[i] \in Nat /\ After(c, i) \in Nat
    BY CyclePlaces, FilesAreNumbers, CyclesAssumption
  <2>6. ASSUME Agrees(c, n), After(c, n) > tried[n]
        PROVE  After(c, n) > f \/ Follows
    <3>1. After(c, n) \in Untried /\ After(c, n) \in Nat
      <4>1. Agrees(c, Len(stack)) /\ After(c, Len(stack)) > tried[Len(stack)]
        BY <1>1, <2>6
      <4>2. After(c, Len(stack)) \in Untried /\ Untried \in SUBSET Nat
        BY <4>1, TopIsUntried, UntriedIsDependedOn DEF CyclesTypeOK
      <4> QED BY <1>1, <4>2
    <3>2. CASE After(c, n) = f
      <4>1. c[1] = Start /\ n <= Len(c) /\ \A j \in 1..n : c[j] = stack[j]
        BY <1>4, <2>6 DEF Agrees, Start
      <4>2. n # Len(c) /\ c[n+1] = f
        BY <1>3, <3>2, <4>1 DEF After
      <4>3. n + 1 <= Len(c) /\ n + 1 \in 1..Len(c)
        BY <2>5, <4>1, <4>2
      <4>4. \A j \in 1..(n+1) : c[j] = stack'[j]
        BY <1>6, <1>9, <4>1, <4>2
      <4>5. After(c, n+1) \in Nat
        BY <2>5, <4>3
      <4> QED BY <4>3, <4>4, <4>5
    <3>3. CASE After(c, n) # f
      BY <1>2, <1>4, <3>1, <3>3
    <3> QED BY <3>2, <3>3
  <2>7. ASSUME Follows PROVE Agrees(c, n) /\ After(c, n) > tried[n]
    <3>1. Agrees(c, n)
      <4>1. \A j \in 1..n : j \in 1..(n+1)
        OBVIOUS
      <4>2. n <= Len(c)
        BY <2>5, <2>7
      <4> QED BY <1>6, <2>7, <4>1, <4>2 DEF Agrees
    <3>2. After(c, n) = f
      BY <1>6, <2>5, <2>7 DEF After
    <3> QED BY <1>4, <3>1, <3>2
  <2>8. ASSUME Agrees(c, n), After(c, n) > f PROVE After(c, n) > tried[n]
    <3>1. n \in 1..Len(c)
      BY <2>5, <2>8 DEF Agrees
    <3> QED BY <1>4, <2>5, <2>8, <3>1
  <2>9. \A i \in 1..n : i = n \/ i \in 1..(n-1)
    OBVIOUS
  <2> HIDE DEF Follows
  <2> QED BY <1>4, <1>5, <2>1, <2>4, <2>6, <2>7, <2>8, <2>9
<1>12. FoundIsBehind'
  BY <1>3, <1>7, <1>11, NothingFound
<1> QED BY <1>3, <1>8, <1>10, <1>12 DEF Complete

LEMMA GoBackStep ==
  ASSUME CyclesTypeOK, StackIsPath, FoundIsBehind, GoBack, UNCHANGED asked
  PROVE  CyclesTypeOK' /\ StackIsPath' /\ FoundIsBehind' /\ Complete'
<1>1. PICK n \in Nat \ {0} : n = Len(stack) /\ n > 1
  BY DEF CyclesTypeOK, GoBack
<1>2. /\ TooDeep \/ Untried = {}
      /\ stack' = Front(stack) /\ tried' = Front(tried)
      /\ searcher' = searcher /\ found' = found
      /\ cyclesAt' = cyclesAt /\ cyclesAt = "walking"
  BY DEF GoBack, Walking
<1>3. /\ stack' \in Seq(Files) /\ Len(stack') = n - 1 /\ stack' # <<>>
      /\ \A i \in 1..(n-1) : stack'[i] = stack[i]
  <2>1. stack \in Seq(Files) /\ stack # <<>>
    BY DEF CyclesTypeOK
  <2>2. /\ Front(stack) \in Seq(Files) /\ Len(Front(stack)) = n - 1
        /\ \A i \in 1..(n-1) : Front(stack)[i] = stack[i]
    BY <1>1, <2>1, Trimmed
  <2>3. Front(stack) # <<>>
    BY <1>1, <2>2
  <2> QED BY <1>2, <2>2, <2>3
<1>4. /\ tried' \in Seq(Int) /\ Len(tried') = n - 1
      /\ \A i \in 1..(n-1) : tried'[i] = tried[i]
  <2>1. tried \in Seq(Int) /\ tried # <<>> /\ Len(tried) = n
    BY <1>1 DEF CyclesTypeOK
  <2> QED BY <1>2, <2>1, Trimmed
<1>5. AllCycles' = AllCycles /\ AskedTypeOK' /\ \A a, b : DependsOn(a, b)' = DependsOn(a, b)
  BY CyclesStay DEF CyclesTypeOK
<1>6. CyclesTypeOK'
  BY <1>2, <1>3, <1>4, <1>5 DEF CyclesTypeOK
<1>7. 1 \in 1..(n-1) /\ \A i \in 1..n : i = n \/ i \in 1..(n-1)
  BY <1>1
<1>8. StackIsPath'
  <2>1. \A i \in 1..(n-2) : i \in 1..(n-1) /\ i + 1 \in 1..(n-1)
    OBVIOUS
  <2>2. \A i \in 1..(n-1) : i \in 1..n
    OBVIOUS
  <2>3. \A i \in 1..(n-2) : DependsOn(stack'[i], stack'[i+1]) /\ tried'[i] = stack'[i+1]
    BY <1>1, <1>3, <1>4, <2>1 DEF StackIsPath
  <2>4. Len(stack') - 1 = n - 2
    BY <1>3
  <2>5. /\ \A i, j \in 1..(n-1) : i # j => stack'[i] # stack'[j]
        /\ \A i \in 1..(n-1) : stack'[1] <= stack'[i]
    BY <1>1, <1>3, <1>7, <2>2 DEF StackIsPath
  <2>6. n - 1 <= MaxFiles + 1 /\ (searcher = "cycles" => n - 1 <= MaxFiles)
    BY <1>1, CyclesAssumption DEF StackIsPath
  <2> QED BY <1>2, <1>3, <1>5, <2>3, <2>4, <2>5, <2>6 DEF StackIsPath
<1>9. ASSUME NEW c \in AllCycles PROVE ~(Agrees(c, n) /\ After(c, n) > tried[n])
  <2>1. SUFFICES ASSUME Agrees(c, n), After(c, n) > tried[n] PROVE FALSE
    OBVIOUS
  <2>2. Agrees(c, Len(stack)) /\ After(c, Len(stack)) > tried[Len(stack)]
    BY <1>1, <2>1
  <2>3. Untried # {}
    BY <2>2, TopIsUntried
  <2>4. n <= Len(c) /\ Len(c) \in 2..MaxFiles
    BY <2>1, CyclePlaces DEF Agrees
  <2>5. n > MaxFiles
    BY <1>1, <1>2, <2>3 DEF TooDeep
  <2> QED BY <2>4, <2>5, CyclesAssumption
<1>10. ASSUME NEW c \in AllCycles PROVE Later(c)' <=> Later(c)
  <2>1. Later(c) <=> \/ c[1] > Start
                     \/ \E i \in 1..n : Agrees(c, i) /\ After(c, i) > tried[i]
    BY <1>1 DEF Later
  <2>2. \A i \in 1..(n-1) : Agrees(c, i)' <=> Agrees(c, i)
    <3>1. TAKE i \in 1..(n-1)
    <3>2. \A j \in 1..i : j \in 1..(n-1)
      OBVIOUS
    <3> QED BY <1>3, <3>2 DEF Agrees
  <2>3. Start' = Start
    BY <1>3, <1>7 DEF Start
  <2>4. Later(c)' <=> \/ c[1] > Start
                      \/ \E i \in 1..(n-1) : Agrees(c, i) /\ After(c, i) > tried[i]
    <3>1. Later(c)' <=> \/ c[1] > Start'
                        \/ \E i \in 1..(n-1) : Agrees(c, i)' /\ After(c, i) > tried'[i]
      BY <1>3 DEF Later
    <3> QED BY <1>4, <2>2, <2>3, <3>1
  <2>5. \A i \in 1..(n-1) : i \in 1..n
    OBVIOUS
  <2> QED BY <1>7, <1>9, <2>1, <2>4, <2>5
<1>11. FoundIsBehind'
  BY <1>2, <1>5, <1>10, NothingFound
<1> QED BY <1>2, <1>6, <1>8, <1>11 DEF Complete

\* On a stack of one file with nothing untried, what is ahead begins above.
LEMMA BottomIsDone ==
  ASSUME CyclesTypeOK, Len(stack) = 1, Untried = {}, NEW c \in AllCycles
  PROVE  Later(c) <=> c[1] > Start
<1>1. \A i \in 1..Len(stack) : i = Len(stack)
  OBVIOUS
<1>2. ~(Agrees(c, Len(stack)) /\ After(c, Len(stack)) > tried[Len(stack)])
  BY TopIsUntried
<1> QED BY <1>1, <1>2 DEF Later

LEMMA NextStartStep ==
  ASSUME CyclesTypeOK, StackIsPath, FoundIsBehind, NextStart, UNCHANGED asked
  PROVE  CyclesTypeOK' /\ StackIsPath' /\ FoundIsBehind' /\ Complete'
<1> DEFINE Above == {f \in Files : f > Start}
<1>1. PICK f \in Above : /\ stack' = <<f>> /\ \A g \in Above : f <= g
  <2>1. Above \in SUBSET Nat /\ Above # {} /\ stack' = <<First(Above)>>
    BY FilesAreNumbers DEF NextStart
  <2> HIDE DEF Above
  <2> QED BY <2>1, FirstIsLeast
<1>2. /\ Len(stack) = 1 /\ Untried = {} /\ tried' = <<-1>>
      /\ searcher' = searcher /\ found' = found
      /\ cyclesAt' = cyclesAt /\ cyclesAt = "walking"
  BY DEF NextStart, Walking
<1>3. f \in Files /\ f \in Nat /\ f > Start /\ Start \in Nat
  <2>1. Start \in Nat
    BY <1>2, PlacesAreNumbers DEF CyclesTypeOK, Start
  <2> QED BY <1>1, <2>1, FilesAreNumbers
<1>4. AllCycles' = AllCycles /\ AskedTypeOK' /\ \A a, b : DependsOn(a, b)' = DependsOn(a, b)
  BY CyclesStay DEF CyclesTypeOK
<1>5. /\ stack' \in Seq(Files) /\ stack' # <<>> /\ Len(stack') = 1 /\ stack'[1] = f
      /\ tried' \in Seq(Int) /\ Len(tried') = 1 /\ tried'[1] = -1
  BY <1>1, <1>2, <1>3
<1>6. CyclesTypeOK'
  BY <1>2, <1>4, <1>5 DEF CyclesTypeOK
<1>7. StackIsPath'
  <2>1. \A i \in 1..1 : i = 1
    OBVIOUS
  <2>2. 1..(1-1) = {}
    OBVIOUS
  <2> QED BY <1>3, <1>5, <2>1, <2>2, CyclesAssumption DEF StackIsPath
<1>8. ASSUME NEW c \in AllCycles PROVE Later(c)' <=> Later(c)
  <2>1. Later(c) <=> c[1] > Start
    BY <1>2, BottomIsDone
  <2>2. Len(c) \in 2..MaxFiles /\ 1 \in 1..Len(c) /\ c[1] \in Files /\ After(c, 1) \in Nat
    <3>1. Len(c) \in 2..MaxFiles /\ 1 \in 1..Len(c)
      BY CyclePlaces, CyclesAssumption
    <3> QED BY <3>1, CyclePlaces, FilesAreNumbers
  <2>3. c[1] \in Nat /\ (c[1] > Start => f <= c[1])
    BY <1>1, <2>2, FilesAreNumbers
  <2>4. Later(c)' <=> c[1] > f \/ (c[1] = f /\ After(c, 1) > -1)
    <3>1. \A i \in 1..1 : i = 1
      OBVIOUS
    <3>2. Agrees(c, 1)' <=> c[1] = f
      BY <1>5, <2>2, <3>1, CyclesAssumption DEF Agrees
    <3> QED BY <1>5, <3>1, <3>2 DEF Later, Start
  <2> QED BY <1>3, <2>1, <2>2, <2>3, <2>4
<1>9. FoundIsBehind'
  BY <1>2, <1>4, <1>8, NothingFound
<1> QED BY <1>2, <1>6, <1>7, <1>9 DEF Complete

LEMMA AnswerCyclesStep ==
  ASSUME CyclesTypeOK, StackIsPath, FoundIsBehind, AnswerCycles, UNCHANGED asked
  PROVE  CyclesTypeOK' /\ StackIsPath' /\ FoundIsBehind' /\ Complete'
<1>1. AllCycles' = AllCycles /\ AskedTypeOK' /\ \A a, b : DependsOn(a, b)' = DependsOn(a, b)
  BY CyclesStay DEF CyclesTypeOK
<1>2. /\ searcher' = searcher /\ stack' = stack /\ tried' = tried /\ found' = found
      /\ cyclesAt = "walking" /\ cyclesAt' = "answered"
  BY DEF AnswerCycles
<1>3. CyclesTypeOK'
  BY <1>1, <1>2 DEF CyclesTypeOK
<1>4. StackIsPath'
  BY <1>1, <1>2 DEF StackIsPath
<1>5. \A c \in AllCycles : Later(c)' <=> Later(c)
  BY <1>2 DEF Later, Agrees, Start
<1>6. FoundIsBehind'
  BY <1>1, <1>2, <1>5, NothingFound
<1>7. ASSUME Len(found) < Wanted, NEW c \in AllCycles PROVE ~Later(c)
  <2>1. Len(stack) = 1 /\ Untried = {} /\ \A f \in Files : f <= Start
    BY <1>2, <1>7 DEF AnswerCycles, Walking
  <2>2. Later(c) <=> c[1] > Start
    BY <2>1, BottomIsDone
  <2>3. c[1] \in Files /\ c[1] \in Nat /\ Start \in Nat
    <3>1. 1 \in 1..Len(c)
      BY CyclePlaces, CyclesAssumption
    <3>2. Start \in Nat
      BY <2>1, PlacesAreNumbers DEF CyclesTypeOK, Start
    <3> QED BY <3>1, <3>2, CyclePlaces, FilesAreNumbers
  <2> QED BY <2>1, <2>2, <2>3
<1>8. Complete'
  BY <1>1, <1>2, <1>5, <1>7 DEF Complete, Wanted
<1> QED BY <1>3, <1>4, <1>6, <1>8

-----------------------------------------------------------------------------
LEMMA CyclesStart == AskedTypeOK /\ CyclesInit => CyclesInv
<1> SUFFICES ASSUME AskedTypeOK, CyclesInit PROVE CyclesInv
  OBVIOUS
<1>1. found = <<>> /\ cyclesAt = "walking" /\ tried = <<-1>> /\ stack = <<First(Files)>>
  BY DEF CyclesInit
<1>2. ASSUME Files # {} PROVE CyclesTypeOK /\ StackIsPath /\ FoundIsBehind /\ Complete
  <2>1. PICK f \in Files : f = First(Files) /\ \A g \in Files : f <= g
    BY <1>2, FilesAreNumbers, FirstIsLeast
  <2>2. f \in Nat /\ stack = <<f>>
    BY <1>1, <2>1, FilesAreNumbers
  <2>3. /\ stack \in Seq(Files) /\ stack # <<>> /\ Len(stack) = 1 /\ stack[1] = f
        /\ tried \in Seq(Int) /\ Len(tried) = 1 /\ tried[1] = -1
        /\ found \in Seq(AllCycles) /\ Len(found) = 0
    BY <1>1, <2>1, <2>2
  <2>4. CyclesTypeOK
    BY <1>1, <2>3 DEF CyclesTypeOK, CyclesInit
  <2>5. \A i \in 1..1 : i = 1
    OBVIOUS
  <2>6. StackIsPath
    <3>1. 1..(1-1) = {}
      OBVIOUS
    <3> QED BY <2>2, <2>3, <2>5, <3>1, CyclesAssumption DEF StackIsPath
  <2>7. ASSUME NEW c \in AllCycles PROVE Later(c)
    <3>1. Len(c) \in 2..MaxFiles /\ 1 \in 1..Len(c)
      BY CyclePlaces, CyclesAssumption
    <3>2. c[1] \in Files /\ c[1] \in Nat /\ After(c, 1) \in Nat
      BY <3>1, CyclePlaces, FilesAreNumbers
    <3>3. f <= c[1]
      BY <2>1, <3>2
    <3>4. CASE c[1] = f
      <4>1. Agrees(c, 1)
        BY <2>3, <2>5, <3>1, <3>4, CyclesAssumption DEF Agrees
      <4> QED BY <2>3, <3>2, <4>1 DEF Later
    <3>5. CASE c[1] # f
      BY <2>2, <2>3, <3>2, <3>3, <3>5 DEF Later, Start
    <3> QED BY <3>4, <3>5
  <2>8. FoundIsBehind
    BY <2>3, <2>7 DEF FoundIsBehind
  <2> QED BY <1>1, <2>4, <2>6, <2>8 DEF Complete
<1> QED BY <1>1, <1>2 DEF CyclesInv

LEMMA CyclesStep == CyclesInv /\ [CyclesNext]_<<asked, cyclesVars>> => CyclesInv'
<1> SUFFICES ASSUME CyclesInv, [CyclesNext]_<<asked, cyclesVars>> PROVE CyclesInv'
  OBVIOUS
<1>1. UNCHANGED asked
  BY DEF CyclesNext
<1>2. AllCycles' = AllCycles /\ AskedTypeOK' /\ \A a, b : DependsOn(a, b)' = DependsOn(a, b)
  BY <1>1, CyclesStay DEF CyclesInv
<1>3. CASE UNCHANGED cyclesVars
  <2>1. /\ searcher' = searcher /\ stack' = stack /\ tried' = tried
        /\ found' = found /\ cyclesAt' = cyclesAt
    BY <1>3 DEF cyclesVars
  <2>2. ASSUME Files # {} PROVE CyclesTypeOK' /\ StackIsPath' /\ FoundIsBehind' /\ Complete'
    <3>1. CyclesTypeOK /\ StackIsPath /\ FoundIsBehind /\ Complete
      BY <2>2 DEF CyclesInv
    <3>2. \A c \in AllCycles : Later(c)' <=> Later(c)
      BY <2>1 DEF Later, Agrees, Start
    <3>3. CyclesTypeOK'
      BY <1>2, <2>1, <3>1 DEF CyclesTypeOK
    <3>4. StackIsPath'
      BY <1>2, <2>1, <3>1 DEF StackIsPath
    <3>5. FoundIsBehind'
      BY <1>2, <2>1, <3>1, <3>2, NothingFound
    <3>6. Complete'
      BY <1>2, <2>1, <3>1, <3>2 DEF Complete, Wanted
    <3> QED BY <3>3, <3>4, <3>5, <3>6
  <2> QED BY <1>2, <2>1, <2>2 DEF CyclesInv
<1>4. CASE CyclesNext
  <2>1. CloseCycle \/ SkipFile \/ Descend \/ GoBack \/ NextStart \/ AnswerCycles
    BY <1>4 DEF CyclesNext
  <2>2. ASSUME Files # {} PROVE CyclesTypeOK' /\ StackIsPath' /\ FoundIsBehind' /\ Complete'
    <3>1. CyclesTypeOK /\ StackIsPath /\ FoundIsBehind /\ Complete
      BY <2>2 DEF CyclesInv
    <3> QED BY <1>1, <2>1, <3>1, CloseCycleStep, SkipFileStep, DescendStep, GoBackStep,
               NextStartStep, AnswerCyclesStep
  <2>3. ASSUME Files = {} PROVE found' = <<>>
    <3>1. Defined = {} /\ found = <<>>
      BY <2>3 DEF Files, CyclesInv
    <3>2. Untried = {}
      BY <3>1 DEF Untried, Adjacent
    <3> QED BY <2>1, <3>1, <3>2 DEF CloseCycle, SkipFile, Descend, GoBack, NextStart, AnswerCycles
  <2> QED BY <1>2, <2>2, <2>3 DEF CyclesInv
<1> QED BY <1>3, <1>4

LEMMA CyclesInvAnswers == CyclesInv => CyclesAreFound
<1> SUFFICES ASSUME CyclesInv PROVE CyclesAreFound
  OBVIOUS
<1>1. CASE Files # {}
  <2>1. CyclesTypeOK /\ FoundIsBehind /\ Complete
    BY <1>1 DEF CyclesInv
  <2>2. DOMAIN found = 1..Len(found) /\ \A i \in 1..Len(found) : found[i] \in AllCycles
    BY <2>1 DEF CyclesTypeOK
  <2>3. ASSUME cyclesAt = "answered", Len(found) < Wanted
        PROVE  AllCycles = {found[i] : i \in 1..Len(found)}
    BY <2>1, <2>2, <2>3 DEF FoundIsBehind, Complete
  <2> QED BY <2>1, <2>2, <2>3 DEF CyclesAreFound, FoundIsBehind
<1>2. CASE Files = {}
  <2>1. found = <<>> /\ DOMAIN found = {}
    BY <1>2 DEF CyclesInv
  <2>2. AllCycles = {}
    <3>1. SUFFICES ASSUME NEW c \in AllCycles PROVE FALSE
      OBVIOUS
    <3>2. PICK k \in 2..MaxFiles : c \in [1..k -> Files]
      BY DEF AllCycles
    <3>3. 1 \in 1..k
      BY <3>2, CyclesAssumption
    <3> QED BY <1>2, <3>2, <3>3
  <2> QED BY <2>1, <2>2 DEF CyclesAreFound
<1> QED BY <1>1, <1>2

\* For every graph, both searches list cycles only, each once, and miss none
\* within the bound unless the limit cut the list short (mcp.rs:4357,
\* 4472-4476, guard.rs:255).
THEOREM CyclesListed == CyclesSpec => []CyclesAreFound
<1>1. CyclesSpec => []CyclesInv
  BY CyclesStart, CyclesStep, PTL DEF CyclesSpec
<1> QED BY <1>1, CyclesInvAnswers, PTL
=============================================================================
