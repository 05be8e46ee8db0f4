--------------------------- MODULE HopCountProofs ----------------------------
(***************************************************************************)
(* The hop counts of HopCount, for every graph and for both of the values  *)
(* a vertex has before the traversal.                                      *)
(*                                                                         *)
(* The queue of the traversal is not sorted: a vertex found by several     *)
(* others is appended behind vertices that are farther away.  What is      *)
(* sorted is the queue without repetitions, and only as far as its         *)
(* vertices were not visited; that is HopInv.                              *)
(***************************************************************************)
EXTENDS HopCount, SetInduction

(* The arcs go both ways. *)
GraphInv ==
  /\ edges \subseteq Pairs
  /\ \A v, w \in Vertex : <<v, w>> \in edges => <<w, v>> \in edges

LabelTypes ==
  /\ source \in Vertex
  /\ metric \in [Vertex -> {Unset} \cup Nat]
  /\ parent \in [Vertex -> Vertex \cup {None}]
  /\ visited \in SUBSET Vertex
  /\ stack_nodes \in Seq(Vertex)

Labelled == {v \in Vertex : metric[v] # Unset}
Queued(v) == \E i \in DOMAIN stack_nodes : stack_nodes[i] = v

(* Hop counts are smaller than the number of vertices that have one, so    *)
(* that INF is above all of them.                                          *)
BoundInv == \A v \in Labelled : metric[v] < Cardinality(Labelled)

(* All that a visited vertex has as neighbours is labelled.                *)
VisitedInv ==
  /\ visited \subseteq Labelled
  /\ \A u \in visited : \A v \in neighbors(u) :
       v \in Labelled /\ metric[v] <= metric[u] + 1

(* What is still to be visited waits in the queue, and nothing is more     *)
(* than one hop beyond any of it.                                          *)
FrontierInv ==
  /\ \A i \in DOMAIN stack_nodes : stack_nodes[i] \in Labelled
  /\ \A u \in Labelled \ visited : Queued(u)
  /\ \A u \in Labelled \ visited : \A v \in Labelled : metric[v] <= metric[u] + 1

(* A vertex to be visited is not nearer than those in front of it, unless  *)
(* it is itself in front of them.                                          *)
QueueInv ==
  \A i, j \in DOMAIN stack_nodes :
    i < j /\ stack_nodes[j] \notin visited =>
      \/ metric[stack_nodes[i]] <= metric[stack_nodes[j]]
      \/ \E k \in 1 .. i - 1 : stack_nodes[k] = stack_nodes[j]

(* Parents are labelled.                                                   *)
ParentInv ==
  /\ metric[source] = 0
  /\ ParentIsOneHopCloser
  /\ \A v \in Labelled \ {source} : parent[v] \in Labelled

HopInv ==
  /\ GraphInv /\ LabelTypes /\ BoundInv
  /\ VisitedInv /\ FrontierInv /\ QueueInv /\ ParentInv

LEMMA ZeroIsSet == 0 # Unset
<1>1. Cardinality(Vertex) \in Nat
  BY GraphAssumption, FS_CardinalityType
<1> QED  BY <1>1, UnsetAssumption

LEMMA NeighborFacts ==
  /\ \A v \in Vertex : neighbors(v) \subseteq Vertex
  /\ GraphInv => \A v, w \in Vertex : w \in neighbors(v) <=> v \in neighbors(w)
  /\ GraphInv => \A v \in Vertex : v \notin neighbors(v)
  BY DEF neighbors, GraphInv, Pairs

-----------------------------------------------------------------------------
(***************************************************************************)
(* The queue after a visit.                                                *)
(***************************************************************************)

(* A sequence that holds every member of a set exactly once holds all.     *)
LEMMA AllFound ==
  ASSUME NEW S, IsFiniteSet(S), NEW found \in SetToSeqs(S)
  PROVE  /\ found \in Seq(S) /\ Len(found) = Cardinality(S)
         /\ DOMAIN found = 1 .. Len(found)
         /\ \A v \in S : \E i \in DOMAIN found : found[i] = v
<1> DEFINE D == 1 .. Cardinality(S)
<1>1. found \in [D -> S] /\ \A i, j \in D : i # j => found[i] # found[j]
  BY DEF SetToSeqs
<1>2. Cardinality(S) \in Nat
  BY FS_CardinalityType
<1>3. Cardinality(D) = Cardinality(S)
  <2>1. Cardinality(S) \in Int /\ Cardinality(S) >= 1 - 1
    BY <1>2
  <2> QED  BY <2>1, FS_Interval
<1>4. found \in Injection(D, S)
  BY <1>1 DEF Injection, IsInjective
<1> HIDE DEF D
<1>5. found \in Surjection(D, S)
  BY <1>3, <1>4, FS_Injection
<1>6. \A v \in S : \E i \in D : found[i] = v
  BY <1>5 DEF Surjection
<1> QED  BY <1>1, <1>2, <1>6 DEF D

LEMMA ConcatFacts ==
  ASSUME NEW S, NEW v \in Seq(S), NEW w \in Seq(S)
  PROVE  /\ v \o w \in Seq(S) /\ Len(v \o w) = Len(v) + Len(w)
         /\ DOMAIN (v \o w) = 1 .. Len(v) + Len(w)
         /\ \A i \in 1 .. Len(v) : (v \o w)[i] = v[i]
         /\ \A i \in 1 .. Len(w) : (v \o w)[Len(v) + i] = w[i]
  OBVIOUS

LEMMA RequeueFacts ==
  ASSUME stack_nodes \in Seq(Vertex), stack_nodes # <<>>,
         NEW S \in SUBSET Vertex, NEW found \in SetToSeqs(S)
  PROVE  LET L == Len(stack_nodes) - 1
             q == Requeue(found)
         IN  /\ L \in Nat /\ DOMAIN stack_nodes = 1 .. L + 1
             /\ q \in Seq(Vertex)
             /\ \E k \in Nat : DOMAIN q = 1 .. L + k
             /\ \A i \in 1 .. L : q[i] = stack_nodes[i + 1]
             /\ \A i \in DOMAIN q : i > L => q[i] \in S
             /\ \A v \in S : \E i \in DOMAIN q : q[i] = v
<1> DEFINE L == Len(stack_nodes) - 1
           q == Requeue(found)
           t == Tail(stack_nodes)
<1>1. /\ L \in Nat /\ DOMAIN stack_nodes = 1 .. L + 1
      /\ t \in Seq(Vertex) /\ Len(t) = L
      /\ \A i \in 1 .. L : t[i] = stack_nodes[i + 1]
  OBVIOUS
<1>2. IsFiniteSet(S)
  BY GraphAssumption, FS_Subset
<1>3. /\ found \in Seq(S) /\ found \in Seq(Vertex) /\ DOMAIN found = 1 .. Len(found)
      /\ \A v \in S : \E i \in DOMAIN found : found[i] = v
      /\ Len(found) \in Nat
  <2>1. /\ found \in Seq(S) /\ DOMAIN found = 1 .. Len(found)
        /\ \A v \in S : \E i \in DOMAIN found : found[i] = v
    BY <1>2, AllFound
  <2>2. found \in Seq(Vertex) /\ Len(found) \in Nat
    BY <2>1
  <2> QED  BY <2>1, <2>2
<1>4. q = t \o found
  BY DEF Requeue
<1> HIDE DEF L, q, t
<1>5. /\ t \o found \in Seq(Vertex)
      /\ DOMAIN (t \o found) = 1 .. Len(t) + Len(found)
      /\ \A i \in 1 .. Len(t) : (t \o found)[i] = t[i]
      /\ \A i \in 1 .. Len(found) : (t \o found)[Len(t) + i] = found[i]
  <2>1. t \in Seq(Vertex) /\ found \in Seq(Vertex)
    BY <1>1, <1>3
  <2> QED  BY <2>1, ConcatFacts
<1>6. /\ q \in Seq(Vertex) /\ DOMAIN q = 1 .. L + Len(found)
      /\ \A i \in 1 .. L : q[i] = stack_nodes[i + 1]
      /\ \A i \in 1 .. Len(found) : q[L + i] = found[i]
  BY <1>1, <1>4, <1>5
<1>7. ASSUME NEW i \in DOMAIN q, i > L PROVE q[i] \in S
  <2> DEFINE j == i - L
  <2>1. j \in 1 .. Len(found) /\ L + j = i
    BY <1>1, <1>3, <1>6, <1>7
  <2> HIDE DEF j
  <2> QED  BY <1>3, <1>6, <2>1
<1>8. ASSUME NEW v \in S PROVE \E i \in DOMAIN q : q[i] = v
  <2>1. PICK j \in 1 .. Len(found) : found[j] = v
    BY <1>3
  <2>2. L + j \in DOMAIN q
    BY <1>1, <1>3, <1>6
  <2> QED  BY <1>6, <2>1, <2>2
<1> QED  BY <1>1, <1>3, <1>6, <1>7, <1>8 DEF L, q

-----------------------------------------------------------------------------
(***************************************************************************)
(* A visit.                                                                *)
(***************************************************************************)

LEMMA LabelledCount ==
  /\ IsFiniteSet(Labelled)
  /\ Cardinality(Vertex) \in Nat /\ Cardinality(Labelled) \in Nat
  /\ Cardinality(Labelled) <= Cardinality(Vertex)
<1>1. Labelled \subseteq Vertex
  BY DEF Labelled
<1> QED  BY <1>1, GraphAssumption, FS_Subset, FS_CardinalityType

(* Only what is not labelled is farther.                                   *)
LEMMA FartherIsNew ==
  ASSUME HopInv, stack_nodes # <<>>
  PROVE  LET u == Head(stack_nodes)
         IN  /\ u \in Labelled /\ metric[u] \in Nat
             /\ metric[u] + 1 # Unset
             /\ Farther(u) = neighbors(u) \ Labelled
             /\ u \in visited => Farther(u) = {}
             /\ u \notin visited =>
                  \A x \in Labelled \ visited : metric[u] <= metric[x]
<1> DEFINE u == Head(stack_nodes)
<1>1. /\ stack_nodes \in Seq(Vertex) /\ 1 \in DOMAIN stack_nodes /\ u = stack_nodes[1]
      /\ u \in Vertex
  BY DEF HopInv, LabelTypes
<1> HIDE DEF u
<1>2. u \in Labelled
  BY <1>1 DEF HopInv, FrontierInv
<1>3. \A v \in Labelled : v \in Vertex /\ metric[v] \in Nat
  BY DEF Labelled, HopInv, LabelTypes
<1>4. neighbors(u) \subseteq Vertex
  BY <1>1, NeighborFacts
<1>5. \A v \in neighbors(u) \cap Labelled : ~(metric[v] > metric[u] + 1)
  <2>1. CASE u \in visited
    BY <1>2, <1>3, <2>1 DEF HopInv, VisitedInv
  <2>2. CASE u \notin visited
    BY <1>2, <1>3, <2>2 DEF HopInv, FrontierInv
  <2> QED  BY <2>1, <2>2
<1>9. metric[u] + 1 \in Nat /\ (Unset = -1 \/ (Unset \in Nat /\ Unset > metric[u] + 1))
  <2>1. Cardinality(Labelled) \in Nat /\ Cardinality(Labelled) <= Cardinality(Vertex)
        /\ Cardinality(Vertex) \in Nat
    BY LabelledCount
  <2>2. metric[u] \in Nat /\ metric[u] < Cardinality(Labelled)
    BY <1>2, <1>3 DEF HopInv, BoundInv
  <2> QED  BY <2>1, <2>2, UnsetAssumption
<1>6. Farther(u) = neighbors(u) \ Labelled
  <2>1. \A v \in neighbors(u) : v \notin Labelled => metric[v] = Unset
    BY <1>4 DEF Labelled
  <2>2. \A v \in neighbors(u) : v \in Labelled => metric[v] \in Nat
    BY <1>3
  <2>3. \A v \in neighbors(u) :
          v \in Labelled <=> ~(metric[v] = -1 \/ metric[v] > metric[u] + 1)
    BY <1>5, <1>9, <2>1, <2>2
  <2> QED  BY <2>3 DEF Farther
<1>7. u \in visited => Farther(u) = {}
  BY <1>6 DEF HopInv, VisitedInv
<1>8. ASSUME u \notin visited, NEW x \in Labelled \ visited
      PROVE  metric[u] <= metric[x]
  <2>1. PICK j \in DOMAIN stack_nodes : stack_nodes[j] = x
    BY DEF HopInv, FrontierInv, Queued
  <2>2. CASE j = 1
    BY <1>1, <1>2, <1>3, <2>1, <2>2
  <2>3. CASE j # 1
    <3>1. 1 < j /\ 1 .. 1 - 1 = {}
      BY <1>1, <2>3
    <3> QED  BY <1>1, <2>1, <3>1 DEF HopInv, QueueInv
  <2> QED  BY <2>2, <2>3
<1> QED  BY <1>2, <1>3, <1>6, <1>7, <1>8, <1>9 DEF u

LEMMA VisitFacts ==
  ASSUME HopInv, Visit
  PROVE  LET u == Head(stack_nodes)
         IN  /\ GraphInv' /\ LabelTypes'
             /\ UNCHANGED <<edges, source>>
             /\ \A v \in Vertex : neighbors(v)' = neighbors(v)
             /\ visited' = visited \cup {u}
             /\ Labelled \subseteq Labelled' /\ neighbors(u) \subseteq Labelled'
             /\ \A v \in Labelled : metric'[v] = metric[v] /\ parent'[v] = parent[v]
             /\ \A v \in Labelled' \ Labelled :
                  /\ v \in neighbors(u) /\ u \notin visited
                  /\ metric'[v] = metric[u] + 1 /\ parent'[v] = u
             /\ \A v \in Vertex \ Labelled' : parent'[v] = parent[v]
<1> DEFINE u == Head(stack_nodes)
<1>1. stack_nodes # <<>> /\ UNCHANGED <<edges, source>>
      /\ visited' = visited \cup {u}
      /\ metric' = [v \in Vertex |->
                      IF v \in Farther(u) THEN metric[u] + 1 ELSE metric[v]]
      /\ parent' = [v \in Vertex |-> IF v \in Farther(u) THEN u ELSE parent[v]]
  BY DEF Visit
<1>2. /\ u \in Labelled /\ metric[u] \in Nat /\ metric[u] + 1 # Unset
      /\ Farther(u) = neighbors(u) \ Labelled
      /\ u \in visited => Farther(u) = {}
  BY <1>1, FartherIsNew
<1>3. PICK found \in SetToSeqs(neighbors(u) \ visited') : stack_nodes' = Requeue(found)
  BY DEF Visit
<1> HIDE DEF u
<1>4. u \in Vertex /\ neighbors(u) \subseteq Vertex
  BY <1>2, NeighborFacts DEF Labelled
<1>5. stack_nodes' \in Seq(Vertex)
  BY <1>1, <1>3, <1>4, RequeueFacts DEF HopInv, LabelTypes
<1>6. GraphInv' /\ \A v \in Vertex : neighbors(v)' = neighbors(v)
  BY <1>1 DEF HopInv, GraphInv, neighbors
<1>7. metric[u] + 1 \in Nat /\ metric[u] + 1 # Unset
  BY <1>2
<1>8. metric' \in [Vertex -> {Unset} \cup Nat]
  BY <1>1, <1>7 DEF HopInv, LabelTypes
<1>9. parent' \in [Vertex -> Vertex \cup {None}]
  BY <1>1, <1>4 DEF HopInv, LabelTypes
<1>10. LabelTypes'
  BY <1>1, <1>4, <1>5, <1>8, <1>9 DEF HopInv, LabelTypes
<1>11. Labelled' = Labelled \cup neighbors(u)
  BY <1>1, <1>2, <1>4, <1>7 DEF Labelled
<1>12. \A v \in Labelled : v \in Vertex /\ v \notin Farther(u)
  BY <1>2 DEF Labelled
<1>13. \A v \in Labelled' \ Labelled : v \in Vertex /\ v \in Farther(u)
  BY <1>2, <1>4, <1>11
<1> QED  BY <1>1, <1>2, <1>6, <1>10, <1>11, <1>12, <1>13 DEF u

LEMMA VisitBound ==
  ASSUME HopInv, Visit
  PROVE  BoundInv'
<1> DEFINE u == Head(stack_nodes)
<1>1. /\ Labelled \subseteq Labelled'
      /\ \A v \in Labelled : metric'[v] = metric[v]
      /\ \A v \in Labelled' \ Labelled : metric'[v] = metric[u] + 1
  BY VisitFacts
<1>2. u \in Labelled /\ metric[u] \in Nat
  BY FartherIsNew DEF Visit
<1>3. \A v \in Labelled : metric[v] \in Nat /\ metric[v] < Cardinality(Labelled)
  BY DEF HopInv, LabelTypes, BoundInv, Labelled
<1>4. IsFiniteSet(Labelled')
  <2>1. Labelled' \subseteq Vertex
    BY DEF Labelled
  <2> QED  BY <2>1, GraphAssumption, FS_Subset
<1> HIDE DEF u
<1>5. /\ Cardinality(Labelled) \in Nat /\ Cardinality(Labelled') \in Nat
      /\ Cardinality(Labelled) <= Cardinality(Labelled')
      /\ Labelled' # Labelled => Cardinality(Labelled) < Cardinality(Labelled')
  BY <1>1, <1>4, LabelledCount, FS_Subset, FS_CardinalityType
<1>6. ASSUME NEW v \in Labelled' PROVE metric'[v] < Cardinality(Labelled')
  <2>1. CASE v \in Labelled
    BY <1>1, <1>3, <1>5, <2>1
  <2>2. CASE v \notin Labelled
    BY <1>1, <1>2, <1>3, <1>5, <2>2
  <2> QED  BY <2>1, <2>2
<1>7. (Cardinality(Labelled))' = Cardinality(Labelled')
  OBVIOUS
<1> QED  BY <1>6, <1>7 DEF BoundInv

LEMMA VisitFrontier ==
  ASSUME HopInv, Visit
  PROVE  VisitedInv' /\ FrontierInv'
<1> DEFINE u == Head(stack_nodes)
           m == metric[u]
           L == Len(stack_nodes) - 1
           q == stack_nodes'
<1>1. /\ GraphInv' /\ LabelTypes'
      /\ \A v \in Vertex : neighbors(v)' = neighbors(v)
      /\ visited' = visited \cup {u}
      /\ Labelled \subseteq Labelled' /\ neighbors(u) \subseteq Labelled'
      /\ \A v \in Labelled : metric'[v] = metric[v]
      /\ \A v \in Labelled' \ Labelled :
           /\ v \in neighbors(u) /\ u \notin visited /\ metric'[v] = m + 1
  BY VisitFacts
<1>2. /\ stack_nodes # <<>> /\ u \in Labelled /\ m \in Nat
      /\ u \notin visited => \A x \in Labelled \ visited : m <= metric[x]
  BY FartherIsNew DEF Visit
<1>3. \A v \in Labelled' : v \in Vertex /\ metric'[v] \in Nat
  BY <1>1 DEF Labelled, LabelTypes
<1>4. \A v \in Labelled : v \in Vertex /\ metric[v] \in Nat
  BY DEF Labelled, HopInv, LabelTypes
<1>5. PICK found \in SetToSeqs(neighbors(u) \ visited') : q = Requeue(found)
  BY DEF Visit
<1>6. /\ L \in Nat /\ DOMAIN stack_nodes = 1 .. L + 1 /\ stack_nodes[1] = u
      /\ \E k \in Nat : DOMAIN q = 1 .. L + k
      /\ \A i \in 1 .. L : q[i] = stack_nodes[i + 1]
      /\ \A i \in DOMAIN q : i > L => q[i] \in neighbors(u) \ visited'
      /\ \A v \in neighbors(u) \ visited' : \E i \in DOMAIN q : q[i] = v
  <2> DEFINE S == neighbors(u) \ visited'
  <2>1. S \in SUBSET Vertex
    BY <1>2, <1>4, NeighborFacts
  <2>2. stack_nodes \in Seq(Vertex) /\ stack_nodes[1] = u
    BY DEF HopInv, LabelTypes
  <2>3. found \in SetToSeqs(S)
    OBVIOUS
  <2> HIDE DEF S
  <2>4. /\ L \in Nat /\ DOMAIN stack_nodes = 1 .. L + 1
        /\ \E k \in Nat : DOMAIN q = 1 .. L + k
        /\ \A i \in 1 .. L : q[i] = stack_nodes[i + 1]
        /\ \A i \in DOMAIN q : i > L => q[i] \in S
        /\ \A v \in S : \E i \in DOMAIN q : q[i] = v
    BY <1>2, <1>5, <2>1, <2>2, <2>3, RequeueFacts
  <2> QED  BY <2>2, <2>4 DEF S
<1> HIDE DEF u, m, L, q
<1>7. u \notin visited => \A v \in Labelled : metric[v] <= m + 1
  BY <1>2 DEF HopInv, FrontierInv, m
<1>8. \A v \in Labelled' : u \notin visited => metric'[v] <= m + 1
  BY <1>1, <1>2, <1>7
<1>9. VisitedInv'
  <2>1. \A w \in visited : \A v \in neighbors(w) :
          v \in Labelled' /\ metric'[v] <= metric'[w] + 1
    BY <1>1 DEF HopInv, VisitedInv
  <2>2. u \notin visited =>
          \A v \in neighbors(u) : v \in Labelled' /\ metric'[v] <= metric'[u] + 1
    BY <1>1, <1>2, <1>8 DEF m
  <2>3. visited' \subseteq Labelled'
    BY <1>1, <1>2 DEF HopInv, VisitedInv
  <2>4. \A w \in visited' : w \in Vertex /\ neighbors(w)' = neighbors(w)
    BY <1>1 DEF LabelTypes
  <2> QED  BY <1>1, <2>1, <2>2, <2>3, <2>4 DEF VisitedInv
<1>10. \A i \in DOMAIN q : q[i] \in Labelled'
  <2> TAKE i \in DOMAIN q
  <2>1. CASE i > L
    BY <1>1, <1>6, <2>1
  <2>2. CASE ~(i > L)
    <3>1. i \in 1 .. L /\ i + 1 \in DOMAIN stack_nodes
      BY <1>6, <2>2
    <3> QED  BY <1>1, <1>6, <3>1 DEF HopInv, FrontierInv
  <2> QED  BY <2>1, <2>2
<1>11. \A x \in Labelled' \ visited' : \E i \in DOMAIN q : q[i] = x
  <2> TAKE x \in Labelled' \ visited'
  <2>1. CASE x \in Labelled
    <3>1. PICK j \in DOMAIN stack_nodes : stack_nodes[j] = x
      BY <1>1, <2>1 DEF HopInv, FrontierInv, Queued
    <3>2. j # 1
      BY <1>1, <1>6, <3>1
    <3> DEFINE i == j - 1
    <3>3. i \in 1 .. L /\ i + 1 = j /\ i \in DOMAIN q
      BY <1>6, <3>2
    <3> HIDE DEF i
    <3> QED  BY <1>6, <3>1, <3>3
  <2>2. CASE x \notin Labelled
    BY <1>1, <1>6, <2>2
  <2> QED  BY <2>1, <2>2
<1>12. \A x \in Labelled' \ visited' : \A v \in Labelled' : metric'[v] <= metric'[x] + 1
  <2> TAKE x \in Labelled' \ visited'
  <2>1. CASE u \in visited
    BY <1>1, <2>1 DEF HopInv, FrontierInv
  <2>2. CASE u \notin visited
    <3>1. m <= metric'[x]
      <4>1. CASE x \in Labelled
        BY <1>1, <1>2, <2>2, <4>1
      <4>2. CASE x \notin Labelled
        BY <1>1, <1>2, <4>2
      <4> QED  BY <4>1, <4>2
    <3> QED  BY <1>2, <1>3, <1>8, <2>2, <3>1
  <2> QED  BY <2>1, <2>2
<1> QED  BY <1>9, <1>10, <1>11, <1>12 DEF FrontierInv, Queued, q

LEMMA VisitQueue ==
  ASSUME HopInv, Visit
  PROVE  QueueInv'
<1> DEFINE u == Head(stack_nodes)
           m == metric[u]
           L == Len(stack_nodes) - 1
           q == stack_nodes'
<1>1. /\ visited' = visited \cup {u} /\ Labelled \subseteq Labelled'
      /\ \A v \in Labelled : metric'[v] = metric[v]
      /\ \A v \in Labelled' \ Labelled :
           /\ v \in neighbors(u) /\ u \notin visited /\ metric'[v] = m + 1
      /\ neighbors(u) \subseteq Labelled'
      /\ LabelTypes'
  BY VisitFacts
<1>2. stack_nodes # <<>> /\ u \in Labelled /\ m \in Nat
  BY FartherIsNew DEF Visit
<1>3. \A v \in Labelled' : v \in Vertex /\ metric'[v] \in Nat
  BY <1>1 DEF Labelled, LabelTypes
<1>4. \A v \in Labelled : v \in Vertex
  BY DEF Labelled
<1>5. PICK found \in SetToSeqs(neighbors(u) \ visited') : q = Requeue(found)
  BY DEF Visit
<1>6. /\ L \in Nat /\ DOMAIN stack_nodes = 1 .. L + 1 /\ stack_nodes[1] = u
      /\ \E k \in Nat : DOMAIN q = 1 .. L + k
      /\ \A i \in 1 .. L : q[i] = stack_nodes[i + 1]
      /\ \A i \in DOMAIN q : i > L => q[i] \in neighbors(u) \ visited'
  <2>1. neighbors(u) \ visited' \in SUBSET Vertex
    BY <1>2, <1>4, NeighborFacts
  <2>2. stack_nodes \in Seq(Vertex) /\ stack_nodes[1] = u
    BY DEF HopInv, LabelTypes
  <2> QED  BY <1>2, <1>5, <2>1, <2>2, RequeueFacts
<1>7. \A i \in DOMAIN q : q[i] \in Labelled'
  BY VisitFrontier DEF FrontierInv
<1> HIDE DEF u, m, L, q
<1>8. \A v \in Labelled' : u \notin visited => metric'[v] <= m + 1
  <2>1. u \notin visited => \A v \in Labelled : metric[v] <= m + 1
    BY <1>2 DEF HopInv, FrontierInv, m
  <2> QED  BY <1>1, <1>2, <2>1
<1>9. ASSUME NEW i \in 1 .. L, NEW j \in 1 .. L, i < j, q[j] \notin visited'
      PROVE  \/ metric'[q[i]] <= metric'[q[j]]
             \/ \E k \in 1 .. i - 1 : q[k] = q[j]
  <2>1. i + 1 \in DOMAIN stack_nodes /\ j + 1 \in DOMAIN stack_nodes /\ i + 1 < j + 1
        /\ q[i] = stack_nodes[i + 1] /\ q[j] = stack_nodes[j + 1]
    BY <1>6, <1>9
  <2>2. q[i] \in Labelled /\ q[j] \in Labelled /\ q[j] \notin visited /\ q[j] # u
    BY <1>1, <1>9, <2>1 DEF HopInv, FrontierInv
  <2>3. CASE metric[q[i]] <= metric[q[j]]
    BY <1>1, <2>2, <2>3
  <2>4. CASE ~(metric[q[i]] <= metric[q[j]])
    <3>1. PICK k \in 1 .. (i + 1) - 1 : stack_nodes[k] = q[j]
      BY <2>1, <2>2, <2>4 DEF HopInv, QueueInv
    <3>2. k # 1
      BY <1>6, <2>2, <3>1
    <3> DEFINE p == k - 1
    <3>3. p \in 1 .. i - 1 /\ p \in 1 .. L /\ p + 1 = k
      BY <1>6, <3>2
    <3> HIDE DEF p
    <3>4. q[p] = q[j]
      BY <1>6, <3>1, <3>3
    <3> QED  BY <3>3, <3>4
  <2> QED  BY <2>3, <2>4
<1>10. ASSUME NEW i \in DOMAIN q, NEW j \in DOMAIN q, i < j, q[j] \notin visited', j > L
       PROVE  \/ metric'[q[i]] <= metric'[q[j]]
              \/ \E k \in 1 .. i - 1 : q[k] = q[j]
  <2>1. CASE q[j] \notin Labelled
    BY <1>1, <1>7, <1>8, <2>1
  <2>2. CASE q[j] \in Labelled
    <3>1. PICK r \in DOMAIN stack_nodes : stack_nodes[r] = q[j]
      BY <1>1, <1>10, <2>2 DEF HopInv, FrontierInv, Queued
    <3>2. r # 1
      BY <1>1, <1>6, <1>10, <3>1
    <3> DEFINE p == r - 1
    <3>3. p \in 1 .. L /\ p + 1 = r
      BY <1>6, <3>2
    <3> HIDE DEF p
    <3>4. q[p] = q[j]
      BY <1>6, <3>1, <3>3
    <3>5. i \in Nat /\ i >= 1
      BY <1>6
    <3>6. CASE p < i
      <4>1. p \in 1 .. i - 1
        BY <3>3, <3>5, <3>6
      <4> QED  BY <3>4, <4>1
    <3>7. CASE p = i
      <4>1. q[i] = q[j] /\ q[i] \in Labelled'
        BY <1>7, <3>4, <3>7
      <4>2. metric'[q[i]] = metric'[q[j]] /\ metric'[q[i]] \in Nat
        BY <1>3, <4>1
      <4> QED  BY <4>2
    <3>8. CASE p > i
      <4>1. i \in 1 .. L
        BY <1>6, <3>3, <3>5, <3>8
      <4>2. q[p] \notin visited'
        BY <1>10, <3>4
      <4>3. \/ metric'[q[i]] <= metric'[q[p]]
            \/ \E k \in 1 .. i - 1 : q[k] = q[p]
        BY <1>9, <3>3, <3>8, <4>1, <4>2
      <4> QED  BY <3>4, <4>3
    <3> QED  BY <3>3, <3>5, <3>6, <3>7, <3>8
  <2> QED  BY <2>1, <2>2
<1>11. ASSUME NEW i \in DOMAIN q, NEW j \in DOMAIN q, i < j, q[j] \notin visited'
       PROVE  \/ metric'[q[i]] <= metric'[q[j]]
              \/ \E k \in 1 .. i - 1 : q[k] = q[j]
  <2>1. CASE j > L
    BY <1>10, <1>11, <2>1
  <2>2. CASE ~(j > L)
    <3>1. i \in 1 .. L /\ j \in 1 .. L
      BY <1>6, <1>11, <2>2
    <3> QED  BY <1>9, <1>11, <3>1
  <2> QED  BY <2>1, <2>2
<1> QED  BY <1>11 DEF QueueInv, q

LEMMA VisitInv ==
  ASSUME HopInv, Visit
  PROVE  HopInv'
<1> DEFINE u == Head(stack_nodes)
<1>1. /\ GraphInv' /\ LabelTypes'
      /\ UNCHANGED <<edges, source>>
      /\ \A v \in Vertex : neighbors(v)' = neighbors(v)
      /\ Labelled \subseteq Labelled'
      /\ \A v \in Labelled : metric'[v] = metric[v] /\ parent'[v] = parent[v]
      /\ \A v \in Labelled' \ Labelled :
           v \in neighbors(u) /\ metric'[v] = metric[u] + 1 /\ parent'[v] = u
      /\ \A v \in Vertex \ Labelled' : parent'[v] = parent[v]
  BY VisitFacts
<1>2. u \in Labelled /\ u \in Vertex
  BY FartherIsNew DEF Visit, Labelled
<1>3. BoundInv' /\ VisitedInv' /\ FrontierInv' /\ QueueInv'
  BY VisitBound, VisitFrontier, VisitQueue
<1> HIDE DEF u
<1>4. source \in Labelled /\ metric'[source] = 0
  BY <1>1, ZeroIsSet DEF HopInv, ParentInv, LabelTypes, Labelled
<1>5. ASSUME NEW v \in Vertex \ {source}
      PROVE  IF metric'[v] = Unset THEN parent'[v] = None
             ELSE /\ parent'[v] \in neighbors(v)'
                  /\ metric'[v] = metric'[parent'[v]] + 1
                  /\ parent'[v] \in Labelled'
  <2>1. CASE v \in Labelled
    <3>1. /\ parent[v] \in neighbors(v) /\ metric[v] = metric[parent[v]] + 1
          /\ parent[v] \in Labelled /\ metric[v] # Unset
      BY <1>5, <2>1
         DEF HopInv, ParentInv, ParentIsOneHopCloser, Labelled
    <3> QED  BY <1>1, <2>1, <3>1
  <2>2. CASE v \in Labelled' \ Labelled
    <3>1. u \in neighbors(v)
      BY <1>1, <1>2, <2>2, NeighborFacts DEF HopInv
    <3>2. metric'[v] # Unset
      BY <2>2 DEF Labelled
    <3> QED  BY <1>1, <1>2, <2>2, <3>1, <3>2
  <2>3. CASE v \notin Labelled'
    <3>1. metric'[v] = Unset /\ metric[v] = Unset
      BY <1>1, <1>5, <2>3 DEF Labelled
    <3>2. parent[v] = None
      BY <3>1 DEF HopInv, ParentInv, ParentIsOneHopCloser
    <3> QED  BY <1>1, <2>3, <3>1, <3>2
  <2> QED  BY <2>1, <2>2, <2>3
<1>6. ParentInv'
  BY <1>1, <1>4, <1>5 DEF ParentInv, ParentIsOneHopCloser, Labelled
<1> QED  BY <1>1, <1>3, <1>6 DEF HopInv

(* What a traversal starts with.                                           *)
LEMMA GraphStart ==
  ASSUME edges \in {parseFile(links) : links \in Surveys}
  PROVE  GraphInv
<1>1. PICK links \in Surveys : edges = parseFile(links)
  OBVIOUS
<1>2. links \subseteq Pairs
  BY GraphAssumption
<1>3. \A l \in links : l = <<l[1], l[2]>> /\ <<l[2], l[1]>> \in Pairs
  BY <1>2 DEF Pairs
<1>4. edges \subseteq Pairs
  BY <1>1, <1>2, <1>3 DEF parseFile
<1>5. ASSUME NEW v \in Vertex, NEW w \in Vertex, <<v, w>> \in edges
      PROVE  <<w, v>> \in edges
  <2>1. CASE <<v, w>> \in links
    <3>1. <<v, w>>[1] = v /\ <<v, w>>[2] = w
      OBVIOUS
    <3> QED  BY <1>1, <2>1, <3>1 DEF parseFile
  <2>2. CASE <<v, w>> \notin links
    <3>1. PICK l \in links : <<v, w>> = <<l[2], l[1]>>
      BY <1>1, <1>5, <2>2 DEF parseFile
    <3>2. <<w, v>> = l
      BY <1>3, <3>1
    <3> QED  BY <1>1, <3>2 DEF parseFile
  <2> QED  BY <2>1, <2>2
<1> QED  BY <1>4, <1>5 DEF GraphInv

Started == \E s \in Vertex : StartAt(s)

LEMMA TraversalStart == GraphInv /\ Started => HopInv
<1> SUFFICES ASSUME GraphInv, Started PROVE HopInv
  OBVIOUS
<1> PICK s \in Vertex : StartAt(s)
  BY DEF Started
<1>1. /\ source = s /\ visited = {} /\ stack_nodes = <<s>>
      /\ metric = [v \in Vertex |-> IF v = s THEN 0 ELSE Unset]
      /\ parent = [v \in Vertex |-> None]
  BY DEF StartAt
<1>2. LabelTypes
  BY <1>1 DEF LabelTypes
<1>3. Labelled = {s}
  BY <1>1, ZeroIsSet DEF Labelled
<1>4. DOMAIN stack_nodes = {1} /\ stack_nodes[1] = s
  BY <1>1
<1>5. BoundInv
  <2>1. Cardinality(Labelled) = 1
    BY <1>3, FS_Singleton
  <2> QED  BY <1>1, <1>3, <2>1 DEF BoundInv
<1>6. VisitedInv
  BY <1>1 DEF VisitedInv
<1>7. FrontierInv
  BY <1>1, <1>3, <1>4 DEF FrontierInv, Queued
<1>8. QueueInv
  BY <1>4 DEF QueueInv
<1>9. ParentInv
  BY <1>1, <1>3 DEF ParentInv, ParentIsOneHopCloser
<1> QED  BY <1>2, <1>5, <1>6, <1>7, <1>8, <1>9 DEF HopInv

LEMMA StartInv == HopInit => HopInv
  BY GraphStart, TraversalStart DEF HopInit, Started

LEMMA SameLabels == HopInv /\ UNCHANGED hopVars => HopInv'
<1> SUFFICES ASSUME HopInv, UNCHANGED hopVars PROVE HopInv'
  OBVIOUS
<1>1. UNCHANGED <<edges, source, metric, parent, visited, stack_nodes>>
  BY DEF hopVars, labels
<1>2. Labelled' = Labelled /\ \A v \in Vertex : neighbors(v)' = neighbors(v)
  BY <1>1 DEF Labelled, neighbors
<1>3. GraphInv' /\ LabelTypes' /\ QueueInv' /\ BoundInv'
  BY <1>1, <1>2 DEF HopInv, GraphInv, LabelTypes, QueueInv, BoundInv
<1>4. FrontierInv'
  BY <1>1, <1>2 DEF HopInv, FrontierInv, Queued
<1>5. VisitedInv'
  BY <1>1, <1>2 DEF HopInv, VisitedInv, LabelTypes
<1>6. ParentInv'
  BY <1>1, <1>2 DEF HopInv, ParentInv, ParentIsOneHopCloser
<1> QED  BY <1>3, <1>4, <1>5, <1>6 DEF HopInv

-----------------------------------------------------------------------------
(***************************************************************************)
(* What can be reached.  Ball(S, s) is a recursive function; that it meets *)
(* its own equation is proved by induction over the hops.                  *)
(***************************************************************************)
Grow(S, near) == near \cup (S \cap UNION {neighbors(v) : v \in near})

Balls(S, s, f) ==
  f = [i \in 0 .. Cardinality(S) |-> IF i = 0 THEN {s} ELSE Grow(S, f[i - 1])]

LEMMA BallIs ==
  ASSUME NEW S, NEW s, Cardinality(S) \in Nat
  PROVE  Balls(S, s, Ball(S, s))
<1> DEFINE P(n, f) == f = [i \in 0 .. n |-> IF i = 0 THEN {s} ELSE Grow(S, f[i - 1])]
           G == {n \in Nat : \E f : P(n, f)}
<1>1. 0 \in G
  <2> DEFINE f0 == [i \in 0 .. 0 |-> {s}]
  <2>1. P(0, f0)
    OBVIOUS
  <2> QED  BY <2>1
<1>2. ASSUME NEW n \in Nat, n \in G PROVE n + 1 \in G
  <2>1. PICK f : P(n, f)
    BY <1>2
  <2> DEFINE g == [i \in 0 .. n + 1 |-> IF i = 0 THEN {s} ELSE Grow(S, f[i - 1])]
  <2>2. \A i \in 0 .. n : g[i] = f[i]
    <3> TAKE i \in 0 .. n
    <3>1. g[i] = IF i = 0 THEN {s} ELSE Grow(S, f[i - 1])
      OBVIOUS
    <3>2. f[i] = IF i = 0 THEN {s} ELSE Grow(S, f[i - 1])
      BY <2>1
    <3> QED  BY <3>1, <3>2
  <2>3. P(n + 1, g)
    <3>1. \A i \in 0 .. n + 1 : i # 0 => i - 1 \in 0 .. n
      OBVIOUS
    <3>2. \A i \in 0 .. n + 1 : i # 0 => g[i - 1] = f[i - 1]
      BY <2>2, <3>1
    <3> QED  BY <3>2
  <2> HIDE DEF g, P
  <2> QED  BY <2>3
<1>3. Cardinality(S) \in G
  BY <1>1, <1>2, NatSetInduction
<1>4. \E f : P(Cardinality(S), f)
  BY <1>3
<1>5. Ball(S, s) = CHOOSE f : P(Cardinality(S), f)
  BY DEF Ball, Grow
<1> HIDE DEF P
<1>6. P(Cardinality(S), Ball(S, s))
  BY <1>4, <1>5
<1> QED  BY <1>6 DEF Balls, P

LEMMA BallSteps ==
  ASSUME NEW S, NEW s, Cardinality(S) \in Nat
  PROVE  /\ DOMAIN Ball(S, s) = 0 .. Cardinality(S)
         /\ Ball(S, s)[0] = {s}
         /\ \A i \in Nat : i + 1 <= Cardinality(S) =>
              Ball(S, s)[i + 1] = Grow(S, Ball(S, s)[i])
<1> DEFINE f == Ball(S, s)
<1>1. f = [i \in 0 .. Cardinality(S) |-> IF i = 0 THEN {s} ELSE Grow(S, f[i - 1])]
  BY BallIs DEF Balls
<1> HIDE DEF f
<1>2. DOMAIN f = 0 .. Cardinality(S) /\ f[0] = {s}
  BY <1>1
<1>3. ASSUME NEW i \in Nat, i + 1 <= Cardinality(S) PROVE f[i + 1] = Grow(S, f[i])
  <2>1. i + 1 \in 0 .. Cardinality(S) /\ i + 1 # 0 /\ (i + 1) - 1 = i
    BY <1>3
  <2> QED  BY <1>1, <2>1
<1> QED  BY <1>2, <1>3 DEF f

(* T holds the neighbours in S of all its members. *)
Closed(S, T) == \A v \in T : neighbors(v) \cap S \subseteq T

LEMMA BallsNested ==
  ASSUME NEW S, NEW s, Cardinality(S) \in Nat
  PROVE  \A i, j \in 0 .. Cardinality(S) : i <= j => Ball(S, s)[i] \subseteq Ball(S, s)[j]
<1> DEFINE f == Ball(S, s)
           n == Cardinality(S)
           N == {d \in Nat : \A i \in Nat : i + d <= n => f[i] \subseteq f[i + d]}
<1>1. \A i \in Nat : i + 1 <= n => f[i] \subseteq f[i + 1]
  BY BallSteps DEF Grow
<1> HIDE DEF f
<1>2. 0 \in N
  OBVIOUS
<1>3. ASSUME NEW d \in Nat, d \in N PROVE d + 1 \in N
  <2> SUFFICES ASSUME NEW i \in Nat, i + (d + 1) <= n PROVE f[i] \subseteq f[i + (d + 1)]
    OBVIOUS
  <2>1. i + d \in Nat /\ i + d <= n /\ (i + d) + 1 <= n /\ (i + d) + 1 = i + (d + 1)
    OBVIOUS
  <2>2. f[i] \subseteq f[i + d]
    BY <1>3, <2>1
  <2>3. f[i + d] \subseteq f[(i + d) + 1]
    BY <1>1, <2>1
  <2> QED  BY <2>1, <2>2, <2>3
<1>4. Nat \subseteq N
  <2> HIDE DEF N
  <2> QED  BY <1>2, <1>3, NatSetInduction
<1>5. ASSUME NEW i \in 0 .. n, NEW j \in 0 .. n, i <= j PROVE f[i] \subseteq f[j]
  <2>1. j - i \in Nat /\ i + (j - i) = j /\ i \in Nat /\ j <= n
    BY <1>5
  <2>2. j - i \in N
    BY <1>4, <2>1
  <2> QED  BY <2>1, <2>2
<1> QED  BY <1>5 DEF f

(* Nothing outside a closed set is reached from within.                    *)
LEMMA BallsInside ==
  ASSUME NEW S, NEW s, Cardinality(S) \in Nat, NEW T, s \in T, Closed(S, T)
  PROVE  \A i \in 0 .. Cardinality(S) : Ball(S, s)[i] \subseteq T
<1> DEFINE f == Ball(S, s)
           N == {i \in Nat : i <= Cardinality(S) => f[i] \subseteq T}
<1>1. 0 \in N
  BY BallSteps
<1>2. ASSUME NEW i \in Nat, i \in N PROVE i + 1 \in N
  <2> SUFFICES ASSUME i + 1 <= Cardinality(S) PROVE f[i + 1] \subseteq T
    OBVIOUS
  <2>1. f[i] \subseteq T
    BY <1>2
  <2>2. f[i + 1] = Grow(S, f[i])
    BY BallSteps
  <2> QED  BY <2>1, <2>2 DEF Grow, Closed
<1> HIDE DEF N
<1>3. Nat \subseteq N
  BY <1>1, <1>2, NatSetInduction
<1> QED  BY <1>3 DEF N

(* As long as a ball is not closed the next one has one more vertex; there *)
(* are no more vertices than hops.                                         *)
LEMMA ReachableClosed ==
  ASSUME NEW S, IsFiniteSet(S), NEW s \in S
  PROVE  s \in Reachable(S, s) /\ Reachable(S, s) \subseteq S /\ Closed(S, Reachable(S, s))
<1> DEFINE f == Ball(S, s)
           n == Cardinality(S)
           N == {i \in Nat : i <= n => Closed(S, f[i]) \/ Cardinality(f[i]) >= i + 1}
<1>1. n \in Nat
  BY FS_CardinalityType
<1>2. Closed(S, S)
  BY DEF Closed
<1>3. \A i \in 0 .. n : f[i] \subseteq S
  BY <1>1, <1>2, BallsInside
<1>4. \A i \in 0 .. n : IsFiniteSet(f[i]) /\ Cardinality(f[i]) \in Nat /\ Cardinality(f[i]) <= n
  BY <1>3, FS_Subset, FS_CardinalityType
<1>5. f[0] = {s} /\ \A i \in Nat : i + 1 <= n => f[i + 1] = Grow(S, f[i])
  BY <1>1, BallSteps
<1> HIDE DEF f
<1>6. 0 \in N
  BY <1>5, FS_Singleton
<1>7. ASSUME NEW i \in Nat, i \in N PROVE i + 1 \in N
  <2> SUFFICES ASSUME i + 1 <= n PROVE Closed(S, f[i + 1]) \/ Cardinality(f[i + 1]) >= (i + 1) + 1
    OBVIOUS
  <2>1. i \in 0 .. n /\ i + 1 \in 0 .. n
    BY <1>1
  <2>2. CASE Closed(S, f[i])
    <3>1. Grow(S, f[i]) \subseteq f[i]
      <4>1. ASSUME NEW v \in f[i], NEW w \in neighbors(v) \cap S PROVE w \in f[i]
        BY <2>2 DEF Closed
      <4> QED  BY <4>1 DEF Grow
    <3>2. f[i] \subseteq Grow(S, f[i])
      BY DEF Grow
    <3>3. f[i + 1] = f[i]
      BY <1>5, <3>1, <3>2
    <3> QED  BY <2>2, <3>3
  <2>3. CASE ~Closed(S, f[i])
    <3>1. f[i] \subseteq f[i + 1] /\ f[i] # f[i + 1]
      BY <1>5, <2>3 DEF Grow, Closed
    <3>2. Cardinality(f[i]) < Cardinality(f[i + 1])
      BY <1>4, <2>1, <3>1, FS_Subset
    <3>3. Cardinality(f[i]) >= i + 1
      BY <1>7, <2>1, <2>3
    <3> QED  BY <1>4, <2>1, <3>2, <3>3
  <2> QED  BY <2>2, <2>3
<1> HIDE DEF N
<1>8. n \in N
  BY <1>1, <1>6, <1>7, NatSetInduction
<1>9. Closed(S, f[n])
  BY <1>1, <1>4, <1>8 DEF N
<1>10. {s} \subseteq f[n]
  BY <1>1, <1>5, BallsNested DEF f
<1> QED  BY <1>1, <1>3, <1>9, <1>10 DEF f, Reachable

LEMMA ReachableLeast ==
  ASSUME NEW S, IsFiniteSet(S), NEW s, NEW T, s \in T, Closed(S, T)
  PROVE  Reachable(S, s) \subseteq T
  BY FS_CardinalityType, BallsInside DEF Reachable

-----------------------------------------------------------------------------
(***************************************************************************)
(* Hop counts are distances.                                               *)
(***************************************************************************)
LEMMA VertexCount == IsFiniteSet(Vertex) /\ Cardinality(Vertex) \in Nat
  BY GraphAssumption, FS_CardinalityType

(* A labelled vertex is as many hops away as it says, at most.             *)
LEMMA LabelledInBall ==
  ASSUME HopInv
  PROVE  \A v \in Labelled : /\ metric[v] \in 0 .. Cardinality(Vertex)
                             /\ v \in Ball(Vertex, source)[metric[v]]
<1> DEFINE f == Ball(Vertex, source)
           n == Cardinality(Vertex)
           N == {i \in Nat : \A v \in Labelled : metric[v] = i => v \in f[i]}
<1>1. \A v \in Labelled : v \in Vertex /\ metric[v] \in Nat /\ metric[v] < n
  <2>1. \A v \in Labelled : v \in Vertex /\ metric[v] \in Nat /\ metric[v] < Cardinality(Labelled)
    BY DEF HopInv, LabelTypes, BoundInv, Labelled
  <2> QED  BY <2>1, LabelledCount
<1>2. \A v \in Labelled \ {source} :
        /\ parent[v] \in Labelled /\ v \in neighbors(parent[v])
        /\ metric[v] = metric[parent[v]] + 1
  <2> TAKE v \in Labelled \ {source}
  <2>1. /\ parent[v] \in Labelled /\ parent[v] \in neighbors(v)
        /\ metric[v] = metric[parent[v]] + 1
    BY DEF HopInv, ParentInv, ParentIsOneHopCloser, Labelled
  <2> QED  BY <1>1, <2>1, NeighborFacts DEF HopInv
<1>3. f[0] = {source} /\ \A i \in Nat : i + 1 <= n => f[i + 1] = Grow(Vertex, f[i])
  BY VertexCount, BallSteps
<1> HIDE DEF f
<1>4. 0 \in N
  <2> SUFFICES ASSUME NEW v \in Labelled, metric[v] = 0 PROVE v = source
    BY <1>3
  <2> QED  BY <1>1, <1>2
<1>5. ASSUME NEW i \in Nat, i \in N PROVE i + 1 \in N
  <2> SUFFICES ASSUME NEW v \in Labelled, metric[v] = i + 1 PROVE v \in f[i + 1]
    OBVIOUS
  <2>1. v # source
    BY DEF HopInv, ParentInv
  <2>2. parent[v] \in Labelled /\ v \in neighbors(parent[v]) /\ metric[parent[v]] = i
    BY <1>1, <1>2, <2>1
  <2>3. parent[v] \in f[i] /\ v \in Vertex
    BY <1>1, <1>5, <2>2
  <2>4. i + 1 <= n
    BY <1>1, VertexCount
  <2> QED  BY <1>3, <2>2, <2>3, <2>4 DEF Grow
<1> HIDE DEF N
<1>6. Nat \subseteq N
  BY <1>4, <1>5, NatSetInduction
<1> QED  BY <1>1, <1>6, VertexCount DEF f, N

(* Once the queue is empty nothing is nearer than it says.                 *)
LEMMA BallIsLabelled ==
  ASSUME HopInv, Labelled = visited
  PROVE  \A i \in 0 .. Cardinality(Vertex) : \A v \in Ball(Vertex, source)[i] :
           v \in Labelled /\ metric[v] <= i
<1> DEFINE f == Ball(Vertex, source)
           n == Cardinality(Vertex)
           N == {i \in Nat : i <= n => \A v \in f[i] : v \in Labelled /\ metric[v] <= i}
<1>1. \A v \in Labelled : metric[v] \in Nat
  BY DEF HopInv, LabelTypes, Labelled
<1>2. \A u \in Labelled : \A v \in neighbors(u) : v \in Labelled /\ metric[v] <= metric[u] + 1
  BY DEF HopInv, VisitedInv
<1>3. f[0] = {source} /\ \A i \in Nat : i + 1 <= n => f[i + 1] = Grow(Vertex, f[i])
  BY VertexCount, BallSteps
<1> HIDE DEF f
<1>4. 0 \in N
  BY <1>3, ZeroIsSet DEF HopInv, ParentInv, LabelTypes, Labelled
<1>5. ASSUME NEW i \in Nat, i \in N PROVE i + 1 \in N
  <2> SUFFICES ASSUME i + 1 <= n, NEW v \in f[i + 1]
               PROVE  v \in Labelled /\ metric[v] <= i + 1
    OBVIOUS
  <2>1. \A u \in f[i] : u \in Labelled /\ metric[u] <= i
    BY <1>5, VertexCount
  <2>2. CASE v \in f[i]
    BY <1>1, <2>1, <2>2
  <2>3. CASE v \notin f[i]
    <3>1. PICK u \in f[i] : v \in neighbors(u)
      BY <1>3, <2>3 DEF Grow
    <3> QED  BY <1>1, <1>2, <2>1, <3>1
  <2> QED  BY <2>2, <2>3
<1> HIDE DEF N
<1>6. Nat \subseteq N
  BY <1>4, <1>5, NatSetInduction
<1> QED  BY <1>6 DEF f, N

LEMMA QueueEmpty ==
  ASSUME HopInv, stack_nodes = <<>>
  PROVE  Labelled = visited
<1>1. DOMAIN stack_nodes = {}
  OBVIOUS
<1>2. visited \subseteq Labelled /\ \A u \in Labelled \ visited : Queued(u)
  BY DEF HopInv, FrontierInv, VisitedInv
<1>3. \A u : ~Queued(u)
  BY <1>1 DEF Queued
<1> QED  BY <1>2, <1>3

LEMMA HopsAreDistancesOf ==
  ASSUME HopInv, Labelled = visited
  PROVE  /\ visited = Reachable(Vertex, source)
         /\ \A v \in Labelled : Distance(source, v) = metric[v]
<1> DEFINE f == Ball(Vertex, source)
           n == Cardinality(Vertex)
<1>1. n \in Nat /\ DOMAIN f = 0 .. n /\ \A i, j \in 0 .. n : i <= j => f[i] \subseteq f[j]
  BY VertexCount, BallSteps, BallsNested
<1>2. \A v \in Labelled : metric[v] \in 0 .. n /\ v \in f[metric[v]]
  BY LabelledInBall
<1>3. \A i \in 0 .. n : \A v \in f[i] : v \in Labelled /\ metric[v] <= i
  BY BallIsLabelled
<1> HIDE DEF f
<1>4. Labelled = f[n]
  <2>1. n \in 0 .. n /\ \A i \in 0 .. n : i <= n
    BY <1>1
  <2>2. Labelled \subseteq f[n]
    BY <1>1, <1>2, <2>1
  <2> QED  BY <1>3, <2>1, <2>2
<1>5. ASSUME NEW v \in Labelled PROVE Distance(source, v) = metric[v]
  <2> DEFINE Is(i) == v \in f[i] /\ \A j \in 0 .. i - 1 : v \notin f[j]
  <2>1. metric[v] \in DOMAIN f /\ v \in f[metric[v]]
    BY <1>1, <1>2
  <2>2. ASSUME NEW j \in 0 .. metric[v] - 1 PROVE v \notin f[j]
    <3>1. j \in 0 .. n /\ ~(metric[v] <= j)
      BY <1>1, <1>2, <2>2
    <3> QED  BY <1>3, <3>1
  <2>3. Is(metric[v])
    BY <2>1, <2>2
  <2>4. ASSUME NEW i \in DOMAIN f, Is(i) PROVE i = metric[v]
    <3>1. i \in 0 .. n /\ metric[v] <= i
      BY <1>1, <1>3, <2>4
    <3>2. metric[v] \notin 0 .. i - 1
      BY <2>1, <2>4
    <3> QED  BY <1>2, <3>1, <3>2
  <2>5. Distance(source, v) = CHOOSE i \in DOMAIN f : Is(i)
    BY DEF Distance, f
  <2> HIDE DEF Is
  <2> QED  BY <2>1, <2>3, <2>4, <2>5
<1> QED  BY <1>4, <1>5 DEF f, Reachable

LEMMA HopsTraversed == HopInv => HopsAreDistances
<1> SUFFICES ASSUME HopInv, stack_nodes = <<>>
             PROVE  /\ visited = Reachable(Vertex, source)
                    /\ \A v \in Vertex :
                         metric[v] = IF v \in visited THEN Distance(source, v) ELSE Unset
  BY DEF HopsAreDistances
<1>1. Labelled = visited
  BY QueueEmpty
<1>2. \A v \in Vertex : v \notin visited => metric[v] = Unset
  BY <1>1 DEF Labelled
<1> QED  BY <1>1, <1>2, HopsAreDistancesOf

LEMMA HopTypes == HopInv => HopTypeOK
<1> SUFFICES ASSUME HopInv PROVE HopTypeOK
  OBVIOUS
<1>1. metric \in [Vertex -> {Unset} \cup Nat]
  BY DEF HopInv, LabelTypes
<1>2. \A v \in Vertex : metric[v] \in {Unset} \cup (0 .. Cardinality(Vertex))
  BY LabelledInBall DEF Labelled
<1>3. metric \in [Vertex -> {Unset} \cup (0 .. Cardinality(Vertex))]
  BY <1>1, <1>2
<1> QED  BY <1>3 DEF HopTypeOK, HopInv, GraphInv, LabelTypes

(* Distances are a matter of the arcs alone.                               *)
LEMMA SameDistances ==
  ASSUME UNCHANGED edges
  PROVE  /\ \A s, v : Distance(s, v)' = Distance(s, v)
         /\ \A s : Reachable(Vertex, s)' = Reachable(Vertex, s)
<1>1. \A s : Ball(Vertex, s)' = Ball(Vertex, s)
  BY DEF Ball, neighbors
<1>2. \A s : Reachable(Vertex, s)' = Reachable(Vertex, s)
  BY <1>1 DEF Reachable
<1>3. \A s, v : Distance(s, v)' = Distance(s, v)
  BY <1>1 DEF Distance
<1> QED  BY <1>2, <1>3

=============================================================================
