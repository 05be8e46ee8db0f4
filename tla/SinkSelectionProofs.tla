------------------------ MODULE SinkSelectionProofs --------------------------
(***************************************************************************)
(* Theorems about SinkSelection, for every graph: the sums of one trial    *)
(* owe nothing to the trials before it, and the smallest one belongs to a  *)
(* central vertex.                                                         *)
(***************************************************************************)
EXTENDS SinkSelection, HopCountProofs

(* The sum a trial of s should come to.                                    *)
Expected(s) ==
  TotalHops(s) + Unset * Cardinality(Vertex \ Reachable(Vertex, s))

(* Every vertex is still to be tried, being tried, or scored.              *)
TriedInv ==
  \A v \in Vertex : \/ v \in untried
                    \/ running /\ v = source
                    \/ \E p \in scores : p[2] = v

SinkInv ==
  /\ GraphInv /\ SinkTypeOK
  /\ running => HopInv
  /\ \A p \in scores : p[1] = Expected(p[2])
  /\ TriedInv

LEMMA ReachableFinite ==
  ASSUME NEW s \in Vertex
  PROVE  LET R == Reachable(Vertex, s)
         IN  /\ R \subseteq Vertex /\ IsFiniteSet(R) /\ IsFiniteSet(Vertex \ R)
             /\ Cardinality(R) \in Nat /\ Cardinality(R) <= Cardinality(Vertex)
             /\ Cardinality(Vertex \ R) \in Nat
             /\ Cardinality(Vertex \ R) = Cardinality(Vertex) - Cardinality(R)
<1> DEFINE R == Reachable(Vertex, s)
<1>1. R \subseteq Vertex
  BY VertexCount, ReachableClosed
<1> HIDE DEF R
<1>2. IsFiniteSet(R) /\ Cardinality(R) \in Nat /\ Cardinality(R) <= Cardinality(Vertex)
  BY <1>1, VertexCount, FS_Subset, FS_CardinalityType
<1>3. Vertex \cap R = R
  BY <1>1
<1>4. /\ IsFiniteSet(Vertex \ R)
      /\ Cardinality(Vertex \ R) = Cardinality(Vertex) - Cardinality(R)
  BY <1>3, VertexCount, FS_Difference
<1>5. Cardinality(Vertex \ R) \in Nat
  BY <1>4, FS_CardinalityType
<1> QED  BY <1>1, <1>2, <1>4, <1>5 DEF R

(* The sum of the labels that a traversal ends with.                       *)
LEMMA SumOfTrial ==
  ASSUME HopInv, stack_nodes = <<>>
  PROVE  calculate_sum_metric \in Nat /\ calculate_sum_metric = Expected(source)
<1> DEFINE R == Reachable(Vertex, source)
           U == Vertex \ R
           d == [v \in R |-> Distance(source, v)]
<1>1. /\ source \in Vertex /\ metric \in [Vertex -> Int] /\ Unset \in Nat
      /\ \A v \in Vertex : metric[v] \in Nat
  BY SinkAssumption DEF HopInv, LabelTypes
<1>2. R \subseteq Vertex /\ IsFiniteSet(R) /\ IsFiniteSet(U) /\ Cardinality(U) \in Nat
  BY <1>1, ReachableFinite
<1>3. /\ \A v \in R : metric[v] = Distance(source, v)
      /\ \A v \in U : metric[v] = Unset
  <2>1. /\ visited = R
        /\ \A v \in Vertex :
             metric[v] = IF v \in visited THEN Distance(source, v) ELSE Unset
    BY HopsTraversed DEF HopsAreDistances
  <2> HIDE DEF R
  <2> QED  BY <1>2, <2>1
<1>4. SumFunctionOnSet(metric, R) = TotalHops(source)
  <2>1. d \in [R -> Int] /\ \A v \in R : metric[v] = d[v]
    BY <1>1, <1>2, <1>3
  <2>2. TotalHops(source) = SumFunctionOnSet(d, R)
    BY DEF TotalHops
  <2> HIDE DEF d, R
  <2>3. SumFunctionOnSet(metric, R) = SumFunctionOnSet(d, R)
    BY <1>1, <1>2, <2>1, SumSame
  <2> QED  BY <2>2, <2>3
<1> HIDE DEF R, U
<1>5. SumFunctionOnSet(metric, U) = Unset * Cardinality(U)
  <2>1. U \in SUBSET Vertex
    BY DEF U
  <2>2. /\ Unset * Cardinality(U) <= SumFunctionOnSet(metric, U)
        /\ SumFunctionOnSet(metric, U) <= Unset * Cardinality(U)
    BY <1>1, <1>2, <1>3, <2>1, SumBounded
  <2>3. SumFunctionOnSet(metric, U) \in Int /\ Unset * Cardinality(U) \in Int
    BY <1>1, <1>2, <2>1, SumType
  <2> QED  BY <2>2, <2>3
<1>6. SumFunctionOnSet(metric, Vertex) = SumFunctionOnSet(metric, R) + SumFunctionOnSet(metric, U)
  <2>1. R \in SUBSET Vertex /\ U \in SUBSET Vertex /\ R \cap U = {} /\ R \cup U = Vertex
    BY <1>2 DEF U
  <2>2. SumFunctionOnSet(metric, R \cup U) = SumFunctionOnSet(metric, R) + SumFunctionOnSet(metric, U)
    BY <1>1, <1>2, <2>1, SumSplit
  <2> QED  BY <2>1, <2>2
<1>7. SumFunctionOnSet(metric, Vertex) \in Nat
  <2>1. SumFunctionOnSet(metric, Vertex) \in Int
    BY <1>1, VertexCount, SumType
  <2>2. \A v \in Vertex : metric[v] <= Unset \/ metric[v] <= Cardinality(Vertex)
    BY HopTypes, VertexCount, <1>1 DEF HopTypeOK
  <2>3. \A v \in Vertex : 0 <= metric[v] /\ metric[v] <= Unset + Cardinality(Vertex)
    BY <1>1, <2>2, VertexCount
  <2>4. 0 \in Int /\ Unset + Cardinality(Vertex) \in Int
    BY <1>1, VertexCount
  <2>5. 0 * Cardinality(Vertex) <= SumFunctionOnSet(metric, Vertex)
    BY <1>1, <2>3, <2>4, VertexCount, SumBounded
  <2>6. 0 * Cardinality(Vertex) = 0
    BY VertexCount
  <2> QED  BY <2>1, <2>5, <2>6
<1> QED  BY <1>4, <1>5, <1>6, <1>7 DEF calculate_sum_metric, Expected, R, U

LEMMA SameExpected ==
  ASSUME UNCHANGED edges
  PROVE  /\ \A s : Expected(s)' = Expected(s)
         /\ GraphInv => GraphInv'
<1>1. \A s : TotalHops(s)' = TotalHops(s)
  BY SameDistances DEF TotalHops
<1> QED  BY <1>1, SameDistances DEF Expected, GraphInv

LEMMA SinkStart == SinkInit => SinkInv
<1> SUFFICES ASSUME SinkInit PROVE SinkInv
  OBVIOUS
<1>1. GraphInv
  BY GraphStart DEF SinkInit
<1>2. HopTypeOK
  BY <1>1 DEF SinkInit, HopTypeOK, GraphInv
<1>3. SinkTypeOK
  BY <1>2 DEF SinkInit, SinkTypeOK
<1> QED  BY <1>1, <1>3 DEF SinkInit, SinkInv, TriedInv

LEMMA TryInv ==
  ASSUME SinkInv, NEW s \in Vertex, Try(s)
  PROVE  SinkInv'
<1>1. /\ ~running /\ s \in untried /\ dejkstra(s)
      /\ untried' = untried \ {s} /\ running' = TRUE /\ scores' = scores
      /\ edges' = edges /\ source' = s
  BY DEF Try, dejkstra
<1>2. GraphInv'
  BY <1>1, SameExpected DEF SinkInv
<1>3. StartAt(s)'
  BY <1>1 DEF dejkstra, StartAt
<1>4. HopInv'
  <2>1. Started'
    BY <1>3 DEF Started
  <2> QED  BY <1>2, <2>1, TraversalStart, PTL
<1>5. HopTypeOK'
  BY <1>4, HopTypes, PTL
<1>6. SinkTypeOK'
  BY <1>1, <1>5 DEF SinkInv, SinkTypeOK
<1>7. \A p \in scores' : p[1] = Expected(p[2])'
  BY <1>1, SameExpected DEF SinkInv
<1>8. TriedInv'
  BY <1>1 DEF SinkInv, TriedInv
<1> QED  BY <1>2, <1>4, <1>6, <1>7, <1>8 DEF SinkInv

LEMMA AttendInv ==
  ASSUME SinkInv, attendNodes
  PROVE  SinkInv'
<1>1. /\ running /\ Visit /\ UNCHANGED <<untried, scores, running, edges, source>>
  BY DEF attendNodes, Visit
<1>2. HopInv'
  BY <1>1, VisitInv DEF SinkInv
<1>3. HopTypeOK'
  BY <1>2, HopTypes, PTL
<1>4. GraphInv' /\ \A p \in scores' : p[1] = Expected(p[2])'
  BY <1>1, SameExpected DEF SinkInv
<1>5. SinkTypeOK' /\ TriedInv'
  BY <1>1, <1>3 DEF SinkInv, SinkTypeOK, TriedInv
<1> QED  BY <1>2, <1>4, <1>5 DEF SinkInv

LEMMA ScoreInv ==
  ASSUME SinkInv, Score
  PROVE  SinkInv'
<1> DEFINE p == <<calculate_sum_metric, source>>
<1>1. /\ running /\ stack_nodes = <<>> /\ HopInv
      /\ scores' = scores \cup {p} /\ running' = FALSE
      /\ UNCHANGED <<hopVars, untried>>
  BY DEF Score, SinkInv
<1>2. UNCHANGED <<edges, source, metric, parent, visited, stack_nodes>>
  BY <1>1 DEF hopVars, labels
<1>3. source \in Vertex
  BY <1>1 DEF HopInv, LabelTypes
<1>4. p \in Nat \X Vertex /\ p[1] = Expected(source) /\ p[2] = source
  BY <1>1, <1>3, SumOfTrial
<1> HIDE DEF p
<1>5. SinkTypeOK'
  BY <1>1, <1>2, <1>4 DEF SinkInv, SinkTypeOK, HopTypeOK
<1>6. GraphInv' /\ \A q \in scores' : q[1] = Expected(q[2])'
  BY <1>1, <1>2, <1>4, SameExpected DEF SinkInv
<1>7. TriedInv'
  BY <1>1, <1>2, <1>4 DEF SinkInv, TriedInv
<1> QED  BY <1>1, <1>5, <1>6, <1>7 DEF SinkInv

LEMMA SinkStutter ==
  ASSUME SinkInv, UNCHANGED sinkVars
  PROVE  SinkInv'
<1>1. UNCHANGED <<hopVars, edges, source, metric, parent, visited, stack_nodes, untried,
                  scores, running>>
  BY DEF sinkVars, hopVars, labels
<1>2. running => HopInv'
  BY <1>1, SameLabels DEF SinkInv
<1>3. GraphInv' /\ \A p \in scores' : p[1] = Expected(p[2])'
  BY <1>1, SameExpected DEF SinkInv
<1>4. SinkTypeOK' /\ TriedInv'
  BY <1>1 DEF SinkInv, SinkTypeOK, HopTypeOK, TriedInv
<1> QED  BY <1>1, <1>2, <1>3, <1>4 DEF SinkInv

LEMMA SinkAlwaysInv == SinkSpec => []SinkInv
<1>1. SinkInv /\ [SinkStep]_sinkVars => SinkInv'
  BY TryInv, AttendInv, ScoreInv, SinkStutter DEF SinkStep
<1> QED  BY SinkStart, <1>1, PTL DEF SinkSpec

-----------------------------------------------------------------------------
(***************************************************************************)
(* The smallest pair.                                                      *)
(***************************************************************************)

(* A set of pairs of numbers has a least one, the first number first.      *)
LEMMA LeastPair ==
  ASSUME NEW S \in SUBSET (Nat \X Nat), S # {}
  PROVE  \E p \in S : \A q \in S : p[1] < q[1] \/ (p[1] = q[1] /\ p[2] <= q[2])
<1> DEFINE F == {p[1] : p \in S}
<1>1. F \in SUBSET Nat /\ F # {}
  OBVIOUS
<1>2. PICK i \in F : \A j \in F : i <= j
  BY <1>1, LeastNat
<1> DEFINE G == {p[2] : p \in {q \in S : q[1] = i}}
<1>3. G \in SUBSET Nat /\ G # {}
  BY <1>2
<1>4. PICK k \in G : \A j \in G : k <= j
  BY <1>3, LeastNat
<1>5. PICK p \in S : p[1] = i /\ p[2] = k
  BY <1>4
<1>6. ASSUME NEW q \in S PROVE p[1] < q[1] \/ (p[1] = q[1] /\ p[2] <= q[2])
  <2>1. q[1] \in F /\ q[1] \in Nat /\ i \in Nat /\ i <= q[1]
    BY <1>1, <1>2
  <2>2. q[1] = i => q[2] \in G
    OBVIOUS
  <2>3. q[1] = i => k <= q[2]
    BY <1>4, <2>2
  <2> QED  BY <1>5, <2>1, <2>3
<1> QED  BY <1>6

(* No vertex is farther than there are vertices.                           *)
LEMMA DistanceBound ==
  ASSUME NEW s \in Vertex, NEW v \in Reachable(Vertex, s)
  PROVE  Distance(s, v) \in 0 .. Cardinality(Vertex)
<1> DEFINE f == Ball(Vertex, s)
           n == Cardinality(Vertex)
           At == {i \in Nat : i <= n /\ v \in f[i]}
<1>1. n \in Nat /\ DOMAIN f = 0 .. n
  BY VertexCount, BallSteps
<1> HIDE DEF f
<1>2. n \in At
  BY <1>1 DEF Reachable, f
<1>3. PICK i \in At : \A j \in At : i <= j
  BY <1>2, LeastNat
<1>4. i \in DOMAIN f /\ v \in f[i] /\ \A j \in 0 .. i - 1 : v \notin f[j]
  <2>1. \A j \in 0 .. i - 1 : j \in Nat /\ j <= n /\ ~(i <= j)
    BY <1>1
  <2> QED  BY <1>1, <1>3, <2>1
<1> QED  BY <1>1, <1>4 DEF Distance, f

LEMMA TotalBound ==
  ASSUME NEW s \in Vertex
  PROVE  /\ TotalHops(s) \in Nat
         /\ TotalHops(s) <= Cardinality(Vertex) * Cardinality(Vertex)
<1> DEFINE R == Reachable(Vertex, s)
           d == [v \in R |-> Distance(s, v)]
           n == Cardinality(Vertex)
<1>1. IsFiniteSet(R) /\ Cardinality(R) \in Nat /\ Cardinality(R) <= n /\ n \in Nat
  BY VertexCount, ReachableFinite
<1>2. \A v \in R : Distance(s, v) \in 0 .. n
  BY DistanceBound
<1> HIDE DEF R
<1>3. d \in [R -> Int] /\ \A v \in R : 0 <= d[v] /\ d[v] <= n
  BY <1>1, <1>2
<1>4. TotalHops(s) = SumFunctionOnSet(d, R)
  BY DEF TotalHops, R
<1> HIDE DEF d, n
<1>5. /\ 0 * Cardinality(R) <= SumFunctionOnSet(d, R)
      /\ SumFunctionOnSet(d, R) <= n * Cardinality(R)
      /\ SumFunctionOnSet(d, R) \in Int
  BY <1>1, <1>3, SumBounded, SumType
<1>6. n * Cardinality(R) <= n * n /\ n * n \in Nat /\ n * Cardinality(R) \in Nat
  BY <1>1, TimesMonotone
<1>7. 0 * Cardinality(R) = 0
  BY <1>1
<1> QED  BY <1>4, <1>5, <1>6, <1>7 DEF n

(* A vertex left out costs more than all the hops there can be.            *)
LEMMA OneMoreOutweighs ==
  ASSUME NEW t \in Nat, NEW r \in Nat, NEW x \in Nat, NEW y \in Nat, NEW U \in Nat,
         r < U, t + U * x <= r + U * y
  PROVE  x <= y
<1> SUFFICES ASSUME y + 1 <= x PROVE FALSE
  OBVIOUS
<1>1. U * (y + 1) <= U * x
  BY TimesMonotone
<1>2. U * (y + 1) = U * y + U /\ U * y \in Nat /\ U * x \in Nat
  OBVIOUS
<1> DEFINE a == U * y
           b == U * x
<1>3. a \in Nat /\ b \in Nat /\ a + U <= b /\ t + b <= r + a
  BY <1>1, <1>2
<1> HIDE DEF a, b
<1> QED  BY <1>3

LEMMA BestPair ==
  ASSUME SinkInv, Finished, Vertex # {}
  PROVE  /\ find_optimal_sink_by_hop \in Vertex
         /\ \A s \in Vertex : Expected(find_optimal_sink_by_hop) <= Expected(s)
<1> DEFINE Precedes(p, q) == \/ p[1] < q[1]
                             \/ p[1] = q[1] /\ p[2] <= q[2]
           best == CHOOSE p \in scores : \A q \in scores : Precedes(p, q)
<1>1. scores \in SUBSET (Nat \X Vertex) /\ Vertex \subseteq Nat
  BY GraphAssumption DEF SinkInv, SinkTypeOK
<1>2. \A v \in Vertex : \E p \in scores : p[2] = v
  BY DEF SinkInv, TriedInv, Finished
<1>3. scores # {}
  BY <1>2
<1>4. scores \in SUBSET (Nat \X Nat)
  BY <1>1
<1>5. \E p \in scores : \A q \in scores : Precedes(p, q)
  BY <1>3, <1>4, LeastPair
<1>6. best \in scores /\ \A q \in scores : Precedes(best, q)
  BY <1>5
<1>7. find_optimal_sink_by_hop = best[2]
  BY DEF find_optimal_sink_by_hop
<1> HIDE DEF best
<1>8. ASSUME NEW s \in Vertex PROVE best[1] <= Expected(s)
  <2>1. PICK q \in scores : q[2] = s
    BY <1>2
  <2>2. q[1] = Expected(s) /\ q[1] \in Nat /\ best[1] \in Nat
    BY <1>1, <1>6, <2>1 DEF SinkInv
  <2> QED  BY <1>6, <2>2
<1>9. best[2] \in Vertex /\ best[1] = Expected(best[2])
  BY <1>1, <1>6 DEF SinkInv
<1> QED  BY <1>7, <1>8, <1>9

-----------------------------------------------------------------------------
(***************************************************************************)
(* Theorems.                                                               *)
(***************************************************************************)

(* Every variable keeps its type, and every score is made of the distances *)
(* from its own vertex and INF for each vertex it does not reach, whatever *)
(* the trials before it left in the labels.                                *)
THEOREM ScoreTheorem == SinkSpec => []ScoresAreExact
<1>1. SinkInv => ScoresAreExact
  BY DEF SinkInv, ScoresAreExact, Expected
<1> QED  BY <1>1, SinkAlwaysInv, PTL

(* On a network whose number of nodes has a square below INF the chosen    *)
(* sink reaches as many as any other, with the fewest hops in sum.  INF is *)
(* 10000 in the program, so this is every network of up to 99 nodes.       *)
THEOREM CentralTheorem ==
  ASSUME Cardinality(Vertex) * Cardinality(Vertex) < Unset
  PROVE  SinkSpec => []SinkIsCentral
<1>1. SinkInv => SinkIsCentral
  <2> SUFFICES ASSUME SinkInv, Finished, NEW s \in Vertex
               PROVE  LET best == find_optimal_sink_by_hop
                          Covers(v) == Cardinality(Reachable(Vertex, v))
                      IN  \/ Covers(s) < Covers(best)
                          \/ Covers(s) = Covers(best) /\ TotalHops(s) >= TotalHops(best)
    BY DEF SinkIsCentral
  <2> DEFINE b == find_optimal_sink_by_hop
             n == Cardinality(Vertex)
             C(v) == Cardinality(Reachable(Vertex, v))
             Out(v) == Cardinality(Vertex \ Reachable(Vertex, v))
  <2>1. b \in Vertex /\ Expected(b) <= Expected(s)
    BY BestPair
  <2> HIDE DEF b
  <2>2. \A v \in {b, s} : /\ C(v) \in Nat /\ Out(v) \in Nat /\ Out(v) = n - C(v)
                          /\ TotalHops(v) \in Nat
    BY <2>1, ReachableFinite, TotalBound
  <2>3. n \in Nat /\ n * n \in Nat
    BY VertexCount
  <2>4. TotalHops(s) < Unset
    <3>1. TotalHops(s) <= n * n /\ n * n < Unset
      BY TotalBound
    <3> QED  BY <2>2, <2>3, <3>1, SinkAssumption
  <2>5. TotalHops(b) + Unset * Out(b) <= TotalHops(s) + Unset * Out(s)
    BY <2>1 DEF Expected
  <2> HIDE DEF C, Out, n
  <2>6. Out(b) <= Out(s)
    BY <2>2, <2>4, <2>5, OneMoreOutweighs, SinkAssumption
  <2>7. C(s) <= C(b)
    BY <2>2, <2>3, <2>6
  <2>8. C(s) = C(b) => TotalHops(b) <= TotalHops(s)
    <3> SUFFICES ASSUME C(s) = C(b) PROVE TotalHops(b) <= TotalHops(s)
      OBVIOUS
    <3>1. Out(s) = Out(b)
      BY <2>2
    <3> DEFINE a == Unset * Out(s)
    <3>2. a \in Int /\ TotalHops(b) + a <= TotalHops(s) + a
      BY <2>2, <2>5, <3>1, SinkAssumption
    <3> HIDE DEF a
    <3> QED  BY <2>2, <3>2
  <2>9. C(s) < C(b) \/ (C(s) = C(b) /\ TotalHops(s) >= TotalHops(b))
    BY <2>2, <2>7, <2>8
  <2> QED  BY <2>9 DEF b, C
<1> QED  BY <1>1, SinkAlwaysInv, PTL
=============================================================================
