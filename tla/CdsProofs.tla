----------------------------- MODULE CdsProofs ------------------------------
(***************************************************************************)
(* Theorems about Cds and Icga, for every graph: the colours, the backbone *)
(* and the two runs of cds_bd_c2 on one graph.                             *)
(*                                                                         *)
(* That a set is connected is said of the sets closed within it: what      *)
(* holds the leader and is closed holds every black vertex.  This is kept  *)
(* by every step of the loop that connects (LinkInv), and it is turned     *)
(* into reachability at the end.                                           *)
(***************************************************************************)
EXTENDS Icga, HopCountProofs

-----------------------------------------------------------------------------
(***************************************************************************)
(* The heaviest vertex and the last hop.                                   *)
(***************************************************************************)
LEMMA HeavierIsOrder ==
  ASSUME GraphInv
  PROVE  /\ \A v \in Vertex : ~Heavier(v, v)
         /\ \A v, w \in Vertex : v # w => Heavier(v, w) \/ Heavier(w, v)
         /\ \A v, w, x \in Vertex : Heavier(v, w) /\ Heavier(w, x) => Heavier(v, x)
<1>1. \A v \in Vertex : degree(v) \in Nat /\ v \in Nat
  <2> TAKE v \in Vertex
  <2>1. neighbors(v) \subseteq Vertex
    BY NeighborFacts
  <2>2. IsFiniteSet(neighbors(v))
    BY <2>1, GraphAssumption, FS_Subset
  <2> QED  BY <2>2, GraphAssumption, FS_CardinalityType DEF degree
<1> QED  BY <1>1 DEF Heavier

(* The heaviest of a set is the one with the fewest that are heavier.      *)
LEMMA MaxWeight ==
  ASSUME GraphInv, NEW S \in SUBSET Vertex
  PROVE  /\ S = {} => max_weight_node(S) = None
         /\ S # {} => max_weight_node(S) \in S
<1> DEFINE Above(v) == {w \in S : Heavier(w, v)}
           Ranks == {Cardinality(Above(v)) : v \in S}
<1>1. IsFiniteSet(S)
  BY GraphAssumption, FS_Subset
<1>2. \A v \in S : IsFiniteSet(Above(v)) /\ Cardinality(Above(v)) \in Nat
  <2> TAKE v \in S
  <2>1. IsFiniteSet(Above(v))
    BY <1>1, FS_Subset
  <2> QED  BY <2>1, FS_CardinalityType
<1>3. SUFFICES ASSUME S # {}
               PROVE  \E v \in S : \A w \in S \ {v} : Heavier(v, w)
  BY DEF max_weight_node
<1>4. PICK v \in S : \A w \in S : Cardinality(Above(v)) <= Cardinality(Above(w))
  <2>1. Ranks \in SUBSET Nat /\ Ranks # {}
    BY <1>2, <1>3
  <2>2. PICK k \in Ranks : \A j \in Ranks : k <= j
    BY <2>1, LeastNat
  <2> QED  BY <2>2
<1>5. ASSUME NEW w \in S \ {v} PROVE Heavier(v, w)
  <2>1. SUFFICES ASSUME Heavier(w, v) PROVE FALSE
    BY HeavierIsOrder
  <2>2. Above(w) \subseteq Above(v) /\ w \in Above(v) /\ w \notin Above(w)
    BY <2>1, HeavierIsOrder
  <2>3. Above(w) # Above(v)
    BY <2>2
  <2> HIDE DEF Above
  <2>4. Cardinality(Above(w)) < Cardinality(Above(v))
    BY <1>2, <2>2, <2>3, FS_Subset
  <2> QED  BY <1>2, <1>4, <2>4
<1> QED  BY <1>5

(* The graph has a vertex with hop count 0, so the last hop is a number.   *)
LEMMA MaxHop ==
  ASSUME metric \in [Vertex -> {-1} \cup (0 .. Cardinality(Vertex))],
         NEW s \in Vertex, metric[s] = 0
  PROVE  /\ maxHop \in 0 .. Cardinality(Vertex)
         /\ \A v \in Vertex : metric[v] <= maxHop
<1> DEFINE S == {metric[v] : v \in Vertex}
<1>1. S \subseteq {-1} \cup (0 .. Cardinality(Vertex)) /\ 0 \in S
  OBVIOUS
<1>2. S \in SUBSET Int /\ S # {} /\ IsFiniteSet(S)
  <2>1. S \subseteq -1 .. Cardinality(Vertex)
    BY <1>1, VertexCount
  <2>2. IsFiniteSet(-1 .. Cardinality(Vertex))
    BY VertexCount, FS_Interval
  <2>3. IsFiniteSet(S)
    BY <2>1, <2>2, FS_Subset
  <2> QED  BY <1>1, <2>3, VertexCount
<1>3. \E i \in S : \A j \in S : i >= j
  BY <1>2, Extremes
<1>4. \E i \in S : \A v \in Vertex : metric[v] <= i
  <2>1. PICK i \in S : \A j \in S : i >= j
    BY <1>3
  <2>2. \A v \in Vertex : metric[v] \in S
    OBVIOUS
  <2>3. \A v \in Vertex : metric[v] <= i
    BY <1>2, <2>1, <2>2
  <2> QED  BY <2>3
<1>5. maxHop \in S /\ \A v \in Vertex : metric[v] <= maxHop
  BY <1>4 DEF maxHop
<1>6. maxHop \in {-1} \cup (0 .. Cardinality(Vertex)) /\ 0 <= maxHop
  BY <1>1, <1>5
<1> QED  BY <1>5, <1>6, VertexCount

-----------------------------------------------------------------------------
(***************************************************************************)
(* The invariant of cds_bd_c2 on a fresh graph.                            *)
(***************************************************************************)
ColorTypes ==
  /\ phase \in {"hops", "mis", "connect", "done"}
  /\ color \in [Vertex -> {White, Gray, Black}]
  /\ hop \in 0 .. Cardinality(Vertex)
  /\ todo \in SUBSET Vertex

(* Nothing is coloured before the hops are counted; while the independent  *)
(* set grows all that touches it is gray.                                  *)
MisInv ==
  /\ phase = "hops" => \A v \in Vertex : color[v] = White
  /\ phase # "hops" => stack_nodes = <<>>
  /\ phase = "mis" =>
       \A v, w \in Vertex : color[v] = Black /\ w \in neighbors(v) => color[w] = Gray

(* Nothing white is left on the hops that were gone through, and only what *)
(* the leader reaches is ever black.                                       *)
HopsColored ==
  /\ \A v \in Vertex : color[v] = Black => v \in Labelled
  /\ phase = "mis" => \A v \in Labelled : metric[v] < hop => color[v] # White
  /\ phase \in {"connect", "done"} => \A v \in Labelled : color[v] # White

(* The black neighbour that made a vertex gray is not beyond it.           *)
GrayInv ==
  \A v \in Vertex : color[v] = Gray =>
    \E w \in neighbors(v) : color[w] = Black /\ metric[w] <= metric[v]

(* What is to be connected is black, at the hop of the loop and beyond the *)
(* leader.                                                                 *)
TodoInv ==
  phase = "connect" => /\ hop >= 1
                       /\ \A v \in todo : metric[v] = hop /\ color[v] = Black

(* What the loop went through is connected to the leader.                  *)
Linked(v) ==
  \A T \in SUBSET Vertex : source \in T /\ Closed(Colored(Black), T) => v \in T

LinkInv ==
  /\ phase = "connect" =>
       \A v \in Colored(Black) :
         metric[v] < hop \/ (metric[v] = hop /\ v \notin todo) => Linked(v)
  /\ phase = "done" => \A v \in Colored(Black) : Linked(v)

ColorInv ==
  ColorTypes /\ MisInv /\ HopsColored /\ GrayInv /\ TodoInv /\ LinkInv

CdsInv == HopInv /\ ColorInv

(* Every step but those of the traversal keeps the graph and its labels.   *)
LEMMA SameGraph ==
  UNCHANGED hopVars => /\ metric' = metric /\ source' = source
                       /\ stack_nodes' = stack_nodes
                       /\ Labelled' = Labelled
                       /\ \A i : AtHop(i)' = AtHop(i)
                       /\ \A v \in Vertex : neighbors(v)' = neighbors(v)
  BY DEF hopVars, labels, neighbors, Labelled, AtHop

LEMMA LabelledFacts ==
  ASSUME HopInv
  PROVE  /\ Unset = -1 /\ source \in Labelled /\ metric[source] = 0
         /\ metric \in [Vertex -> {-1} \cup (0 .. Cardinality(Vertex))]
         /\ \A v \in Vertex : v \in Labelled <=> metric[v] >= 0
         /\ \A v \in Labelled : metric[v] \in Nat
         /\ \A v \in Labelled : metric[v] = 0 <=> v = source
<1>1. Unset = -1 /\ source \in Labelled /\ metric[source] = 0
  BY CdsAssumption, ZeroIsSet DEF HopInv, ParentInv, LabelTypes, Labelled
<1>2. \A v \in Labelled : metric[v] \in 0 .. Cardinality(Vertex)
  BY LabelledInBall
<1>3. metric \in [Vertex -> {-1} \cup (0 .. Cardinality(Vertex))]
  <2>1. metric \in [Vertex -> {-1} \cup Nat]
    BY <1>1 DEF HopInv, LabelTypes
  <2>2. \A v \in Vertex : metric[v] \in {-1} \cup (0 .. Cardinality(Vertex))
    BY <1>1, <1>2 DEF Labelled
  <2> QED  BY <2>1, <2>2
<1>4. \A v \in Vertex : v \in Labelled <=> metric[v] >= 0
  BY <1>1, <1>3, VertexCount DEF Labelled
<1>5. \A v \in Labelled \ {source} : metric[v] > 0
  <2> TAKE v \in Labelled \ {source}
  <2>1. parent[v] \in Labelled /\ metric[v] = metric[parent[v]] + 1
    BY DEF HopInv, ParentInv, ParentIsOneHopCloser, Labelled
  <2> QED  BY <1>2, <2>1, VertexCount
<1> QED  BY <1>1, <1>2, <1>3, <1>4, <1>5, VertexCount

-----------------------------------------------------------------------------
LEMMA CdsStart == CdsInit => CdsInv
<1> SUFFICES ASSUME CdsInit PROVE CdsInv
  OBVIOUS
<1>1. HopInv
  BY StartInv DEF CdsInit
<1>2. ColorTypes
  BY VertexCount DEF CdsInit, ColorTypes, White, Gray, Black
<1>3. \A v \in Vertex : color[v] = White
  BY DEF CdsInit
<1>4. MisInv /\ HopsColored /\ GrayInv /\ TodoInv /\ LinkInv
  BY <1>3 DEF CdsInit, MisInv, HopsColored, GrayInv, TodoInv, LinkInv, White, Gray, Black
<1> QED  BY <1>1, <1>2, <1>4 DEF CdsInv, ColorInv

(* The types of the colours and the loops need nothing but hop counts.     *)
LEMMA ColorStepTypes ==
  ASSUME ColorTypes, CdsStep,
         metric \in [Vertex -> {-1} \cup (0 .. Cardinality(Vertex))],
         NEW s \in Vertex, metric[s] = 0
  PROVE  ColorTypes'
<1>1. /\ maxHop \in 0 .. Cardinality(Vertex) /\ Cardinality(Vertex) \in Nat
      /\ Cardinality(Vertex) # 0
  BY MaxHop, VertexCount, FS_EmptySet
<1>2. \A i : AtHop(i) \cap Colored(Black) \in SUBSET Vertex
  BY DEF AtHop
<1>3. CASE CountHops
  BY <1>3 DEF CountHops, ColorTypes
<1>4. CASE HopsCounted
  BY <1>1, <1>4 DEF HopsCounted, ColorTypes
<1>5. CASE ColorBlack
  BY <1>5 DEF ColorBlack, ColorTypes
<1>6. CASE NextMisHop
  <2>1. /\ phase' \in {"mis", "connect"} /\ color' = color
        /\ \/ hop < maxHop /\ hop' = hop + 1 /\ todo' = todo
           \/ hop' = 1 /\ todo' = AtHop(1) \cap Colored(Black)
    BY <1>6 DEF NextMisHop, ColorTypes
  <2>2. hop' \in 0 .. Cardinality(Vertex)
    BY <1>1, <2>1 DEF ColorTypes
  <2> QED  BY <1>2, <2>1, <2>2 DEF ColorTypes
<1>7. ASSUME NEW v \in Vertex, Connect(v) PROVE ColorTypes'
  <2>1. color' \in [Vertex -> {White, Gray, Black}]
    BY <1>7 DEF Connect, ColorTypes
  <2> QED  BY <1>7, <2>1 DEF Connect, ColorTypes
<1>8. CASE NextConnectHop
  <2>1. /\ phase' \in {"connect", "done"} /\ color' = color
        /\ \/ hop < maxHop /\ hop' = hop + 1 /\ todo' = AtHop(hop + 1) \cap Colored(Black)
           \/ hop' = hop /\ todo' = todo
    BY <1>8 DEF NextConnectHop, ColorTypes
  <2>2. hop' \in 0 .. Cardinality(Vertex)
    BY <1>1, <2>1 DEF ColorTypes
  <2> QED  BY <1>2, <2>1, <2>2 DEF ColorTypes
<1> QED  BY <1>3, <1>4, <1>5, <1>6, <1>7, <1>8 DEF CdsStep

-----------------------------------------------------------------------------
(***************************************************************************)
(* Every step of cds_bd_c2 keeps its invariant.                            *)
(***************************************************************************)
LEMMA TypesKept ==
  ASSUME CdsInv, CdsStep
  PROVE  ColorTypes'
<1>1. /\ source \in Vertex /\ metric[source] = 0
      /\ metric \in [Vertex -> {-1} \cup (0 .. Cardinality(Vertex))]
  BY LabelledFacts DEF CdsInv, HopInv, LabelTypes
<1> QED  BY <1>1, ColorStepTypes DEF CdsInv, ColorInv

LEMMA CountHopsInv ==
  ASSUME CdsInv, CountHops
  PROVE  CdsInv'
<1>1. HopInv'
  BY VisitInv DEF CdsInv, CountHops
<1>2. phase = "hops" /\ UNCHANGED <<phase, color, hop, todo>>
  BY DEF CountHops
<1>3. ColorTypes'
  BY TypesKept DEF CdsStep
<1>4. \A v \in Vertex : color[v] = White
  BY <1>2 DEF CdsInv, ColorInv, MisInv
<1>5. MisInv' /\ HopsColored' /\ GrayInv' /\ TodoInv' /\ LinkInv'
  BY <1>2, <1>4 DEF MisInv, HopsColored, GrayInv, TodoInv, LinkInv, White, Gray, Black
<1> QED  BY <1>1, <1>3, <1>5 DEF CdsInv, ColorInv

LEMMA HopsCountedInv ==
  ASSUME CdsInv, HopsCounted
  PROVE  CdsInv'
<1>1. /\ phase = "hops" /\ phase' = "mis" /\ hop' = 0 /\ stack_nodes = <<>>
      /\ UNCHANGED <<hopVars, color, todo>>
  BY DEF HopsCounted
<1>2. HopInv'
  BY <1>1, SameLabels DEF CdsInv
<1>3. ColorTypes'
  BY TypesKept DEF CdsStep
<1>4. \A v \in Vertex : color[v] = White
  BY <1>1 DEF CdsInv, ColorInv, MisInv
<1>5. MisInv' /\ GrayInv' /\ TodoInv' /\ LinkInv'
  BY <1>1, <1>4, SameGraph DEF MisInv, GrayInv, TodoInv, LinkInv, White, Gray, Black
<1>6. \A v \in Labelled' : ~(metric'[v] < 0)
  BY <1>1, SameGraph, LabelledFacts DEF CdsInv
<1>7. HopsColored'
  BY <1>1, <1>4, <1>6 DEF HopsColored, White, Black, Labelled
<1> QED  BY <1>2, <1>3, <1>5, <1>7 DEF CdsInv, ColorInv

(* A white vertex that turns black has no black neighbour: it would be     *)
(* gray.  Its white neighbours are on its hop or beyond.                   *)
LEMMA ColorBlackInv ==
  ASSUME CdsInv, ColorBlack
  PROVE  CdsInv'
<1> DEFINE u == max_weight_node(AtHop(hop) \cap Colored(White))
<1>1. /\ phase = "mis" /\ u # None
      /\ color' = [w \in Vertex |->
              IF w = u THEN Black
              ELSE IF w \in neighbors(u) \cap Colored(White) THEN Gray
              ELSE color[w]]
      /\ UNCHANGED <<hopVars, phase, hop, todo>>
  BY DEF ColorBlack
<1>2. u \in Vertex /\ color[u] = White /\ metric[u] = hop
  <2>1. AtHop(hop) \cap Colored(White) \in SUBSET Vertex
    BY DEF AtHop, Colored
  <2>2. u \in AtHop(hop) \cap Colored(White)
    BY <1>1, <2>1, MaxWeight DEF CdsInv, HopInv
  <2> QED  BY <2>2 DEF Colored, AtHop
<1> HIDE DEF u
<1>3. HopInv'
  BY <1>1, SameLabels DEF CdsInv
<1>4. /\ metric' = metric /\ Labelled' = Labelled /\ stack_nodes' = stack_nodes
      /\ \A v \in Vertex : neighbors(v)' = neighbors(v)
  BY <1>1, SameGraph
<1>5. \A v \in Vertex : /\ color[v] = Black => color'[v] = Black
                        /\ color[v] = Gray => color'[v] = Gray
                        /\ color[v] # White => color'[v] # White
                        /\ color'[v] = Black => v = u \/ color[v] = Black
                        /\ color'[v] = Gray =>
                             color[v] = Gray \/ (v \in neighbors(u) /\ color[v] = White)
  BY <1>1, <1>2 DEF CdsInv, ColorInv, ColorTypes, Colored, White, Gray, Black
<1>6. color'[u] = Black
  BY <1>1, <1>2
<1>7. ColorTypes'
  BY TypesKept DEF CdsStep
<1>8. \A v, w \in Vertex : color[v] = Black /\ w \in neighbors(v) => color[w] = Gray
  BY <1>1 DEF CdsInv, ColorInv, MisInv
<1>9. \A v, w \in Vertex : w \in neighbors(v) <=> v \in neighbors(w)
  BY NeighborFacts DEF CdsInv, HopInv
<1>10. ASSUME NEW w \in Vertex, w \in neighbors(u) PROVE color'[w] = Gray
  <2>1. color[w] # Black /\ w # u
    BY <1>2, <1>8, <1>9, <1>10, NeighborFacts DEF CdsInv, HopInv, White, Gray
  <2> QED  BY <1>1, <1>2, <1>10, <2>1
              DEF CdsInv, ColorInv, ColorTypes, Colored, White, Gray, Black
<1>11. \A v, w \in Vertex : color'[v] = Black /\ w \in neighbors(v) => color'[w] = Gray
  BY <1>5, <1>8, <1>10
<1>12. MisInv'
  BY <1>1, <1>4, <1>11 DEF CdsInv, ColorInv, MisInv
<1>13. /\ hop \in Nat /\ u \in Labelled
       /\ \A v \in neighbors(u) : v \in Labelled /\ metric[v] \in Nat
  <2>1. hop \in Nat
    BY VertexCount DEF CdsInv, ColorInv, ColorTypes
  <2>2. u \in Labelled
    BY <1>2, <2>1, LabelledFacts DEF CdsInv
  <2>3. u \in visited
    BY <1>1, <2>2, QueueEmpty DEF CdsInv, ColorInv, MisInv
  <2>4. \A v \in neighbors(u) : v \in Labelled
    BY <2>3 DEF CdsInv, HopInv, VisitedInv
  <2> QED  BY <2>1, <2>2, <2>4, LabelledFacts DEF CdsInv
<1>14. HopsColored'
  <2>1. \A v \in Vertex : color'[v] = Black => v \in Labelled
    BY <1>5, <1>13 DEF CdsInv, ColorInv, HopsColored
  <2>2. \A v \in Labelled : metric[v] < hop => color'[v] # White
    BY <1>1, <1>5 DEF CdsInv, ColorInv, HopsColored, Labelled
  <2> QED  BY <1>1, <1>4, <2>1, <2>2 DEF HopsColored
<1>15. GrayInv'
  <2> SUFFICES ASSUME NEW v \in Vertex, color'[v] = Gray
               PROVE  \E w \in neighbors(v) : color'[w] = Black /\ metric[w] <= metric[v]
    BY <1>4 DEF GrayInv
  <2>1. CASE color[v] = Gray
    <3>1. PICK w \in neighbors(v) : color[w] = Black /\ metric[w] <= metric[v]
      BY <2>1 DEF CdsInv, ColorInv, GrayInv
    <3> QED  BY <1>5, <3>1, NeighborFacts
  <2>2. CASE v \in neighbors(u) /\ color[v] = White
    <3>1. v \in Labelled /\ ~(metric[v] < hop)
      BY <1>1, <1>13, <2>2 DEF CdsInv, ColorInv, HopsColored
    <3>2. metric[u] <= metric[v]
      BY <1>2, <1>13, <2>2, <3>1
    <3> QED  BY <1>2, <1>6, <1>9, <2>2, <3>2
  <2> QED  BY <1>5, <2>1, <2>2
<1>16. TodoInv' /\ LinkInv'
  BY <1>1 DEF TodoInv, LinkInv
<1> QED  BY <1>3, <1>7, <1>12, <1>14, <1>15, <1>16 DEF CdsInv, ColorInv

LEMMA NextMisHopInv ==
  ASSUME CdsInv, NextMisHop
  PROVE  CdsInv'
<1>1. /\ phase = "mis" /\ AtHop(hop) \cap Colored(White) = {}
      /\ \/ hop < maxHop /\ hop' = hop + 1 /\ phase' = "mis" /\ todo' = todo
         \/ /\ ~(hop < maxHop)
            /\ hop' = 1 /\ phase' = "connect" /\ todo' = AtHop(1) \cap Colored(Black)
      /\ UNCHANGED <<hopVars, color>>
  BY DEF NextMisHop
<1>2. HopInv'
  BY <1>1, SameLabels DEF CdsInv
<1>3. /\ metric' = metric /\ Labelled' = Labelled /\ stack_nodes' = stack_nodes
      /\ source' = source /\ \A v \in Vertex : neighbors(v)' = neighbors(v)
  BY <1>1, SameGraph
<1>4. ColorTypes'
  BY TypesKept DEF CdsStep
<1>5. MisInv' /\ GrayInv'
  BY <1>1, <1>3 DEF CdsInv, ColorInv, MisInv, GrayInv
<1>6. /\ hop \in Nat /\ maxHop \in Nat /\ \A v \in Labelled : v \in Vertex /\ metric[v] \in Nat
      /\ \A v \in Labelled : metric[v] <= maxHop
      /\ source \in Vertex /\ \A v \in Labelled : metric[v] = 0 => v = source
  <2>1. hop \in Nat
    BY VertexCount DEF CdsInv, ColorInv, ColorTypes
  <2>2. maxHop \in 0 .. Cardinality(Vertex) /\ \A v \in Vertex : metric[v] <= maxHop
    BY LabelledFacts, MaxHop DEF CdsInv, HopInv, LabelTypes
  <2>3. maxHop \in Nat
    BY <2>2, VertexCount
  <2> QED  BY <2>1, <2>2, <2>3, LabelledFacts DEF CdsInv, Labelled
<1>7. \A v \in Labelled : metric[v] <= hop => color[v] # White
  <2> SUFFICES ASSUME NEW v \in Labelled, metric[v] <= hop PROVE color[v] # White
    OBVIOUS
  <2>1. CASE metric[v] = hop
    BY <1>1, <1>6, <2>1 DEF AtHop, Colored
  <2>2. CASE metric[v] # hop
    <3>1. metric[v] < hop
      BY <1>6, <2>2
    <3> QED  BY <1>1, <3>1 DEF CdsInv, ColorInv, HopsColored
  <2> QED  BY <2>1, <2>2
<1>8. HopsColored'
  <2>1. \A v \in Vertex : color[v] = Black => v \in Labelled
    BY DEF CdsInv, ColorInv, HopsColored
  <2>2. hop' = hop + 1 => \A v \in Labelled : metric[v] < hop' => color[v] # White
    BY <1>6, <1>7
  <2>3. ~(hop < maxHop) => \A v \in Labelled : color[v] # White
    BY <1>6, <1>7
  <2> QED  BY <1>1, <1>3, <2>1, <2>2, <2>3 DEF HopsColored
<1>9. TodoInv'
  BY <1>1, <1>3 DEF TodoInv, AtHop, Colored
<1>10. LinkInv'
  <2> SUFFICES ASSUME phase' = "connect", NEW v \in Colored(Black)',
                      metric'[v] < hop' \/ (metric'[v] = hop' /\ v \notin todo'),
                      NEW T \in SUBSET Vertex, source' \in T
               PROVE  v \in T
    BY <1>1 DEF LinkInv, Linked
  <2>1. hop' = 1 /\ todo' = AtHop(1) \cap Colored(Black)
    BY <1>1
  <2>2. v \in Colored(Black) /\ v \in Vertex /\ v \in Labelled
    BY <1>1 DEF CdsInv, ColorInv, HopsColored, Colored
  <2>3. metric[v] < 1
    BY <1>3, <2>1, <2>2 DEF AtHop
  <2> QED  BY <1>3, <1>6, <2>2, <2>3
<1> QED  BY <1>2, <1>4, <1>5, <1>8, <1>9, <1>10 DEF CdsInv, ColorInv

(* The parent of a vertex to be connected is a neighbour on the hop before.*)
LEMMA NearerExists ==
  ASSUME HopInv, ColorTypes, TodoInv, phase = "connect", NEW v \in todo
  PROVE  BlackNearer(v) # {} \/ Connectors(v) # {}
<1>1. v \in Vertex /\ hop \in Nat /\ hop >= 1 /\ metric[v] = hop
  BY VertexCount DEF ColorTypes, TodoInv
<1>2. v # source /\ metric[v] # Unset
  BY <1>1, CdsAssumption DEF HopInv, ParentInv
<1>3. parent[v] \in neighbors(v) /\ hop = metric[parent[v]] + 1
  BY <1>1, <1>2 DEF HopInv, ParentInv, ParentIsOneHopCloser
<1>4. parent[v] \in Vertex /\ metric[parent[v]] \in Int
  BY <1>1, <1>3, NeighborFacts, CdsAssumption DEF HopInv, LabelTypes
<1>5. parent[v] \in AtHop(hop - 1)
  BY <1>1, <1>3, <1>4 DEF AtHop
<1> QED  BY <1>3, <1>5 DEF BlackNearer, Connectors

(* A connector is gray.  The black vertex that made it gray is on its hop  *)
(* or nearer, so it is connected to the leader already.                    *)
LEMMA ConnectInv ==
  ASSUME CdsInv, NEW v \in Vertex, Connect(v)
  PROVE  CdsInv'
<1> DEFINE c == max_weight_node(Connectors(v))
<1>1. /\ phase = "connect" /\ v \in todo /\ todo' = todo \ {v}
      /\ UNCHANGED <<hopVars, phase, hop>>
      /\ color' = IF BlackNearer(v) # {} \/ Connectors(v) = {} THEN color
                  ELSE [color EXCEPT ![c] = Black]
  BY DEF Connect
<1>2. HopInv'
  BY <1>1, SameLabels DEF CdsInv
<1>3. /\ metric' = metric /\ Labelled' = Labelled /\ stack_nodes' = stack_nodes
      /\ source' = source /\ \A w \in Vertex : neighbors(w)' = neighbors(w)
  BY <1>1, SameGraph
<1>4. ColorTypes'
  BY TypesKept DEF CdsStep
<1>5. /\ hop \in Nat /\ hop >= 1 /\ metric[v] = hop /\ color[v] = Black
      /\ \A w \in Vertex : w \in Labelled <=> metric[w] >= 0
      /\ \A w \in Labelled : metric[w] \in Nat
      /\ \A w \in Labelled : w \in Vertex
      /\ \A w \in Labelled : color[w] # White
  <2>1. hop \in Nat
    BY VertexCount DEF CdsInv, ColorInv, ColorTypes
  <2> QED  BY <1>1, <2>1, LabelledFacts
              DEF CdsInv, ColorInv, TodoInv, HopsColored, Labelled
<1>6. Connectors(v) # {} =>
        c \in Vertex /\ c \in neighbors(v) /\ metric[c] = hop - 1 /\ color[c] # Black
  <2>1. Connectors(v) \in SUBSET Vertex
    BY DEF Connectors, AtHop
  <2>2. Connectors(v) # {} => c \in Connectors(v)
    BY <2>1, MaxWeight DEF CdsInv, HopInv
  <2> QED  BY <2>1, <2>2 DEF Connectors, AtHop, Colored
<1> HIDE DEF c
<1>7. /\ \A w \in Vertex : color[w] = Black => color'[w] = Black
      /\ \A w \in Vertex : color'[w] = Black => color[w] = Black \/ (w = c /\ Connectors(v) # {})
      /\ \A w \in Vertex : color'[w] = color[w] \/ color'[w] = Black
  BY <1>1, <1>6 DEF CdsInv, ColorInv, ColorTypes
<1>8. Connectors(v) # {} => c \in Labelled
  BY <1>5, <1>6
<1>9. MisInv'
  BY <1>1, <1>3 DEF CdsInv, ColorInv, MisInv
<1>10. HopsColored'
  <2>1. \A w \in Vertex : color'[w] = Black => w \in Labelled
    BY <1>7, <1>8 DEF CdsInv, ColorInv, HopsColored
  <2>2. \A w \in Labelled : color'[w] # White
    BY <1>5, <1>7 DEF White, Black
  <2> QED  BY <1>1, <1>3, <2>1, <2>2 DEF HopsColored
<1>11. GrayInv'
  <2> SUFFICES ASSUME NEW x \in Vertex, color'[x] = Gray
               PROVE  \E w \in neighbors(x) : color'[w] = Black /\ metric[w] <= metric[x]
    BY <1>3 DEF GrayInv
  <2>1. PICK w \in neighbors(x) : color[w] = Black /\ metric[w] <= metric[x]
    BY <1>7 DEF CdsInv, ColorInv, GrayInv, Gray, Black
  <2> QED  BY <1>7, <2>1, NeighborFacts
<1>12. TodoInv'
  BY <1>1, <1>3, <1>5, <1>7 DEF CdsInv, ColorInv, ColorTypes, TodoInv
<1>13. LinkInv'
  <2> SUFFICES ASSUME NEW T \in SUBSET Vertex, source \in T,
                      \A x \in T : \A y \in neighbors(x) : color'[y] = Black => y \in T,
                      NEW w \in Vertex, color'[w] = Black,
                      metric[w] < hop \/ (metric[w] = hop /\ w \notin todo \ {v})
               PROVE  w \in T
    <3> SUFFICES ASSUME NEW T \in SUBSET Vertex, source' \in T, Closed(Colored(Black), T)',
                        NEW w \in Colored(Black)',
                        metric'[w] < hop' \/ (metric'[w] = hop' /\ w \notin todo')
                 PROVE  w \in T
      BY <1>1 DEF LinkInv, Linked
    <3>1. ASSUME NEW x \in T, NEW y \in neighbors(x), color'[y] = Black PROVE y \in T
      <4>1. x \in Vertex /\ y \in Vertex
        BY <3>1, NeighborFacts
      <4>2. y \in neighbors(x)' /\ y \in Colored(Black)'
        BY <1>3, <3>1, <4>1 DEF Colored
      <4> QED  BY <4>2 DEF Closed
    <3>2. w \in Vertex /\ color'[w] = Black
      BY DEF Colored
    <3>3. metric[w] < hop \/ (metric[w] = hop /\ w \notin todo \ {v})
      BY <1>1, <1>3
    <3> QED  BY <1>3, <3>1, <3>2, <3>3
  <2>1. Closed(Colored(Black), T)
    BY <1>7, NeighborFacts DEF Closed, Colored
  <2>2. ASSUME NEW x \in Vertex, color[x] = Black,
               metric[x] < hop \/ (metric[x] = hop /\ x \notin todo)
        PROVE  x \in T
    BY <1>1, <2>1, <2>2 DEF CdsInv, ColorInv, LinkInv, Linked, Colored
  <2>3. Connectors(v) # {} => c \in T \/ color'[c] # Black
    <3> SUFFICES ASSUME Connectors(v) # {}, color'[c] = Black PROVE c \in T
      OBVIOUS
    <3>1. color[c] = Gray
      BY <1>5, <1>6, <1>8 DEF CdsInv, ColorInv, ColorTypes
    <3>2. PICK d \in neighbors(c) : color[d] = Black /\ metric[d] <= metric[c]
      BY <1>6, <3>1 DEF CdsInv, ColorInv, GrayInv
    <3>3. d \in Vertex /\ d \in Labelled /\ c \in neighbors(d)
      BY <1>6, <3>2, NeighborFacts DEF CdsInv, HopInv, ColorInv, HopsColored
    <3>4. metric[d] < hop
      BY <1>5, <1>6, <3>2, <3>3
    <3>5. d \in T
      BY <2>2, <3>2, <3>3, <3>4
    <3> QED  BY <3>3, <3>5
  <2>4. v \in T
    <3>1. CASE BlackNearer(v) # {}
      <4>1. PICK b \in neighbors(v) : b \in Vertex /\ metric[b] = hop - 1 /\ color[b] = Black
        BY <3>1 DEF BlackNearer, AtHop, Colored
      <4>2. b \in T
        BY <1>5, <2>2, <4>1
      <4> QED  BY <1>5, <1>7, <4>1, <4>2, NeighborFacts DEF CdsInv, HopInv
    <3>2. CASE BlackNearer(v) = {} /\ Connectors(v) # {}
      <4>1. color'[c] = Black
        BY <1>1, <1>6, <3>2 DEF CdsInv, ColorInv, ColorTypes
      <4>2. c \in T /\ v \in neighbors(c)
        BY <1>6, <2>3, <3>2, <4>1, NeighborFacts DEF CdsInv, HopInv
      <4> QED  BY <1>5, <1>7, <4>2
    <3>3. BlackNearer(v) # {} \/ Connectors(v) # {}
      BY <1>1, NearerExists DEF CdsInv, ColorInv
    <3> QED  BY <3>1, <3>2, <3>3
  <2>5. CASE color[w] = Black
    <3>1. CASE w = v
      BY <2>4, <3>1
    <3>2. CASE w # v
      BY <2>2, <2>5, <3>2
    <3> QED  BY <3>1, <3>2
  <2>6. CASE color[w] # Black
    BY <1>7, <2>3, <2>6
  <2> QED  BY <2>5, <2>6
<1> QED  BY <1>2, <1>4, <1>9, <1>10, <1>11, <1>12, <1>13 DEF CdsInv, ColorInv

LEMMA NextConnectHopInv ==
  ASSUME CdsInv, NextConnectHop
  PROVE  CdsInv'
<1>1. /\ phase = "connect" /\ todo = {}
      /\ \/ /\ hop < maxHop /\ hop' = hop + 1 /\ phase' = "connect"
            /\ todo' = AtHop(hop + 1) \cap Colored(Black)
         \/ ~(hop < maxHop) /\ phase' = "done" /\ hop' = hop /\ todo' = todo
      /\ UNCHANGED <<hopVars, color>>
  BY DEF NextConnectHop
<1>2. HopInv'
  BY <1>1, SameLabels DEF CdsInv
<1>3. /\ metric' = metric /\ Labelled' = Labelled /\ stack_nodes' = stack_nodes
      /\ source' = source /\ \A v \in Vertex : neighbors(v)' = neighbors(v)
  BY <1>1, SameGraph
<1>4. ColorTypes'
  BY TypesKept DEF CdsStep
<1>5. MisInv' /\ GrayInv' /\ HopsColored'
  BY <1>1, <1>3 DEF CdsInv, ColorInv, MisInv, GrayInv, HopsColored
<1>6. /\ hop \in Nat /\ hop >= 1 /\ maxHop \in Nat
      /\ \A v \in Labelled : metric[v] \in Nat /\ metric[v] <= maxHop
  <2>1. hop \in Nat
    BY VertexCount DEF CdsInv, ColorInv, ColorTypes
  <2>2. maxHop \in 0 .. Cardinality(Vertex) /\ \A v \in Vertex : metric[v] <= maxHop
    BY LabelledFacts, MaxHop DEF CdsInv, HopInv, LabelTypes
  <2>3. maxHop \in Nat
    BY <2>2, VertexCount
  <2> QED  BY <1>1, <2>1, <2>2, <2>3, LabelledFacts DEF CdsInv, ColorInv, TodoInv, Labelled
<1>7. TodoInv'
  BY <1>1, <1>3, <1>6 DEF TodoInv, AtHop, Colored
<1>8. \A v \in Colored(Black) : Linked(v)' <=> Linked(v)
  <2>1. Colored(Black)' = Colored(Black)
    BY <1>1 DEF Colored
  <2>2. \A T \in SUBSET Vertex : Closed(Colored(Black), T)' <=> Closed(Colored(Black), T)
    BY <1>3, <2>1 DEF Closed
  <2> QED  BY <1>3, <2>2 DEF Linked
<1>9. \A v \in Colored(Black) : v \in Labelled /\ metric[v] \in Nat
  BY <1>6 DEF CdsInv, ColorInv, HopsColored, Colored
<1>10. \A v \in Colored(Black) : metric[v] <= hop => Linked(v)
  BY <1>1, <1>6, <1>9 DEF CdsInv, ColorInv, LinkInv
<1>11. LinkInv'
  <2>1. Colored(Black)' = Colored(Black)
    BY <1>1 DEF Colored
  <2>2. CASE phase' = "connect"
    <3>1. hop' = hop + 1 /\ todo' = AtHop(hop + 1) \cap Colored(Black)
      BY <1>1, <2>2
    <3>2. ASSUME NEW v \in Colored(Black),
                 metric[v] < hop + 1 \/ (metric[v] = hop + 1 /\ v \notin todo')
          PROVE  Linked(v)
      <4>1. v \in Vertex
        BY DEF Colored
      <4>2. metric[v] <= hop
        BY <1>6, <1>9, <3>1, <3>2, <4>1 DEF AtHop
      <4> QED  BY <1>10, <4>2
    <3> QED  BY <1>3, <1>8, <2>1, <2>2, <3>1, <3>2 DEF LinkInv
  <2>3. CASE phase' = "done"
    <3>1. \A v \in Colored(Black) : metric[v] <= hop
      BY <1>1, <1>6, <1>9, <2>3
    <3> QED  BY <1>8, <1>10, <2>1, <2>3, <3>1 DEF LinkInv
  <2> QED  BY <1>1, <2>2, <2>3
<1> QED  BY <1>2, <1>4, <1>5, <1>7, <1>11 DEF CdsInv, ColorInv

LEMMA CdsStutter ==
  ASSUME CdsInv, UNCHANGED cdsVars
  PROVE  CdsInv'
<1>1. UNCHANGED <<hopVars, phase, color, hop, todo>>
  BY DEF cdsVars
<1>2. HopInv'
  BY <1>1, SameLabels DEF CdsInv
<1>3. /\ metric' = metric /\ Labelled' = Labelled /\ stack_nodes' = stack_nodes
      /\ source' = source /\ \A v \in Vertex : neighbors(v)' = neighbors(v)
  BY <1>1, SameGraph
<1>4. Colored(Black)' = Colored(Black)
  BY <1>1 DEF Colored
<1>5. \A T \in SUBSET Vertex : Closed(Colored(Black), T)' <=> Closed(Colored(Black), T)
  BY <1>3, <1>4 DEF Closed
<1>6. \A v \in Colored(Black) : Linked(v)' <=> Linked(v)
  BY <1>3, <1>5 DEF Linked
<1>7. LinkInv'
  BY <1>1, <1>3, <1>4, <1>6 DEF CdsInv, ColorInv, LinkInv
<1>8. ColorTypes' /\ MisInv' /\ HopsColored' /\ GrayInv' /\ TodoInv'
  BY <1>1, <1>3 DEF CdsInv, ColorInv, ColorTypes, MisInv, HopsColored, GrayInv, TodoInv
<1> QED  BY <1>2, <1>7, <1>8 DEF CdsInv, ColorInv

LEMMA CdsStepInv == CdsInv /\ CdsStep => CdsInv'
<1> SUFFICES ASSUME CdsInv, CdsStep PROVE CdsInv'
  OBVIOUS
<1>1. CASE CountHops
  BY <1>1, CountHopsInv
<1>2. CASE HopsCounted
  BY <1>2, HopsCountedInv
<1>3. CASE ColorBlack
  BY <1>3, ColorBlackInv
<1>4. CASE NextMisHop
  BY <1>4, NextMisHopInv
<1>5. CASE \E v \in Vertex : Connect(v)
  BY <1>5, ConnectInv
<1>6. CASE NextConnectHop
  BY <1>6, NextConnectHopInv
<1> QED  BY <1>1, <1>2, <1>3, <1>4, <1>5, <1>6 DEF CdsStep

LEMMA CdsAlwaysInv == CdsSpec => []CdsInv
<1>1. CdsInv /\ [CdsStep]_cdsVars => CdsInv'
  BY CdsStepInv, CdsStutter
<1> QED  BY CdsStart, <1>1, PTL DEF CdsSpec

-----------------------------------------------------------------------------
(***************************************************************************)
(* The invariant of the main program.  The second run of cds_bd_c2 finds   *)
(* every vertex that the leader reaches visited: it labels the neighbours  *)
(* of the leader and stops.                                                *)
(***************************************************************************)
AgainInv ==
  /\ source \in visited
  /\ Closed(Vertex, visited)
  /\ metric \in [Vertex -> {-1, 0, 1}] /\ metric[source] = 0
  /\ \/ stack_nodes = <<>>
     \/ stack_nodes = <<source>> /\ \A v \in Vertex \ {source} : metric[v] = -1

(* Once icga goes on from the black vertices the others are white, and     *)
(* after its first loop they have their M black neighbours.                *)
WhiteInv ==
  /\ stage \in {"dominate", "k", "warned", "end"} =>
       \A v \in Vertex : color[v] # Gray
  /\ stage \in {"k", "warned", "end"} =>
       \A v \in Colored(White) : Cardinality(BlackNeighbors(v)) >= M

IcgaInv ==
  /\ IcgaTypeOK /\ GraphInv
  /\ stage = "cds" => CdsInv
  /\ stage = "icga" => AgainInv
  /\ WhiteInv

LEMMA CdsTypes == CdsInv => CdsTypeOK
  BY HopTypes DEF CdsInv, ColorInv, ColorTypes, CdsTypeOK

LEMMA IcgaStart == IcgaInit => IcgaInv
<1> SUFFICES ASSUME IcgaInit PROVE IcgaInv
  OBVIOUS
<1>1. CdsInv /\ stage = "cds" /\ level = 1
  BY CdsStart DEF IcgaInit
<1>2. IcgaTypeOK
  BY <1>1, CdsTypes, IcgaAssumption DEF IcgaTypeOK, Stages
<1> QED  BY <1>1, <1>2 DEF IcgaInv, WhiteInv, CdsInv, HopInv

(* A visit of the second run: the leader is visited already, and so is all *)
(* that could be appended.                                                 *)
LEMMA VisitAgain ==
  ASSUME CdsTypeOK, GraphInv, AgainInv, Visit
  PROVE  HopTypeOK' /\ AgainInv'
<1>1. /\ stack_nodes = <<source>> /\ source \in Vertex
      /\ \A v \in Vertex \ {source} : metric[v] = -1
      /\ Head(stack_nodes) = source /\ Tail(stack_nodes) = <<>>
  <2>1. /\ stack_nodes = <<source>> /\ source \in Vertex
        /\ \A v \in Vertex \ {source} : metric[v] = -1
    BY DEF AgainInv, Visit, CdsTypeOK, HopTypeOK
  <2>2. ASSUME NEW s PROVE Head(<<s>>) = s /\ Tail(<<s>>) = <<>>
    OBVIOUS
  <2> QED  BY <2>1, <2>2
<1>2. /\ UNCHANGED <<edges, source>> /\ visited' = visited
      /\ metric' = [v \in Vertex |->
                      IF v \in Farther(source) THEN metric[source] + 1 ELSE metric[v]]
      /\ parent' = [v \in Vertex |-> IF v \in Farther(source) THEN source ELSE parent[v]]
      /\ \E found \in SetToSeqs(neighbors(source) \ visited) :
           stack_nodes' = Requeue(found)
  BY <1>1 DEF Visit, AgainInv
<1>3. neighbors(source) \ visited = {}
  BY <1>1, NeighborFacts DEF AgainInv, Closed
<1>4. stack_nodes' = <<>>
  <2>1. PICK found \in SetToSeqs({}) : stack_nodes' = Tail(stack_nodes) \o found
    BY <1>2, <1>3 DEF Requeue
  <2>2. found \in Seq({}) /\ Len(found) = 0
    BY AllFound, FS_EmptySet
  <2>3. found = <<>>
    BY <2>2
  <2> QED  BY <1>1, <2>1, <2>3
<1>5. source \notin Farther(source)
  BY <1>1, NeighborFacts DEF Farther
<1>6. metric' \in [Vertex -> {-1, 0, 1}] /\ metric'[source] = 0
  BY <1>1, <1>2, <1>5 DEF AgainInv
<1>7. Closed(Vertex, visited)'
  <2>1. \A v \in visited : neighbors(v)' = neighbors(v)
    BY <1>2 DEF neighbors
  <2> QED  BY <1>2, <2>1 DEF AgainInv, Closed
<1>8. AgainInv'
  BY <1>2, <1>4, <1>6, <1>7 DEF AgainInv
<1>9. HopTypeOK'
  <2>1. metric' \in [Vertex -> {Unset} \cup (0 .. Cardinality(Vertex))]
    <3>1. {-1, 0, 1} \subseteq {Unset} \cup (0 .. Cardinality(Vertex))
      BY <1>1, VertexCount, FS_EmptySet, CdsAssumption
    <3> QED  BY <1>6, <3>1
  <2>2. parent' \in [Vertex -> Vertex \cup {None}]
    BY <1>1, <1>2 DEF CdsTypeOK, HopTypeOK
  <2> QED  BY <1>2, <1>4, <2>1, <2>2 DEF CdsTypeOK, HopTypeOK
<1> QED  BY <1>8, <1>9

LEMMA AgainStep ==
  ASSUME CdsTypeOK, GraphInv, AgainInv, CdsStep
  PROVE  CdsTypeOK' /\ GraphInv' /\ AgainInv'
<1>1. ColorTypes'
  <2>1. /\ source \in Vertex /\ metric[source] = 0
        /\ metric \in [Vertex -> {-1} \cup (0 .. Cardinality(Vertex))]
    BY CdsAssumption DEF AgainInv, CdsTypeOK, HopTypeOK
  <2>2. ColorTypes
    BY DEF ColorTypes, CdsTypeOK
  <2> QED  BY <2>1, <2>2, ColorStepTypes
<1>2. CASE Visit
  <2>1. GraphInv'
    BY <1>2 DEF Visit, GraphInv
  <2> QED  BY <1>1, <1>2, <2>1, VisitAgain DEF ColorTypes, CdsTypeOK
<1>3. CASE UNCHANGED hopVars
  <2>1. UNCHANGED <<edges, source, metric, parent, visited, stack_nodes>>
    BY <1>3 DEF hopVars, labels
  <2>2. \A v : neighbors(v)' = neighbors(v)
    BY <2>1 DEF neighbors
  <2>3. GraphInv' /\ HopTypeOK'
    BY <2>1 DEF GraphInv, CdsTypeOK, HopTypeOK
  <2>4. AgainInv'
    BY <2>1, <2>2 DEF AgainInv, Closed
  <2> QED  BY <1>1, <2>3, <2>4 DEF ColorTypes, CdsTypeOK
<1>4. Visit \/ UNCHANGED hopVars
  BY DEF CdsStep, CountHops, HopsCounted, ColorBlack, NextMisHop, Connect, NextConnectHop
<1> QED  BY <1>2, <1>3, <1>4

LEMMA BuildSetInv ==
  ASSUME IcgaInv, BuildSet
  PROVE  IcgaInv'
<1>1. stage \in {"cds", "icga"} /\ CdsStep /\ UNCHANGED <<stage, level>>
  BY DEF BuildSet
<1>2. CdsTypeOK' /\ GraphInv' /\ (stage = "cds" => CdsInv') /\ (stage = "icga" => AgainInv')
  <2>1. CASE stage = "cds"
    <3>1. CdsInv'
      BY <1>1, <2>1, CdsStepInv DEF IcgaInv
    <3>2. CdsTypeOK'
      BY <3>1, CdsTypes, PTL
    <3> QED  BY <2>1, <3>1, <3>2 DEF CdsInv, HopInv
  <2>2. CASE stage = "icga"
    BY <1>1, <2>2, AgainStep DEF IcgaInv, IcgaTypeOK
  <2> QED  BY <1>1, <2>1, <2>2
<1> QED  BY <1>1, <1>2 DEF IcgaInv, IcgaTypeOK, WhiteInv

LEMMA CallIcgaInv ==
  ASSUME IcgaInv, CallIcga
  PROVE  IcgaInv'
<1>1. /\ stage = "cds" /\ phase = "done" /\ stage' = "icga" /\ ResetLabels(source)
      /\ UNCHANGED <<edges, source, visited, hop, todo, level>>
  BY DEF CallIcga
<1>2. CdsInv /\ CdsTypeOK /\ GraphInv /\ source \in Vertex
  BY <1>1 DEF IcgaInv, IcgaTypeOK, CdsInv, HopInv, LabelTypes
<1>3. Labelled = visited
  BY <1>1, <1>2, QueueEmpty DEF CdsInv, ColorInv, MisInv
<1>4. source \in visited
  BY <1>2, <1>3, LabelledFacts DEF CdsInv
<1>5. Closed(Vertex, visited)'
  <2>1. \A v \in visited : neighbors(v) \subseteq visited /\ neighbors(v)' = neighbors(v)
    BY <1>1, <1>2, <1>3 DEF CdsInv, HopInv, VisitedInv, neighbors
  <2> QED  BY <1>1, <2>1 DEF Closed
<1>6. /\ metric' = [v \in Vertex |-> IF v = source THEN 0 ELSE -1]
      /\ stack_nodes' = <<source>> /\ phase' = "hops"
      /\ color' = [v \in Vertex |-> White]
      /\ parent' = [parent EXCEPT ![source] = None]
  BY <1>1, CdsAssumption DEF ResetLabels
<1>7. AgainInv'
  BY <1>1, <1>2, <1>4, <1>5, <1>6 DEF AgainInv
<1>8. HopTypeOK'
  BY <1>1, <1>2, <1>6, CdsAssumption, VertexCount DEF CdsTypeOK, HopTypeOK
<1>9. CdsTypeOK'
  BY <1>1, <1>2, <1>6, <1>8 DEF CdsTypeOK, White
<1>10. GraphInv'
  BY <1>1, <1>2 DEF GraphInv
<1> QED  BY <1>1, <1>7, <1>9, <1>10 DEF IcgaInv, IcgaTypeOK, Stages, WhiteInv

LEMMA KeepBlackInv ==
  ASSUME IcgaInv, KeepBlack
  PROVE  IcgaInv'
<1>1. /\ stage' = "dominate" /\ visited' = {}
      /\ color' = [v \in Vertex |-> IF color[v] = Black THEN Black ELSE White]
      /\ UNCHANGED <<edges, source, metric, parent, stack_nodes, phase, hop, todo, level>>
  BY DEF KeepBlack
<1>2. CdsTypeOK'
  BY <1>1 DEF IcgaInv, IcgaTypeOK, CdsTypeOK, HopTypeOK, White, Black
<1>3. GraphInv'
  BY <1>1 DEF IcgaInv, GraphInv
<1>4. \A v \in Vertex : color'[v] # Gray
  BY <1>1 DEF White, Gray, Black
<1> QED  BY <1>1, <1>2, <1>3, <1>4 DEF IcgaInv, IcgaTypeOK, Stages, WhiteInv

(* A vertex that turns black takes no black neighbour from any other.      *)
LEMMA MoreBlack ==
  ASSUME IcgaInv, stage \notin {"cds", "icga"}, NEW v, color' = [color EXCEPT ![v] = Black],
         UNCHANGED <<hopVars, phase, hop, todo, level>>, stage' = stage
  PROVE  IcgaInv'
<1>1. UNCHANGED <<edges, source, metric, parent, visited, stack_nodes>>
  BY DEF hopVars, labels
<1>2. color \in [Vertex -> {White, Gray, Black}]
  BY DEF IcgaInv, IcgaTypeOK, CdsTypeOK
<1>3. color' \in [Vertex -> {White, Gray, Black}]
  BY <1>2
<1>4. CdsTypeOK' /\ GraphInv'
  BY <1>1, <1>3 DEF IcgaInv, IcgaTypeOK, CdsTypeOK, HopTypeOK, GraphInv
<1>5. \A w \in Vertex : color'[w] = color[w] \/ color'[w] = Black
  BY <1>2
<1>6. ASSUME NEW w \in Vertex
      PROVE  BlackNeighbors(w) \subseteq BlackNeighbors(w)' /\ IsFiniteSet(BlackNeighbors(w)')
  <2>1. neighbors(w)' = neighbors(w)
    BY <1>1 DEF neighbors
  <2>2. Colored(Black) \subseteq Colored(Black)'
    BY <1>5 DEF Colored
  <2>3. BlackNeighbors(w)' \subseteq Vertex
    BY DEF BlackNeighbors, Colored
  <2> QED  BY <2>1, <2>2, <2>3, VertexCount, FS_Subset DEF BlackNeighbors
<1>7. \A w \in Vertex : Cardinality(BlackNeighbors(w)) >= M =>
                        Cardinality(BlackNeighbors(w)') >= M
  <2> TAKE w \in Vertex
  <2>1. Cardinality(BlackNeighbors(w)) <= Cardinality(BlackNeighbors(w)')
    BY <1>6, FS_Subset
  <2>2. Cardinality(BlackNeighbors(w)) \in Nat /\ Cardinality(BlackNeighbors(w)') \in Nat
    BY <1>6, FS_Subset, FS_CardinalityType
  <2> QED  BY <2>1, <2>2, IcgaAssumption
<1>8. \A w \in Colored(White)' : w \in Colored(White)
  BY <1>5 DEF Colored, White, Black
<1>9. WhiteInv'
  <2>1. \A w \in Vertex : stage # "cds" /\ stage # "icga" => color'[w] # Gray
    BY <1>5 DEF IcgaInv, IcgaTypeOK, Stages, WhiteInv, Gray, Black
  <2>2. stage \in {"k", "warned", "end"} =>
          \A w \in Colored(White)' : Cardinality(BlackNeighbors(w)') >= M
    BY <1>7, <1>8 DEF IcgaInv, WhiteInv, Colored
  <2> QED  BY <2>1, <2>2 DEF WhiteInv
<1> QED  BY <1>4, <1>9 DEF IcgaInv, IcgaTypeOK

LEMMA SameIcga ==
  ASSUME IcgaInv, UNCHANGED cdsVars, stage' \in Stages, level' \in 1 .. K + 1,
         stage' \notin {"cds", "icga"}, WhiteInv'
  PROVE  IcgaInv'
<1>1. UNCHANGED <<edges, source, metric, parent, visited, stack_nodes, phase, color, hop, todo>>
  BY DEF cdsVars, hopVars, labels
<1>2. CdsTypeOK' /\ GraphInv'
  BY <1>1 DEF IcgaInv, IcgaTypeOK, CdsTypeOK, HopTypeOK, GraphInv
<1> QED  BY <1>2 DEF IcgaInv, IcgaTypeOK

(* When the colours stay, so does what WhiteInv says of them.              *)
LEMMA SameWhite ==
  UNCHANGED cdsVars => /\ Colored(White)' = Colored(White)
                       /\ color' = color
                       /\ \A v : BlackNeighbors(v)' = BlackNeighbors(v)
  BY DEF cdsVars, hopVars, Colored, BlackNeighbors, neighbors

LEMMA IcgaStepInv == IcgaInv /\ IcgaStep => IcgaInv'
<1> SUFFICES ASSUME IcgaInv, IcgaStep PROVE IcgaInv'
  OBVIOUS
<1>1. CASE BuildSet
  BY <1>1, BuildSetInv
<1>2. CASE CallIcga
  BY <1>2, CallIcgaInv
<1>3. CASE KeepBlack
  BY <1>3, KeepBlackInv
<1>4. CASE DominateMore
  BY <1>4, MoreBlack DEF DominateMore
<1>5. CASE AllDominated
  <2>1. /\ stage = "dominate" /\ Undominated = {} /\ stage' = "k"
        /\ UNCHANGED <<cdsVars, level>>
    BY <1>5 DEF AllDominated
  <2>2. \A v \in Colored(White) : Cardinality(BlackNeighbors(v)) >= M
    <3> TAKE v \in Colored(White)
    <3>1. ~(Cardinality(BlackNeighbors(v)) < M)
      BY <2>1 DEF Undominated
    <3>2. BlackNeighbors(v) \subseteq Vertex
      BY DEF BlackNeighbors, Colored
    <3>3. Cardinality(BlackNeighbors(v)) \in Nat
      BY <3>2, VertexCount, FS_Subset, FS_CardinalityType
    <3> QED  BY <3>1, <3>3, IcgaAssumption
  <2>3. WhiteInv'
    BY <2>1, <2>2, SameWhite DEF IcgaInv, WhiteInv
  <2> QED  BY <2>1, <2>3, SameIcga DEF IcgaInv, IcgaTypeOK, Stages
<1>6. CASE AddHeaviest
  <2> DEFINE v == max_weight_node(Colored(White))
  <2>1. /\ stage = "k" /\ UNCHANGED <<hopVars, phase, hop, todo, level>>
        /\ \/ stage' = "warned" /\ color' = color
           \/ color' = [color EXCEPT ![v] = Black] /\ stage' = stage
    BY <1>6 DEF AddHeaviest
  <2> HIDE DEF v
  <2>2. CASE stage' = "warned" /\ color' = color
    <3>1. UNCHANGED cdsVars /\ level' = level
      BY <2>1, <2>2 DEF cdsVars
    <3>2. WhiteInv'
      BY <2>1, <2>2, <3>1, SameWhite DEF IcgaInv, WhiteInv
    <3> QED  BY <2>2, <3>1, <3>2, SameIcga DEF IcgaInv, IcgaTypeOK, Stages
  <2>3. CASE color' = [color EXCEPT ![v] = Black] /\ stage' = stage
    BY <2>1, <2>3, MoreBlack
  <2> QED  BY <2>1, <2>2, <2>3
<1>7. CASE NextLevel
  <2>1. /\ stage = "k" /\ level <= K /\ level' = level + 1 /\ stage' = stage
        /\ UNCHANGED cdsVars
    BY <1>7 DEF NextLevel
  <2>2. level' \in 1 .. K + 1
    BY <2>1, IcgaAssumption DEF IcgaInv, IcgaTypeOK
  <2>3. WhiteInv'
    BY <2>1, SameWhite DEF IcgaInv, WhiteInv
  <2> QED  BY <2>1, <2>2, <2>3, SameIcga DEF IcgaInv, IcgaTypeOK
<1>8. CASE Finish
  <2>1. stage = "k" /\ stage' = "end" /\ UNCHANGED <<cdsVars, level>>
    BY <1>8 DEF Finish
  <2>2. WhiteInv'
    BY <2>1, SameWhite DEF IcgaInv, WhiteInv
  <2> QED  BY <2>1, <2>2, SameIcga DEF IcgaInv, IcgaTypeOK, Stages
<1> QED  BY <1>1, <1>2, <1>3, <1>4, <1>5, <1>6, <1>7, <1>8 DEF IcgaStep

LEMMA IcgaStutter ==
  ASSUME IcgaInv, UNCHANGED icgaVars
  PROVE  IcgaInv'
<1>1. UNCHANGED <<cdsVars, stage, level>>
  BY DEF icgaVars
<1>2. UNCHANGED <<edges, source, metric, parent, visited, stack_nodes, phase, color, hop, todo>>
  BY <1>1 DEF cdsVars, hopVars, labels
<1>3. IcgaTypeOK' /\ GraphInv'
  BY <1>1, <1>2 DEF IcgaInv, IcgaTypeOK, CdsTypeOK, HopTypeOK, GraphInv
<1>4. stage = "cds" => CdsInv'
  BY <1>1, CdsStutter DEF IcgaInv
<1>5. stage = "icga" => AgainInv'
  <2>1. \A v : neighbors(v)' = neighbors(v)
    BY <1>2 DEF neighbors
  <2> QED  BY <1>2, <2>1 DEF IcgaInv, AgainInv, Closed
<1>6. WhiteInv'
  BY <1>1, SameWhite DEF IcgaInv, WhiteInv
<1> QED  BY <1>1, <1>3, <1>4, <1>5, <1>6 DEF IcgaInv

LEMMA IcgaAlwaysInv == IcgaSpec => []IcgaInv
<1>1. IcgaInv /\ [IcgaStep]_icgaVars => IcgaInv'
  BY IcgaStepInv, IcgaStutter
<1> QED  BY IcgaStart, <1>1, PTL DEF IcgaSpec

-----------------------------------------------------------------------------
(***************************************************************************)
(* Theorems.                                                               *)
(***************************************************************************)

(* The hop counts that the traversal ends with are the distances from the  *)
(* leader, for every graph and every order in which neighbours come.       *)
THEOREM DistanceTheorem == CdsSpec => []HopsAreDistances
<1>1. CdsInv => HopsAreDistances
  BY HopsTraversed DEF CdsInv
<1> QED  BY <1>1, CdsAlwaysInv, PTL

(* Parents lead back to the leader one hop at a time, at every moment of   *)
(* the traversal, whatever the order in which neighbours are appended.     *)
THEOREM ParentTheorem == CdsSpec => []ParentIsOneHopCloser
<1>1. CdsInv => ParentIsOneHopCloser
  BY DEF CdsInv, HopInv, ParentInv
<1> QED  BY <1>1, CdsAlwaysInv, PTL

(* The test metric > metric + 1 never holds of a vertex with a metric: the *)
(* first hop count given to a vertex is the last.                          *)
THEOREM FirstCountTheorem == CdsSpec => FirstHopCountStands
<1>1. CdsInv /\ [CdsStep]_cdsVars => [HopCountStands]_hopVars
  <2> SUFFICES ASSUME CdsInv, CdsStep, ~(UNCHANGED hopVars) PROVE HopCountStands
    BY DEF cdsVars
  <2>1. Visit
    BY DEF CdsStep, CountHops, HopsCounted, ColorBlack, NextMisHop, Connect, NextConnectHop
  <2>2. \A v \in Labelled : metric'[v] = metric[v] /\ parent'[v] = parent[v]
    BY <2>1, VisitFacts DEF CdsInv
  <2> QED  BY <2>2 DEF HopCountStands, Labelled
<1> QED  BY <1>1, CdsAlwaysInv, PTL DEF CdsSpec, FirstHopCountStands

(* No two members of the growing set are neighbours, and a gray vertex is  *)
(* never without a black neighbour, on any graph.                          *)
THEOREM IndependentTheorem == CdsSpec => []MisIsIndependent
<1>1. CdsInv => MisIsIndependent
  <2> SUFFICES ASSUME CdsInv PROVE MisIsIndependent
    OBVIOUS
  <2>1. ASSUME phase = "mis", NEW v \in Colored(Black)
        PROVE  neighbors(v) \cap Colored(Black) = {}
    BY <2>1 DEF CdsInv, ColorInv, MisInv, Colored, Gray, Black
  <2>2. ASSUME NEW v \in Colored(Gray)
        PROVE  neighbors(v) \cap Colored(Black) # {}
    <3>1. PICK w \in neighbors(v) : color[w] = Black
      BY DEF CdsInv, ColorInv, GrayInv, Colored
    <3>2. w \in Vertex
      BY DEF neighbors
    <3> QED  BY <3>1, <3>2 DEF Colored
  <2> QED  BY <2>1, <2>2 DEF MisIsIndependent
<1> QED  BY <1>1, CdsAlwaysInv, PTL

(* The warning about a directional graph never appears: the parent of a    *)
(* vertex to be connected is one of its neighbours on the hop before.      *)
THEOREM ConnectorTheorem == CdsSpec => []ConnectorExists
<1>1. CdsInv => ConnectorExists
  BY NearerExists DEF CdsInv, ColorInv, ConnectorExists
<1> QED  BY <1>1, CdsAlwaysInv, PTL

(* The black vertices form one piece: what one of them reaches within the  *)
(* set holds the leader, and so holds all.                                 *)
LEMMA BlackConnected ==
  ASSUME CdsInv, phase = "done"
  PROVE  Connected(Colored(Black))
<1> DEFINE B == Colored(Black)
<1>1. B \in SUBSET Vertex /\ IsFiniteSet(B)
  BY GraphAssumption, FS_Subset DEF Colored
<1>2. \A v, w \in B : w \in neighbors(v) <=> v \in neighbors(w)
  BY <1>1, NeighborFacts DEF CdsInv, HopInv
<1>3. source \in B
  <2>1. source \in Vertex /\ source \in Labelled /\ color[source] # White
    BY LabelledFacts DEF CdsInv, ColorInv, HopsColored, HopInv, LabelTypes
  <2>2. color[source] # Gray
    <3> SUFFICES ASSUME color[source] = Gray PROVE FALSE
      OBVIOUS
    <3>1. PICK w \in neighbors(source) : color[w] = Black /\ metric[w] <= metric[source]
      BY <2>1 DEF CdsInv, ColorInv, GrayInv
    <3>2. w \in Vertex /\ w # source
      BY <2>1, <3>1, NeighborFacts DEF CdsInv, HopInv
    <3>3. w \in Labelled
      BY <3>1, <3>2 DEF CdsInv, ColorInv, HopsColored
    <3>4. metric[w] = 0
      BY <3>1, <3>3, LabelledFacts DEF CdsInv
    <3> QED  BY <3>2, <3>3, <3>4, LabelledFacts DEF CdsInv
  <2> QED  BY <2>1, <2>2 DEF CdsInv, ColorInv, ColorTypes, Colored
<1>4. \A v \in B : \A T \in SUBSET Vertex : source \in T /\ Closed(B, T) => v \in T
  BY DEF CdsInv, ColorInv, LinkInv, Linked
<1> HIDE DEF B
<1>5. ASSUME NEW s \in B PROVE Reachable(B, s) = B
  <2> DEFINE R == Reachable(B, s)
  <2>1. s \in R /\ R \subseteq B /\ Closed(B, R)
    BY <1>1, ReachableClosed
  <2> HIDE DEF R
  <2>2. Closed(B, B \ R)
    BY <1>1, <1>2, <2>1 DEF Closed
  <2>3. source \in R
    BY <1>1, <1>3, <1>4, <2>1, <2>2
  <2>4. B \subseteq R
    BY <1>1, <1>4, <2>1, <2>3
  <2> QED  BY <2>1, <2>4 DEF R
<1> QED  BY <1>5 DEF Connected, B

(* The result is a connected dominating set of what the leader reaches, on *)
(* every graph and for every leader.                                       *)
THEOREM BackboneTheorem == CdsSpec => []SetIsBackbone
<1>1. CdsInv => SetIsBackbone
  <2> SUFFICES ASSUME CdsInv, phase = "done"
               PROVE  /\ Dominates(Colored(Black), Reachable(Vertex, source), 1)
                      /\ Connected(Colored(Black))
    BY DEF SetIsBackbone
  <2>1. Reachable(Vertex, source) = Labelled
    <3>1. Labelled = visited
      BY QueueEmpty DEF CdsInv, ColorInv, MisInv
    <3> QED  BY <3>1, HopsAreDistancesOf DEF CdsInv
  <2>2. ASSUME NEW v \in Labelled \ Colored(Black)
        PROVE  Cardinality(neighbors(v) \cap Colored(Black)) >= 1
    <3> DEFINE N == neighbors(v) \cap Colored(Black)
    <3>1. v \in Vertex /\ color[v] = Gray
      BY DEF CdsInv, ColorInv, ColorTypes, HopsColored, Colored, Labelled
    <3>2. PICK w \in neighbors(v) : color[w] = Black
      BY <3>1 DEF CdsInv, ColorInv, GrayInv
    <3>3. N # {} /\ N \in SUBSET Vertex
      BY <3>2, NeighborFacts, <3>1 DEF Colored
    <3> HIDE DEF N
    <3>4. IsFiniteSet(N) /\ Cardinality(N) \in Nat
      BY <3>3, VertexCount, FS_Subset, FS_CardinalityType
    <3>5. Cardinality(N) # 0
      BY <3>3, <3>4, FS_EmptySet
    <3>6. Cardinality(N) >= 1
      BY <3>4, <3>5
    <3> QED  BY <3>6 DEF N
  <2> QED  BY <2>1, <2>2, BlackConnected DEF Dominates
<1> QED  BY <1>1, CdsAlwaysInv, PTL

(* The variables of the main program keep their types through both runs of *)
(* cds_bd_c2, the second of which finds every vertex visited.              *)
THEOREM IcgaTypeTheorem == IcgaSpec => []IcgaTypeOK
<1>1. IcgaInv => IcgaTypeOK
  BY DEF IcgaInv
<1> QED  BY <1>1, IcgaAlwaysInv, PTL

(* Every vertex outside the set has M neighbours in it, whatever the graph *)
(* and the arguments k and m of icga are.                                  *)
THEOREM DominationTheorem == IcgaSpec => []EveryNodeDominated
<1>1. IcgaInv => EveryNodeDominated
  <2> SUFFICES ASSUME IcgaInv, stage \in {"k", "end"}, NEW v \in Vertex \ Colored(Black)
               PROVE  Cardinality(neighbors(v) \cap Colored(Black)) >= M
    BY DEF EveryNodeDominated, Dominates
  <2>1. color[v] = White
    BY DEF IcgaInv, WhiteInv, IcgaTypeOK, CdsTypeOK, Colored
  <2> QED  BY <2>1 DEF IcgaInv, WhiteInv, Colored, BlackNeighbors
<1> QED  BY <1>1, IcgaAlwaysInv, PTL
=============================================================================
