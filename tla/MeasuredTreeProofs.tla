------------------------ MODULE MeasuredTreeProofs ---------------------------
(***************************************************************************)
(* Theorems about MeasuredTree, for every field and every printed line:    *)
(* the parents lead to the sink, with costs along the cheapest paths, and  *)
(* a sink is found whenever there is one.                                  *)
(***************************************************************************)
EXTENDS MeasuredTree, SetInduction

-----------------------------------------------------------------------------
(***************************************************************************)
(* The inductive invariants.                                               *)
(***************************************************************************)

(* Before the columns are normalised a reliability may be negative.        *)
WeightsInv ==
  /\ lines \in Surveys /\ kind \in {"lqi", "rssi", "etx"}
  /\ weight \in [DOMAIN lines -> Int]
  /\ Unit \in Nat \ {0}
  /\ addition => weight = Column("etx")
  /\ phase \in {"pick", "attach", "done"} => \A l \in DOMAIN lines : weight[l] >= 0

(* A vertex without a parent has no distance, and until the sink has left  *)
(* V the others have no parent.                                            *)
OrphanInv ==
  phase = "attach" =>
    /\ sink \in Vertex
    /\ \A v \in Vertex \ {sink} : parents[v] = None => distances[v] = Far
    /\ sink \in V => \A v \in Vertex \ {sink} : parents[v] = None

(* No one is further from the sink than there are vertices out of V.       *)
HopsInv == \A v \in Vertex : hops[v] <= Cardinality(Vertex \ V)

TreeInv == WeightsInv /\ ParentsLeadToSink /\ OrphanInv /\ HopsInv

(* With costs: the vertices leave V in the order of their distances, and   *)
(* no link to one of them is a shorter way.                                *)
CostInv ==
  addition /\ phase = "attach" =>
    /\ distances[sink] = 0
    /\ \A v \in Vertex : distances[v] >= 0 /\ distances[v] <= Far
    /\ \A v \in Vertex \ {sink} : parents[v] # None => distances[v] < Far
    /\ \A v \in Vertex \ V, w \in V : distances[v] <= distances[w]
    /\ \A l \in DOMAIN weight : l[2] \notin V =>
         distances[l[1]] <= weight[l] + distances[l[2]]

(* What extractMin and extractMax look for.                                *)
Reached(v) == IF addition THEN distances[v] < Far ELSE distances[v] > 0

Leaving(A) == {l \in DOMAIN weight : l[1] \in A}
Cost(A) == SumFunctionOnSet(weight, Leaving(A))

(* Unit^i. *)
Power[i \in 0 .. Cardinality(Vertex)] == IF i = 0 THEN 1 ELSE Unit * Power[i - 1]

(* A cost is bounded by all the links it may be the sum of, and a product  *)
(* of reliabilities does not vanish: every hop takes one Unit from it.     *)
BoundInv ==
  phase = "attach" =>
    \A v \in Vertex : Reached(v) =>
      IF addition THEN distances[v] <= Cost((Vertex \ V) \cup {v})
                  ELSE distances[v] >= Power[Cardinality(Vertex) - hops[v]]

(* Only what is joined to the sink is reached, every vertex out of V is,   *)
(* and whoever has a link to one of them has a parent, and is reached too  *)
(* if the link is worth something.                                         *)
JoinedInv ==
  phase = "attach" =>
    /\ Reached(sink)
    /\ \A v \in Vertex : Reached(v) => v \in Joined(sink)
    /\ \A v \in Vertex \ V : Reached(v)
    /\ \A l \in DOMAIN weight : l[2] \notin V =>
         /\ l[1] = sink \/ parents[l[1]] # None
         /\ weight[l] > 0 => Reached(l[1])

(* A sink is kept only if it spans the others, and one is kept when the    *)
(* first such sink is compared.                                            *)
FoundInv ==
  /\ phase # "read" /\ best.sink # None => \E s \in Vertex : Spans(s)
  /\ phase # "read" =>
       \A s \in Vertex \ untried :
         Spans(s) /\ ~(phase = "attach" /\ s = sink) => best.sink # None
  /\ phase = "read" => untried = Vertex /\ best.sink = None
  /\ best.sink = None => best.value = 0

-----------------------------------------------------------------------------
(***************************************************************************)
(* Weights.                                                                *)
(***************************************************************************)
LEMMA VertexFinite ==
  /\ IsFiniteSet(Vertex) /\ Cardinality(Vertex) \in Nat
  /\ IsFiniteSet(Vertex \X Vertex) /\ None \notin Vertex
<1>1. IsFiniteSet(Vertex) /\ None \notin Vertex
  BY SurveyAssumption
<1> QED  BY <1>1, FS_CardinalityType, FS_Product

LEMMA SurveyFacts ==
  ASSUME NEW s \in Surveys
  PROVE  /\ IsFiniteSet(DOMAIN s) /\ DOMAIN s # {}
         /\ \A l \in DOMAIN s : /\ l \in Vertex \X Vertex /\ l[1] # l[2]
                                /\ l = <<l[1], l[2]>> /\ s[l] \in Line
<1>1. DOMAIN s # {} /\ DOMAIN s \subseteq Vertex \X Vertex
  BY SurveyAssumption
<1>2. IsFiniteSet(DOMAIN s)
  BY <1>1, VertexFinite, FS_Subset
<1>3. \A l \in DOMAIN s : l[1] # l[2] /\ s[l] \in Line
  BY SurveyAssumption
<1> QED  BY <1>1, <1>2, <1>3

LEMMA ParsedLine ==
  ASSUME NEW r \in Line
  PROVE  /\ parseFile(r).lqi = r.rssi /\ parseFile(r).lqi \in Int
         /\ parseFile(r).rssi = r.etx /\ parseFile(r).rssi \in Nat
         /\ parseFile(r).etx \in Nat \ {0}
<1>1. /\ r.rssi \in Int /\ r.etx \in Nat /\ r.etx_accumulator \in Nat
  BY DEF Line
<1>2. Columns(r)[4] = r.rssi /\ Columns(r)[5] = r.etx /\ Columns(r)[6] = r.etx_accumulator
  BY DEF Columns
<1> QED  BY <1>1, <1>2 DEF parseFile

LEMMA ColumnFacts ==
  ASSUME lines \in Surveys, NEW k \in {"lqi", "rssi", "etx"}
  PROVE  /\ Column(k) \in [DOMAIN lines -> Int]
         /\ DOMAIN Column(k) = DOMAIN lines
         /\ k = "etx" => \A l \in DOMAIN lines : Column(k)[l] > 0
<1>1. \A l \in DOMAIN lines :
        /\ parseFile(lines[l]).lqi \in Int /\ parseFile(lines[l]).rssi \in Int
        /\ parseFile(lines[l]).etx \in Nat \ {0}
  <2> TAKE l \in DOMAIN lines
  <2>1. lines[l] \in Line
    BY SurveyFacts
  <2> QED  BY <2>1, ParsedLine
<1>2. \A l \in DOMAIN lines : parseFile(lines[l])[k] \in Int
  BY <1>1
<1> QED  BY <1>1, <1>2 DEF Column

(* The largest and the smallest value of a column.                         *)
LEMMA ColumnRange ==
  ASSUME NEW D, IsFiniteSet(D), D # {}, NEW d \in [D -> Int]
  PROVE  /\ Max(Values(d)) \in Int /\ Min(Values(d)) \in Int
         /\ \A l \in D : Min(Values(d)) <= d[l] /\ d[l] <= Max(Values(d))
         /\ Min(Values(d)) <= Max(Values(d))
<1> DEFINE S == {d[l] : l \in D}
<1>1. S = Values(d) /\ S \in SUBSET Int /\ S # {} /\ IsFiniteSet(S)
  BY FiniteImage DEF Values
<1>2. \A l \in D : d[l] \in S
  OBVIOUS
<1> HIDE DEF S
<1>3. Max(S) \in S /\ \A j \in S : Max(S) >= j
  BY <1>1, Extremes DEF Max
<1>4. Min(S) \in S /\ \A j \in S : Min(S) <= j
  BY <1>1, Extremes DEF Min
<1> QED  BY <1>1, <1>2, <1>3, <1>4

LEMMA NormalFacts ==
  ASSUME lines \in Surveys, NEW k \in {"lqi", "rssi"}, Normalizable(Column(k))
  PROVE  /\ normalizeData(Column(k)) \in [DOMAIN lines -> Nat]
         /\ Denominator(Column(k)) \in Nat \ {0}
<1> DEFINE d == Column(k)
           D == DOMAIN lines
           hi == Max(Values(d))
           lo == Min(Values(d))
<1>1. d \in [D -> Int] /\ IsFiniteSet(D) /\ D # {}
  BY ColumnFacts, SurveyFacts
<1>2. lo < 0 \/ hi # 0
  BY DEF Normalizable
<1> HIDE DEF d, D
<1>3. /\ hi \in Int /\ lo \in Int /\ lo <= hi
      /\ \A l \in D : lo <= d[l] /\ d[l] <= hi
  BY <1>1, ColumnRange
<1>4. Denominator(d) = IF lo >= 0 THEN hi ELSE IF hi - lo = 0 THEN 1 ELSE hi - lo
  BY DEF Denominator
<1>5. normalizeData(d) = [l \in D |-> IF lo >= 0 THEN d[l]
                                      ELSE IF hi - lo = 0 THEN 1
                                      ELSE 100 * (hi - lo) - (hi - d[l]) * 100]
  BY <1>1 DEF normalizeData
<1> HIDE DEF hi, lo
<1>6. Denominator(d) \in Nat \ {0}
  BY <1>2, <1>3, <1>4
<1>7. \A l \in D : (IF lo >= 0 THEN d[l]
                    ELSE IF hi - lo = 0 THEN 1
                    ELSE 100 * (hi - lo) - (hi - d[l]) * 100) \in Nat
  BY <1>1, <1>3
<1>8. normalizeData(d) \in [D -> Nat]
  BY <1>5, <1>7
<1> QED  BY <1>6, <1>8 DEF d, D

LEMMA FarFacts ==
  ASSUME WeightsInv, phase \in {"pick", "attach", "done"}
  PROVE  /\ addition => Far \in Nat /\ Far > 0
         /\ ~addition => Far = -1
         /\ Far \in Int
<1>1. weight \in [DOMAIN lines -> Int] /\ \A l \in DOMAIN lines : weight[l] >= 0
  BY DEF WeightsInv
<1>2. DOMAIN weight = DOMAIN lines /\ IsFiniteSet(DOMAIN lines)
  BY <1>1, SurveyFacts DEF WeightsInv
<1>3. SumFunctionOnSet(weight, DOMAIN weight) \in Nat
  BY <1>1, <1>2, SumNonnegative
<1> QED  BY <1>3 DEF Far

(* The distance of the sink is a power of the unit.                        *)
LEMMA PowerFacts ==
  ASSUME Unit \in Nat \ {0}
  PROVE  /\ \A n \in Nat : n <= Cardinality(Vertex) => Power[n] \in Nat \ {0}
         /\ \A n \in Nat : n + 1 <= Cardinality(Vertex) => Power[n + 1] = Unit * Power[n]
         /\ One = IF addition THEN 0 ELSE Power[Cardinality(Vertex)]
<1> DEFINE N == Cardinality(Vertex)
           P(n, f) == f = [i \in 0 .. n |-> IF i = 0 THEN 1 ELSE Unit * f[i - 1]]
           G == {n \in Nat : \E f : P(n, f)}
<1>1. 0 \in G
  <2> DEFINE f0 == [i \in 0 .. 0 |-> 1]
  <2>1. P(0, f0)
    OBVIOUS
  <2> QED  BY <2>1
<1>2. ASSUME NEW n \in Nat, n \in G PROVE n + 1 \in G
  <2>1. PICK f : P(n, f)
    BY <1>2
  <2> DEFINE g == [i \in 0 .. n + 1 |-> IF i = 0 THEN 1 ELSE Unit * f[i - 1]]
  <2>2. \A i \in 0 .. n : g[i] = f[i]
    <3> TAKE i \in 0 .. n
    <3>1. g[i] = IF i = 0 THEN 1 ELSE Unit * f[i - 1]
      OBVIOUS
    <3>2. f[i] = IF i = 0 THEN 1 ELSE Unit * f[i - 1]
      BY <2>1
    <3> QED  BY <3>1, <3>2
  <2>3. P(n + 1, g)
    <3>1. \A i \in 0 .. n + 1 : i # 0 => i - 1 \in 0 .. n
      OBVIOUS
    <3>2. \A i \in 0 .. n + 1 : i # 0 => g[i - 1] = f[i - 1]
      BY <2>2, <3>1
    <3> QED  BY <3>2
  <2> HIDE DEF g, P
  <2> QED  BY <2>3
<1>3. N \in G
  BY <1>1, <1>2, VertexFinite, NatSetInduction
<1> DEFINE power == CHOOSE f : P(N, f)
           M == {n \in Nat : n <= N => power[n] \in Nat \ {0}}
<1>4. One = (IF addition THEN 0 ELSE power[N]) /\ Power = power
  BY DEF One, Power
<1>5. P(N, power)
  BY <1>3
<1> HIDE DEF power
<1>6. power[0] = 1 /\ \A n \in Nat : n + 1 <= N => power[n + 1] = Unit * power[n]
  <2>1. 0 \in 0 .. N /\ \A n \in Nat : n + 1 <= N => n + 1 \in 0 .. N
    BY VertexFinite
  <2>2. \A n \in Nat : (n + 1) - 1 = n /\ n + 1 # 0
    OBVIOUS
  <2> QED  BY <1>5, <2>1, <2>2
<1>7. 0 \in M
  BY <1>6
<1>8. ASSUME NEW n \in Nat, n \in M PROVE n + 1 \in M
  <2>1. \A i, j \in Nat \ {0} : i * j \in Nat \ {0}
    OBVIOUS
  <2> QED  BY <1>6, <1>8, <2>1, VertexFinite
<1> HIDE DEF M
<1>9. Nat \subseteq M
  BY <1>7, <1>8, NatSetInduction
<1>10. \A n \in Nat : n <= N => power[n] \in Nat \ {0}
  BY <1>9 DEF M
<1> QED  BY <1>4, <1>6, <1>10

LEMMA OneFacts ==
  ASSUME Unit \in Nat \ {0}
  PROVE  One \in Int /\ (addition => One = 0)
<1>1. Power[Cardinality(Vertex)] \in Nat
  BY PowerFacts, VertexFinite
<1> QED  BY <1>1, PowerFacts

-----------------------------------------------------------------------------
(***************************************************************************)
(* The tree.                                                               *)
(***************************************************************************)
PlaceInv ==
  phase = "attach" =>
    /\ parents[sink] = None /\ hops[sink] = 0
    /\ \A v \in Vertex : parents[v] # None =>
         /\ <<v, parents[v]>> \in DOMAIN lines
         /\ parents[v] \notin V
         /\ parents[v] = sink \/ parents[parents[v]] # None
         /\ hops[v] = hops[parents[v]] + 1
         /\ distances[v] = Over(v, parents[v])

LEMMA PlaceIsParents == ParentsLeadToSink <=> TypeOK /\ PlaceInv
  BY DEF ParentsLeadToSink, PlaceInv

LEMMA TreeInit == Init => TreeInv
<1> SUFFICES ASSUME Init PROVE TreeInv
  OBVIOUS
<1>1. /\ lines \in Surveys /\ kind \in {"lqi", "rssi", "etx"} /\ phase = "read"
      /\ weight = Column(kind) /\ Unit = 1 /\ untried = Vertex /\ sink = None
      /\ V = {} /\ best = [value |-> 0, sink |-> None]
      /\ distances = [v \in Vertex |-> 0] /\ hops = [v \in Vertex |-> 0]
      /\ parents = [v \in Vertex |-> None]
  BY DEF Init
<1>2. weight \in [DOMAIN lines -> Int]
  BY <1>1, ColumnFacts
<1>3. WeightsInv
  BY <1>1, <1>2 DEF WeightsInv, addition
<1>4. TypeOK
  BY <1>1, <1>2, VertexFinite DEF TypeOK
<1>5. PlaceInv /\ OrphanInv
  BY <1>1 DEF PlaceInv, OrphanInv
<1>6. HopsInv
  <2>1. IsFiniteSet(Vertex \ V)
    BY VertexFinite, FS_Difference
  <2>2. Cardinality(Vertex \ V) \in Nat
    BY <2>1, FS_CardinalityType
  <2> QED  BY <1>1, <2>2 DEF HopsInv
<1> QED  BY <1>3, <1>4, <1>5, <1>6, PlaceIsParents DEF TreeInv

(* What is the same in the next state as long as the weights are.          *)
LEMMA SameWeights ==
  ASSUME UNCHANGED inputVars
  PROVE  /\ addition' = addition /\ Far' = Far /\ One' = One
         /\ \A k : Column(k)' = Column(k)
         /\ \A s : PathCost(s)' = PathCost(s)
<1>1. UNCHANGED <<lines, kind, weight, Unit>>
  BY DEF inputVars
<1>2. addition' = addition /\ \A k : Column(k)' = Column(k)
  BY <1>1 DEF addition, Column
<1>3. Far' = Far /\ One' = One
  BY <1>1, <1>2 DEF Far, One
<1>4. \A s : PathCost(s)' = PathCost(s)
  BY <1>1, <1>3 DEF PathCost
<1> QED  BY <1>2, <1>3, <1>4

LEMMA WeightsKept ==
  ASSUME WeightsInv, UNCHANGED inputVars,
         phase \in {"pick", "attach", "done"} \/ phase' \notin {"pick", "attach", "done"}
  PROVE  WeightsInv'
<1>1. UNCHANGED <<lines, kind, weight, Unit>>
  BY DEF inputVars
<1> QED  BY <1>1, SameWeights DEF WeightsInv

(* A step that leaves the tree alone and does not start one.               *)
LEMMA TreeKept ==
  ASSUME TreeInv, WeightsInv', UNCHANGED <<lines, treeVars>>, UNCHANGED <<untried, sink, best>>,
         phase' \in {"pick", "done", "crashed"}
  PROVE  TreeInv'
<1>1. UNCHANGED <<V, distances, parents, hops, untried, sink, best>>
  BY DEF treeVars
<1>2. TypeOK /\ weight' \in [DOMAIN lines' -> Int]
  BY PlaceIsParents DEF TreeInv, WeightsInv
<1>3. TypeOK'
  BY <1>1, <1>2 DEF TypeOK
<1>4. PlaceInv' /\ OrphanInv'
  BY DEF PlaceInv, OrphanInv
<1>5. HopsInv'
  BY <1>1 DEF TreeInv, HopsInv
<1>6. ParentsLeadToSink'
  BY <1>3, <1>4 DEF ParentsLeadToSink
<1> QED  BY <1>5, <1>6, <1>4 DEF TreeInv

LEMMA StutterTree == TreeInv /\ UNCHANGED vars => TreeInv'
<1> SUFFICES ASSUME TreeInv, UNCHANGED vars PROVE TreeInv'
  OBVIOUS
<1>1. /\ UNCHANGED <<phase, V, distances, parents, hops, untried, sink, best>>
      /\ UNCHANGED inputVars
  BY DEF vars, treeVars
<1>2. UNCHANGED <<lines, kind, weight, Unit>>
  BY <1>1 DEF inputVars
<1>3. TypeOK' /\ HopsInv'
  BY <1>1, <1>2, PlaceIsParents DEF TreeInv, TypeOK, HopsInv
<1>4. WeightsInv'
  BY <1>1, <1>2, SameWeights DEF TreeInv, WeightsInv
<1>5. OrphanInv'
  BY <1>1, SameWeights DEF TreeInv, OrphanInv
<1>6. PlaceInv'
  BY <1>1, <1>2, SameWeights, PlaceIsParents DEF TreeInv, PlaceInv, Over
<1>7. ParentsLeadToSink'
  BY <1>3, <1>6 DEF ParentsLeadToSink, PlaceInv
<1> QED  BY <1>3, <1>4, <1>5, <1>7 DEF TreeInv

LEMMA NormalizeTree == TreeInv /\ Normalize => TreeInv'
<1> SUFFICES ASSUME TreeInv, Normalize PROVE TreeInv'
  OBVIOUS
<1>1. /\ phase = "read" /\ phase' = "pick"
      /\ Normalizable(Column("lqi")) /\ Normalizable(Column("rssi"))
      /\ UNCHANGED <<lines, kind, untried, sink, treeVars, best>>
  BY DEF Normalize
<1>2. lines \in Surveys /\ kind \in {"lqi", "rssi", "etx"}
  BY DEF TreeInv, WeightsInv
<1>3. addition' = addition /\ \A k : Column(k)' = Column(k)
  BY <1>1 DEF addition, Column
<1>4. WeightsInv'
  <2>1. CASE addition
    <3>1. weight' = weight /\ Unit' = Unit /\ kind = "etx" /\ weight = Column("etx")
      BY <2>1 DEF Normalize, TreeInv, WeightsInv, addition
    <3>2. \A l \in DOMAIN lines : weight[l] > 0
      BY <1>2, <3>1, ColumnFacts
    <3>3. weight \in [DOMAIN lines -> Int] /\ Unit \in Nat \ {0}
      BY DEF TreeInv, WeightsInv
    <3>4. \A l \in DOMAIN lines : weight[l] >= 0
      BY <3>2, <3>3
    <3> QED  BY <1>1, <1>2, <1>3, <3>1, <3>3, <3>4 DEF WeightsInv
  <2>2. CASE ~addition
    <3>1. weight' = normalizeData(Column(kind)) /\ Unit' = Denominator(Column(kind))
      BY <2>2 DEF Normalize
    <3>2. kind \in {"lqi", "rssi"}
      BY <1>2, <2>2 DEF addition
    <3>3. weight' \in [DOMAIN lines -> Nat] /\ Unit' \in Nat \ {0}
      BY <1>1, <1>2, <3>1, <3>2, NormalFacts
    <3>4. weight' \in [DOMAIN lines -> Int] /\ \A l \in DOMAIN lines : weight'[l] >= 0
      BY <3>3
    <3> QED  BY <1>1, <1>2, <1>3, <2>2, <3>3, <3>4 DEF WeightsInv
  <2> QED  BY <2>1, <2>2
<1> QED  BY <1>1, <1>4, TreeKept

LEMMA CrashTree == TreeInv /\ DivisionByZero => TreeInv'
<1> SUFFICES ASSUME TreeInv, DivisionByZero PROVE TreeInv'
  OBVIOUS
<1>1. phase' = "crashed" /\ UNCHANGED <<inputVars, untried, sink, treeVars, best>>
  BY DEF DivisionByZero
<1>2. WeightsInv'
  BY <1>1, WeightsKept DEF TreeInv
<1> QED  BY <1>1, <1>2, TreeKept DEF inputVars

LEMMA FinishTree == TreeInv /\ Finish => TreeInv'
<1> SUFFICES ASSUME TreeInv, Finish PROVE TreeInv'
  OBVIOUS
<1>1. /\ phase = "pick" /\ phase' = "done"
      /\ UNCHANGED <<inputVars, untried, sink, treeVars, best>>
  BY DEF Finish
<1>2. WeightsInv'
  BY <1>1, WeightsKept DEF TreeInv
<1> QED  BY <1>1, <1>2, TreeKept DEF inputVars

LEMMA PickTree == ASSUME NEW s \in Vertex PROVE TreeInv /\ Pick(s) => TreeInv'
<1> SUFFICES ASSUME TreeInv, Pick(s) PROVE TreeInv'
  OBVIOUS
<1>1. /\ phase = "pick" /\ phase' = "attach" /\ untried' = untried \ {s} /\ sink' = s
      /\ V' = Vertex
      /\ distances' = [v \in Vertex |-> IF v = s THEN One ELSE Far]
      /\ parents' = [v \in Vertex |-> None] /\ hops' = [v \in Vertex |-> 0]
      /\ UNCHANGED inputVars /\ best' = best
  BY DEF Pick
<1>2. WeightsInv'
  BY <1>1, WeightsKept DEF TreeInv
<1>3. One \in Int /\ Far \in Int
  BY <1>1, OneFacts, FarFacts DEF TreeInv, WeightsInv
<1>4. TypeOK'
  <2>1. TypeOK /\ weight' \in [DOMAIN lines' -> Int]
    BY <1>2, PlaceIsParents DEF TreeInv, WeightsInv
  <2>2. distances' \in [Vertex -> Int]
    BY <1>1, <1>3
  <2>3. hops' \in [Vertex -> 0 .. Cardinality(Vertex)]
    BY <1>1, VertexFinite
  <2> QED  BY <1>1, <2>1, <2>2, <2>3 DEF TypeOK
<1>5. PlaceInv'
  BY <1>1 DEF PlaceInv
<1>6. OrphanInv'
  <2>1. Far' = Far
    BY <1>1, SameWeights
  <2> QED  BY <1>1, <2>1 DEF OrphanInv
<1>7. HopsInv'
  <2>1. Cardinality(Vertex \ Vertex) = 0
    BY FS_EmptySet
  <2> QED  BY <1>1, <2>1 DEF HopsInv
<1>8. ParentsLeadToSink'
  BY <1>4, <1>5 DEF ParentsLeadToSink, PlaceInv
<1> QED  BY <1>2, <1>6, <1>7, <1>8 DEF TreeInv

LEMMA TreeWeights ==
  ASSUME TreeInv, phase = "attach"
  PROVE  TreeLinks \in SUBSET DOMAIN weight /\ weightSum \in Nat
<1>1. /\ weight \in [DOMAIN lines -> Int] /\ lines \in Surveys
      /\ \A l \in DOMAIN lines : weight[l] >= 0
  BY DEF TreeInv, WeightsInv
<1>2. TreeLinks \in SUBSET DOMAIN lines
  BY <1>1 DEF TreeLinks
<1>3. IsFiniteSet(TreeLinks)
  BY <1>1, <1>2, SurveyFacts, FS_Subset
<1>4. weightSum \in Nat
  BY <1>1, <1>2, <1>3, SumNonnegative DEF weightSum
<1> QED  BY <1>1, <1>2, <1>4

LEMMA CompareTree == TreeInv /\ Compare => TreeInv'
<1> SUFFICES ASSUME TreeInv, Compare PROVE TreeInv'
  OBVIOUS
<1>1. /\ phase = "attach" /\ phase' = "pick"
      /\ best' \in {[value |-> weightSum, sink |-> sink], best}
      /\ UNCHANGED <<inputVars, untried, sink, treeVars>>
  BY DEF Compare
<1>2. UNCHANGED <<V, distances, parents, hops, untried, sink>>
  BY <1>1 DEF treeVars
<1>3. WeightsInv'
  BY <1>1, WeightsKept DEF TreeInv
<1>4. TypeOK'
  <2>1. TypeOK /\ weight' \in [DOMAIN lines' -> Int]
    BY <1>3, PlaceIsParents DEF TreeInv, WeightsInv
  <2>2. best' \in [value : Nat, sink : Vertex \cup {None}]
    BY <1>1, <2>1, TreeWeights DEF TypeOK
  <2> QED  BY <1>1, <1>2, <2>1, <2>2 DEF TypeOK
<1>5. PlaceInv' /\ OrphanInv'
  BY <1>1 DEF PlaceInv, OrphanInv
<1>6. HopsInv'
  BY <1>2 DEF TreeInv, HopsInv
<1>7. ParentsLeadToSink'
  BY <1>4, <1>5 DEF ParentsLeadToSink, PlaceInv
<1> QED  BY <1>3, <1>5, <1>6, <1>7 DEF TreeInv

(* The sink leaves V first, and then nothing takes its place.              *)
LEMMA SinkFirst ==
  ASSUME TreeInv, NEW u \in Vertex, Attach(u)
  PROVE  /\ u \in V /\ (u = sink \/ sink \notin V)
         /\ u = sink \/ parents[u] # None
         /\ sink \notin Improved(u)
<1>1. phase = "attach" /\ u \in Candidates
  BY DEF Attach, Nearest
<1>2. u \in V /\ (IF addition THEN distances[u] < Far ELSE distances[u] > 0)
  BY <1>1 DEF Candidates
<1>3. /\ ~addition => Far = -1
      /\ distances[u] \in Int /\ Far \in Int
  BY <1>1, FarFacts, PlaceIsParents DEF TreeInv, TypeOK
<1>4. u = sink \/ parents[u] # None
  <2> SUFFICES ASSUME u # sink, parents[u] = None PROVE FALSE
    OBVIOUS
  <2>1. distances[u] = Far
    BY <1>1 DEF TreeInv, OrphanInv
  <2> QED  BY <1>2, <1>3, <2>1
<1>5. u = sink \/ sink \notin V
  BY <1>1, <1>4 DEF TreeInv, OrphanInv
<1>6. sink \notin Improved(u)
  BY <1>5 DEF Improved
<1> QED  BY <1>2, <1>4, <1>5, <1>6

LEMMA OverType ==
  ASSUME WeightsInv, TypeOK, NEW v, NEW u \in Vertex, <<v, u>> \in DOMAIN weight
  PROVE  Over(v, u) \in Int
<1>1. weight[<<v, u>>] \in Int /\ distances[u] \in Int /\ Unit \in Nat \ {0}
  BY DEF WeightsInv, TypeOK
<1>2. \A i, j \in Int : i + j \in Int /\ i * j \in Int
  OBVIOUS
<1>3. \A i \in Int, n \in Nat \ {0} : i \div n \in Int
  OBVIOUS
<1>4. CASE addition
  BY <1>1, <1>2, <1>4 DEF Over
<1>5. CASE ~addition
  BY <1>1, <1>2, <1>3, <1>5 DEF Over
<1> QED  BY <1>4, <1>5

LEMMA AttachTree == ASSUME NEW u \in Vertex PROVE TreeInv /\ Attach(u) => TreeInv'
<1> SUFFICES ASSUME TreeInv, Attach(u) PROVE TreeInv'
  OBVIOUS
<1> DEFINE improved == Improved(u)
<1>1. /\ phase = "attach" /\ V' = V \ {u}
      /\ distances' = [v \in Vertex |-> IF v \in improved THEN Over(v, u) ELSE distances[v]]
      /\ parents' = [v \in Vertex |-> IF v \in improved THEN u ELSE parents[v]]
      /\ hops' = [v \in Vertex |-> IF v \in improved THEN hops[u] + 1 ELSE hops[v]]
      /\ UNCHANGED <<inputVars, phase, untried, sink, best>>
  BY DEF Attach
<1>2. UNCHANGED <<lines, kind, weight, Unit>> /\ DOMAIN weight = DOMAIN lines
  BY <1>1 DEF inputVars, TreeInv, WeightsInv
<1>3. TypeOK /\ PlaceInv /\ sink \in Vertex
  BY <1>1, PlaceIsParents DEF TreeInv, OrphanInv
<1>4. /\ u \in V /\ (u = sink \/ sink \notin V)
      /\ u = sink \/ parents[u] # None
      /\ sink \notin improved
  BY SinkFirst
<1>5. \A v \in improved : v \in V /\ v # u /\ v \in Vertex /\ <<v, u>> \in DOMAIN weight
  BY <1>3 DEF Improved, TypeOK
<1>6. WeightsInv'
  BY <1>1, WeightsKept DEF TreeInv
<1> HIDE DEF improved
<1>7. /\ Cardinality(Vertex \ V') = Cardinality(Vertex \ V) + 1
      /\ Cardinality(Vertex \ V) \in Nat /\ Cardinality(Vertex \ V') <= Cardinality(Vertex)
  <2>1. Vertex \ V' = (Vertex \ V) \cup {u} /\ u \notin Vertex \ V
    BY <1>1, <1>4
  <2>2. IsFiniteSet(Vertex \ V) /\ Vertex \ V' \in SUBSET Vertex
    BY VertexFinite, FS_Difference
  <2>3. Cardinality(Vertex \ V) \in Nat /\ Cardinality(Vertex \ V') <= Cardinality(Vertex)
    BY <2>2, VertexFinite, FS_CardinalityType, FS_Subset
  <2> QED  BY <2>1, <2>2, <2>3, FS_AddElement
<1>8. \A v \in Vertex : hops[v] \in Nat /\ hops[v] <= Cardinality(Vertex \ V)
  <2>1. \A v \in Vertex : hops[v] \in 0 .. Cardinality(Vertex)
    BY <1>3 DEF TypeOK
  <2>2. \A i \in 0 .. Cardinality(Vertex) : i \in Nat
    BY VertexFinite
  <2> QED  BY <2>1, <2>2 DEF TreeInv, HopsInv
<1>9. HopsInv'
  <2> SUFFICES ASSUME NEW v \in Vertex PROVE hops'[v] <= Cardinality(Vertex \ V')
    BY DEF HopsInv
  <2>1. hops'[v] = IF v \in improved THEN hops[u] + 1 ELSE hops[v]
    BY <1>1
  <2> QED  BY <1>7, <1>8, <2>1
<1>10. TypeOK'
  <2>1. \A v \in improved : Over(v, u) \in Int
    BY <1>3, <1>5, OverType DEF TreeInv
  <2>2. distances' \in [Vertex -> Int]
    BY <1>1, <1>3, <2>1 DEF TypeOK
  <2>3. parents' \in [Vertex -> Vertex \cup {None}]
    BY <1>1, <1>3 DEF TypeOK
  <2>4. hops' \in [Vertex -> 0 .. Cardinality(Vertex)]
    <3>1. \A v \in Vertex : (IF v \in improved THEN hops[u] + 1 ELSE hops[v])
                             \in 0 .. Cardinality(Vertex)
      BY <1>7, <1>8, VertexFinite
    <3> QED  BY <1>1, <3>1
  <2>5. V' \in SUBSET Vertex /\ weight' \in [DOMAIN lines' -> Int]
    BY <1>1, <1>3, <1>6 DEF TypeOK, WeightsInv
  <2> QED  BY <1>1, <1>3, <2>2, <2>3, <2>4, <2>5 DEF TypeOK
<1>11. /\ distances'[u] = distances[u] /\ hops'[u] = hops[u] /\ parents'[u] = parents[u]
       /\ \A w \in Vertex : w \notin V => /\ distances'[w] = distances[w]
                                          /\ hops'[w] = hops[w] /\ parents'[w] = parents[w]
  BY <1>1, <1>5
<1>12. \A v, w \in Vertex :
         parents'[v] = w /\ distances'[w] = distances[w] => Over(v, parents[v])' = Over(v, w)
  BY <1>1, <1>2, SameWeights DEF Over
<1>13. PlaceInv'
  <2>1. parents'[sink] = None /\ hops'[sink] = 0
    BY <1>1, <1>3, <1>4 DEF PlaceInv
  <2>2. ASSUME NEW v \in Vertex, parents'[v] # None
        PROVE  /\ <<v, parents'[v]>> \in DOMAIN lines
               /\ parents'[v] \notin V'
               /\ parents'[v] = sink \/ parents'[parents'[v]] # None
               /\ hops'[v] = hops'[parents'[v]] + 1
               /\ distances'[v] = Over(v, parents[v])'
    <3>1. CASE v \in improved
      <4>1. parents'[v] = u /\ hops'[v] = hops[u] + 1 /\ distances'[v] = Over(v, u)
        BY <1>1, <3>1
      <4>3. distances'[v] = Over(v, parents[v])'
        BY <1>11, <1>12, <4>1
      <4> QED  BY <1>1, <1>2, <1>4, <1>5, <1>11, <3>1, <4>1, <4>3
    <3>2. CASE v \notin improved
      <4> DEFINE w == parents[v]
      <4>1. parents'[v] = w /\ hops'[v] = hops[v] /\ distances'[v] = distances[v]
        BY <1>1, <3>2
      <4>2. /\ <<v, w>> \in DOMAIN lines /\ w \notin V /\ (w = sink \/ parents[w] # None)
            /\ hops[v] = hops[w] + 1 /\ distances[v] = Over(v, w)
        BY <1>1, <1>3, <2>2, <4>1 DEF PlaceInv
      <4>3. w \in Vertex
        BY <1>3, <2>2, <4>1 DEF TypeOK
      <4>5. distances'[v] = Over(v, parents[v])'
        BY <1>11, <1>12, <4>1, <4>2, <4>3
      <4> HIDE DEF w
      <4> QED  BY <1>1, <1>11, <4>1, <4>2, <4>3, <4>5
    <3> QED  BY <3>1, <3>2
  <2>3. lines' = lines /\ sink' = sink
    BY <1>1, <1>2
  <2> QED  BY <2>1, <2>2, <2>3 DEF PlaceInv
<1>14. OrphanInv'
  <2>1. Far' = Far /\ sink' = sink
    BY <1>1, SameWeights
  <2>2. ASSUME NEW v \in Vertex \ {sink}, parents'[v] = None PROVE distances'[v] = Far
    <3>1. u # None
      BY VertexFinite
    <3>2. v \notin improved /\ parents[v] = None /\ distances'[v] = distances[v]
      BY <1>1, <2>2, <3>1
    <3> QED  BY <1>1, <3>2 DEF TreeInv, OrphanInv
  <2>3. sink \notin V'
    BY <1>1, <1>4
  <2> QED  BY <1>3, <2>1, <2>2, <2>3 DEF OrphanInv
<1>15. ParentsLeadToSink'
  BY <1>10, <1>13 DEF ParentsLeadToSink, PlaceInv
<1> QED  BY <1>6, <1>9, <1>14, <1>15 DEF TreeInv

LEMMA TreeStep == TreeInv /\ [Next]_vars => TreeInv'
<1> SUFFICES ASSUME TreeInv, [Next]_vars PROVE TreeInv'
  OBVIOUS
<1>1. CASE \E s \in Vertex : Pick(s)
  BY <1>1, PickTree
<1>2. CASE \E u \in Vertex : Attach(u)
  BY <1>2, AttachTree
<1> QED  BY <1>1, <1>2, NormalizeTree, CrashTree, CompareTree, FinishTree, StutterTree DEF Next

(* The parents lead to the sink over printed links, one hop at a time, for *)
(* costs and for reliabilities, with every variable of its type.           *)
THEOREM ParentsTheorem == Spec => []ParentsLeadToSink
<1>1. TreeInv => ParentsLeadToSink
  BY DEF TreeInv
<1> QED  BY TreeInit, TreeStep, <1>1, PTL DEF Spec

-----------------------------------------------------------------------------
(***************************************************************************)
(* With costs.                                                             *)
(***************************************************************************)
LEMMA CostWeights ==
  ASSUME TreeInv, phase \in {"pick", "attach", "done"}
  PROVE  /\ DOMAIN weight = DOMAIN lines /\ IsFiniteSet(DOMAIN weight)
         /\ \A l \in DOMAIN weight : /\ weight[l] \in Nat /\ l = <<l[1], l[2]>>
                                     /\ l[1] \in Vertex /\ l[2] \in Vertex
<1>1. /\ weight \in [DOMAIN lines -> Int] /\ lines \in Surveys
      /\ \A l \in DOMAIN lines : weight[l] >= 0
  BY DEF TreeInv, WeightsInv
<1>2. \A l \in DOMAIN lines : l = <<l[1], l[2]>> /\ l[1] \in Vertex /\ l[2] \in Vertex
  BY <1>1, SurveyFacts
<1> QED  BY <1>1, <1>2, SurveyFacts

LEMMA CostPick ==
  ASSUME NEW s \in Vertex PROVE TreeInv /\ Pick(s) => CostInv'
<1> SUFFICES ASSUME TreeInv, Pick(s), addition', phase' = "attach" PROVE CostInv'
  BY DEF CostInv
<1>1. /\ phase = "pick" /\ sink' = s /\ V' = Vertex
      /\ distances' = [v \in Vertex |-> IF v = s THEN One ELSE Far]
      /\ parents' = [v \in Vertex |-> None] /\ UNCHANGED inputVars
  BY DEF Pick
<1>2. addition' = addition /\ Far' = Far
  BY <1>1, SameWeights
<1>3. Far \in Nat /\ Far > 0 /\ One = 0
  BY <1>1, <1>2, FarFacts, OneFacts DEF TreeInv, WeightsInv
<1>4. \A l \in DOMAIN weight' : l[2] \in V'
  <2>1. weight' = weight
    BY <1>1 DEF inputVars
  <2> QED  BY <1>1, <2>1, CostWeights
<1>5. \A v \in Vertex : distances'[v] >= 0 /\ distances'[v] <= Far'
  BY <1>1, <1>2, <1>3
<1>6. distances'[sink'] = 0
  BY <1>1, <1>3
<1> QED  BY <1>1, <1>4, <1>5, <1>6 DEF CostInv

LEMMA CostAttach ==
  ASSUME NEW u \in Vertex PROVE TreeInv /\ CostInv /\ Attach(u) => CostInv'
<1> SUFFICES ASSUME TreeInv, CostInv, Attach(u), addition' PROVE CostInv'
  BY DEF CostInv
<1> DEFINE improved == Improved(u)
<1>1. /\ phase = "attach" /\ V' = V \ {u} /\ UNCHANGED inputVars /\ sink' = sink
      /\ distances' = [v \in Vertex |-> IF v \in improved THEN Over(v, u) ELSE distances[v]]
      /\ parents' = [v \in Vertex |-> IF v \in improved THEN u ELSE parents[v]]
  BY DEF Attach
<1>2. addition /\ Far' = Far /\ weight' = weight
  BY <1>1, SameWeights DEF inputVars
<1>3. TypeOK /\ sink \in Vertex
  BY <1>1, PlaceIsParents DEF TreeInv, OrphanInv
<1>4. u \in V /\ sink \notin improved
  BY SinkFirst
<1>5. Far \in Nat /\ \A v \in Vertex : distances[v] \in Int
  BY <1>1, <1>2, <1>3, FarFacts DEF TreeInv, TypeOK
<1>6. distances[u] < Far /\ \A w \in V : distances[u] <= distances[w]
  <2>1. u \in Candidates /\ \A w \in Candidates : ~(distances[w] < distances[u])
    BY <1>2 DEF Attach, Nearest, Nearer
  <2>2. \A w \in V : w \in Candidates \/ ~(distances[w] < Far)
    BY <1>2 DEF Candidates
  <2>3. distances[u] < Far
    BY <1>2, <2>1 DEF Candidates
  <2>4. \A w \in V : w \in Vertex
    BY <1>3 DEF TypeOK
  <2> QED  BY <1>5, <2>1, <2>2, <2>3, <2>4
<1>7. \A l \in DOMAIN weight : /\ weight[l] \in Nat /\ l = <<l[1], l[2]>>
                               /\ l[1] \in Vertex /\ l[2] \in Vertex
  BY <1>1, CostWeights
<1>8. \A v \in improved :
        /\ v \in V /\ v # u /\ v \in Vertex
        /\ Over(v, u) \in Int /\ Over(v, u) >= distances[u] /\ Over(v, u) < distances[v]
  <2> TAKE v \in improved
  <2>1. v \in V \ {u} /\ <<v, u>> \in DOMAIN weight /\ Over(v, u) < distances[v]
    BY <1>2 DEF Improved, Nearer
  <2>2. Over(v, u) = weight[<<v, u>>] + distances[u] /\ weight[<<v, u>>] \in Nat
    BY <1>2, <1>7, <2>1 DEF Over
  <2>3. v \in Vertex
    BY <1>3, <2>1 DEF TypeOK
  <2> QED  BY <1>5, <2>1, <2>2, <2>3
<1>9. \A v \in V \ {u} : v \notin improved /\ <<v, u>> \in DOMAIN weight =>
        distances[v] <= weight[<<v, u>>] + distances[u]
  <2> SUFFICES ASSUME NEW v \in V \ {u}, v \notin improved, <<v, u>> \in DOMAIN weight
               PROVE  distances[v] <= weight[<<v, u>>] + distances[u]
    OBVIOUS
  <2>1. ~(Over(v, u) < distances[v]) /\ v \in Vertex
    BY <1>2, <1>3 DEF Improved, Nearer, TypeOK
  <2>2. Over(v, u) = weight[<<v, u>>] + distances[u]
    BY <1>2 DEF Over
  <2> QED  BY <1>5, <1>7, <2>1, <2>2
<1>10. /\ distances[sink] = 0
       /\ \A v \in Vertex : distances[v] >= 0 /\ distances[v] <= Far
       /\ \A v \in Vertex \ {sink} : parents[v] # None => distances[v] < Far
       /\ \A v \in Vertex \ V, w \in V : distances[v] <= distances[w]
       /\ \A l \in DOMAIN weight : l[2] \notin V =>
            distances[l[1]] <= weight[l] + distances[l[2]]
  BY <1>1, <1>2 DEF CostInv
<1> DEFINE d == distances'
<1>11. \A v \in Vertex : /\ d[v] \in Int /\ d[v] <= distances[v]
                         /\ (v \in improved => d[v] = Over(v, u))
                         /\ (v \notin improved => d[v] = distances[v])
  BY <1>1, <1>5, <1>8
<1>12. d[u] = distances[u] /\ \A w \in Vertex \ V : d[w] = distances[w]
  BY <1>8, <1>11
<1>13. d[sink] = 0
  BY <1>3, <1>4, <1>10, <1>11
<1> HIDE DEF d, improved
<1>14. \A v \in Vertex : d[v] >= 0 /\ d[v] <= Far
  BY <1>5, <1>8, <1>10, <1>11
<1>15. \A v \in Vertex \ {sink} : parents'[v] # None => d[v] < Far
  <2> SUFFICES ASSUME NEW v \in Vertex \ {sink}, parents'[v] # None PROVE d[v] < Far
    OBVIOUS
  <2>1. CASE v \in improved
    BY <1>5, <1>8, <1>10, <1>11, <2>1
  <2>2. CASE v \notin improved
    BY <1>1, <1>10, <1>11, <2>2
  <2> QED  BY <2>1, <2>2
<1>16. \A v \in Vertex \ V', w \in V' : d[v] <= d[w]
  <2> SUFFICES ASSUME NEW v \in Vertex \ V', NEW w \in V' PROVE d[v] <= d[w]
    OBVIOUS
  <2>1. w \in V /\ w \in Vertex /\ w # u /\ (v = u \/ v \in Vertex \ V)
    BY <1>1, <1>3 DEF TypeOK
  <2>2. d[v] = distances[v] /\ distances[v] \in Int /\ distances[v] <= distances[u]
    BY <1>4, <1>5, <1>10, <1>12, <2>1
  <2>3. distances[u] <= d[w]
    BY <1>5, <1>6, <1>8, <1>11, <2>1
  <2> QED  BY <1>5, <1>11, <2>1, <2>2, <2>3
<1>17. \A l \in DOMAIN weight : l[2] \notin V' => d[l[1]] <= weight[l] + d[l[2]]
  <2> SUFFICES ASSUME NEW l \in DOMAIN weight, l[2] \notin V'
               PROVE  d[l[1]] <= weight[l] + d[l[2]]
    OBVIOUS
  <2> DEFINE v == l[1]
             w == l[2]
  <2>1. weight[l] \in Nat /\ l = <<v, w>> /\ v \in Vertex /\ w \in Vertex
    BY <1>7
  <2>2. w = u \/ w \notin V
    BY <1>1
  <2> HIDE DEF v, w
  <2>3. CASE w \notin V
    <3>1. distances[v] <= weight[l] + distances[w]
      BY <1>10, <2>3 DEF v, w
    <3> QED  BY <1>5, <1>11, <1>12, <2>1, <2>3, <3>1 DEF v, w
  <2>4. CASE w = u
    <3>1. CASE v \in improved
      <4>1. d[v] = weight[l] + distances[u]
        BY <1>2, <1>11, <2>1, <2>4, <3>1 DEF Over
      <4> QED  BY <1>5, <1>12, <2>1, <2>4, <4>1 DEF v, w
    <3>2. CASE v \notin V \/ v = u
      <4>1. d[v] <= d[u]
        BY <1>4, <1>5, <1>10, <1>11, <1>12, <2>1, <3>2
      <4> QED  BY <1>11, <2>1, <2>4, <4>1 DEF v, w
    <3>3. CASE v \in V \ {u} /\ v \notin improved
      <4>1. distances[v] <= weight[l] + distances[u]
        BY <1>9, <2>1, <2>4, <3>3
      <4> QED  BY <1>11, <1>12, <2>1, <2>4, <3>3, <4>1 DEF v, w
    <3> QED  BY <3>1, <3>2, <3>3
  <2> QED  BY <2>2, <2>3, <2>4
<1> QED  BY <1>1, <1>2, <1>13, <1>14, <1>15, <1>16, <1>17 DEF CostInv, d

LEMMA CostStep == TreeInv /\ CostInv /\ [Next]_vars => CostInv'
<1> SUFFICES ASSUME TreeInv, CostInv, [Next]_vars PROVE CostInv'
  OBVIOUS
<1>1. CASE \E s \in Vertex : Pick(s)
  BY <1>1, CostPick
<1>2. CASE \E u \in Vertex : Attach(u)
  BY <1>2, CostAttach
<1>3. CASE Normalize \/ DivisionByZero \/ Compare \/ Finish
  <2>1. phase' # "attach"
    BY <1>3 DEF Normalize, DivisionByZero, Compare, Finish
  <2> QED  BY <2>1 DEF CostInv
<1>4. CASE UNCHANGED vars
  <2>1. /\ UNCHANGED <<phase, sink, V, distances, parents, weight>> /\ UNCHANGED inputVars
    BY <1>4 DEF vars, treeVars, inputVars
  <2> QED  BY <2>1, SameWeights DEF CostInv
<1> QED  BY <1>1, <1>2, <1>3, <1>4 DEF Next

-----------------------------------------------------------------------------
(***************************************************************************)
(* The cheapest paths.  PathCost is the last value of a recursive function *)
(* over the number of links; that it meets its equation is proved by       *)
(* induction over them.                                                    *)
(***************************************************************************)
Start(s) == [v \in Vertex |-> IF v = s THEN 0 ELSE Far]

Ways(c, v) == {c[v]} \cup {weight[l] + c[l[2]] : l \in {m \in DOMAIN weight : m[1] = v}}

OneMore(c) == [v \in Vertex |-> Min(Ways(c, v))]

LEMMA CostIs ==
  ASSUME NEW s
  PROVE  \E c : /\ c[0] = Start(s)
                /\ \A i \in Nat : i + 1 <= Cardinality(Vertex) => c[i + 1] = OneMore(c[i])
                /\ PathCost(s) = c[Cardinality(Vertex)]
<1> DEFINE N == Cardinality(Vertex)
           P(n, f) == f = [i \in 0 .. n |-> IF i = 0 THEN Start(s) ELSE OneMore(f[i - 1])]
           G == {n \in Nat : \E f : P(n, f)}
<1>1. 0 \in G
  <2> DEFINE f0 == [i \in 0 .. 0 |-> Start(s)]
  <2>1. P(0, f0)
    OBVIOUS
  <2> QED  BY <2>1
<1>2. ASSUME NEW n \in Nat, n \in G PROVE n + 1 \in G
  <2>1. PICK f : P(n, f)
    BY <1>2
  <2> DEFINE g == [i \in 0 .. n + 1 |-> IF i = 0 THEN Start(s) ELSE OneMore(f[i - 1])]
  <2>2. \A i \in 0 .. n : g[i] = f[i]
    <3> TAKE i \in 0 .. n
    <3>1. g[i] = IF i = 0 THEN Start(s) ELSE OneMore(f[i - 1])
      OBVIOUS
    <3>2. f[i] = IF i = 0 THEN Start(s) ELSE OneMore(f[i - 1])
      BY <2>1
    <3> QED  BY <3>1, <3>2
  <2>3. P(n + 1, g)
    <3>1. \A i \in 0 .. n + 1 : i # 0 => i - 1 \in 0 .. n
      OBVIOUS
    <3>2. \A i \in 0 .. n + 1 : i # 0 => g[i - 1] = f[i - 1]
      BY <2>2, <3>1
    <3> QED  BY <3>2
  <2> HIDE DEF g, P
  <2> QED  BY <2>3
<1>3. N \in G
  BY <1>1, <1>2, VertexFinite, NatSetInduction
<1> DEFINE c == CHOOSE f : P(N, f)
<1>4. PathCost(s) = c[N]
  BY DEF PathCost, Start, OneMore, Ways
<1>5. P(N, c)
  BY <1>3
<1> HIDE DEF c
<1>6. c[0] = Start(s) /\ \A i \in Nat : i + 1 <= N => c[i + 1] = OneMore(c[i])
  <2>1. 0 \in 0 .. N /\ \A i \in Nat : i + 1 <= N => i + 1 \in 0 .. N
    BY VertexFinite
  <2>2. \A i \in Nat : (i + 1) - 1 = i /\ i + 1 # 0
    OBVIOUS
  <2> QED  BY <1>5, <2>1, <2>2
<1> QED  BY <1>4, <1>6

LEMMA OneMoreFacts ==
  ASSUME TreeInv, phase \in {"pick", "attach", "done"}, NEW c \in [Vertex -> Int]
  PROVE  /\ OneMore(c) \in [Vertex -> Int]
         /\ \A v \in Vertex : OneMore(c)[v] <= c[v]
         /\ \A l \in DOMAIN weight : OneMore(c)[l[1]] <= weight[l] + c[l[2]]
         /\ \A v \in Vertex :
              \/ OneMore(c)[v] = c[v]
              \/ \E l \in DOMAIN weight : l[1] = v /\ OneMore(c)[v] = weight[l] + c[l[2]]
<1>1. /\ IsFiniteSet(DOMAIN weight)
      /\ \A l \in DOMAIN weight : weight[l] \in Nat /\ l[1] \in Vertex /\ l[2] \in Vertex
  BY CostWeights
<1>2. ASSUME NEW v \in Vertex
      PROVE  Min(Ways(c, v)) \in Ways(c, v) /\ \A j \in Ways(c, v) : Min(Ways(c, v)) <= j
             /\ Ways(c, v) \in SUBSET Int
  <2> DEFINE D == {m \in DOMAIN weight : m[1] = v}
             f == [l \in D |-> weight[l] + c[l[2]]]
  <2>1. IsFiniteSet(D)
    BY <1>1, FS_Subset
  <2>2. \A l \in D : f[l] = weight[l] + c[l[2]] /\ f[l] \in Int
    BY <1>1
  <2> HIDE DEF f, D
  <2>3. IsFiniteSet({f[l] : l \in D})
    BY <2>1, FiniteImage
  <2>4. Ways(c, v) = {f[l] : l \in D} \cup {c[v]}
    BY <2>2 DEF Ways, D
  <2>5. IsFiniteSet(Ways(c, v)) /\ Ways(c, v) \in SUBSET Int /\ Ways(c, v) # {}
    BY <2>2, <2>3, <2>4, FS_AddElement
  <2> QED  BY <2>5, Extremes DEF Min
<1>3. \A v \in Vertex : OneMore(c)[v] = Min(Ways(c, v))
  BY DEF OneMore
<1>4. \A v \in Vertex : OneMore(c)[v] \in Int
  BY <1>2, <1>3
<1>5. OneMore(c) \in [Vertex -> Int]
  BY <1>4 DEF OneMore
<1>6. \A v \in Vertex : c[v] \in Ways(c, v)
  BY DEF Ways
<1>7. \A l \in DOMAIN weight : weight[l] + c[l[2]] \in Ways(c, l[1])
  BY DEF Ways
<1>8. \A v \in Vertex : \A j \in Ways(c, v) :
        \/ j = c[v]
        \/ \E l \in DOMAIN weight : l[1] = v /\ j = weight[l] + c[l[2]]
  BY DEF Ways
<1>9. \A v \in Vertex : OneMore(c)[v] <= c[v]
  BY <1>2, <1>3, <1>6
<1>10. \A l \in DOMAIN weight : OneMore(c)[l[1]] <= weight[l] + c[l[2]]
  BY <1>1, <1>2, <1>3, <1>7
<1>11. \A v \in Vertex :
         \/ OneMore(c)[v] = c[v]
         \/ \E l \in DOMAIN weight : l[1] = v /\ OneMore(c)[v] = weight[l] + c[l[2]]
  BY <1>2, <1>3, <1>8
<1> QED  BY <1>5, <1>9, <1>10, <1>11

(* When nothing more can be attached, no path is cheaper than a distance,  *)
(* and the parents are a path of that cost.                                *)
LEMMA DistancesAreCosts ==
  ASSUME TreeInv, CostInv, addition, phase = "attach", Attached
  PROVE  \A v \in Vertex : PathCost(sink)[v] = distances[v]
<1> DEFINE N == Cardinality(Vertex)
<1>1. PICK c : /\ c[0] = Start(sink)
               /\ \A i \in Nat : i + 1 <= N => c[i + 1] = OneMore(c[i])
               /\ PathCost(sink) = c[N]
  BY CostIs
<1>2. TypeOK /\ PlaceInv /\ sink \in Vertex
  BY PlaceIsParents DEF TreeInv, OrphanInv
<1>3. Far \in Nat /\ N \in Nat
  BY FarFacts, VertexFinite DEF TreeInv
<1>4. \A v \in Vertex : distances[v] \in Int /\ hops[v] \in Nat /\ hops[v] <= N
  <2>1. \A v \in Vertex : distances[v] \in Int /\ hops[v] \in 0 .. N
    BY <1>2 DEF TypeOK
  <2> QED  BY <1>3, <2>1
<1>5. /\ distances[sink] = 0
      /\ \A v \in Vertex : distances[v] >= 0 /\ distances[v] <= Far
      /\ \A l \in DOMAIN weight : l[2] \notin V =>
           distances[l[1]] <= weight[l] + distances[l[2]]
  BY DEF CostInv
<1>6. \A l \in DOMAIN weight :
        /\ weight[l] \in Nat /\ l[1] \in Vertex /\ l[2] \in Vertex /\ l = <<l[1], l[2]>>
  BY CostWeights
<1>7. \A l \in DOMAIN weight : distances[l[1]] <= weight[l] + distances[l[2]]
  <2> TAKE l \in DOMAIN weight
  <2>1. CASE l[2] \in V
    <3>1. l[2] \notin Candidates
      BY <2>1 DEF Attached
    <3>2. ~(distances[l[2]] < Far)
      BY <2>1, <3>1 DEF Candidates
    <3> QED  BY <1>3, <1>4, <1>5, <1>6, <3>2
  <2>2. CASE l[2] \notin V
    BY <1>5, <2>2
  <2> QED  BY <2>1, <2>2
<1> DEFINE Lower == {i \in Nat : i <= N => /\ c[i] \in [Vertex -> Int]
                                           /\ \A v \in Vertex : /\ distances[v] <= c[i][v]
                                                                /\ c[i][v] <= Far}
<1>8. 0 \in Lower
  <2>1. Start(sink) \in [Vertex -> Int]
    BY <1>3 DEF Start
  <2>2. \A v \in Vertex : distances[v] <= Start(sink)[v] /\ Start(sink)[v] <= Far
    BY <1>3, <1>5 DEF Start
  <2> QED  BY <1>1, <2>1, <2>2
<1>9. ASSUME NEW i \in Nat, i \in Lower PROVE i + 1 \in Lower
  <2> SUFFICES ASSUME i + 1 <= N
               PROVE  /\ c[i + 1] \in [Vertex -> Int]
                      /\ \A v \in Vertex : distances[v] <= c[i + 1][v] /\ c[i + 1][v] <= Far
    OBVIOUS
  <2>1. /\ c[i] \in [Vertex -> Int] /\ c[i + 1] = OneMore(c[i])
        /\ \A v \in Vertex : distances[v] <= c[i][v] /\ c[i][v] <= Far
    BY <1>1, <1>3, <1>9
  <2> DEFINE b == c[i]
             e == c[i + 1]
  <2>2. /\ e \in [Vertex -> Int] /\ b \in [Vertex -> Int]
        /\ \A v \in Vertex : e[v] <= b[v]
        /\ \A v \in Vertex : \/ e[v] = b[v]
                              \/ \E l \in DOMAIN weight : l[1] = v /\ e[v] = weight[l] + b[l[2]]
    BY <2>1, OneMoreFacts
  <2>3. \A v \in Vertex : distances[v] <= b[v] /\ b[v] <= Far
    BY <2>1
  <2> HIDE DEF b, e
  <2>4. ASSUME NEW v \in Vertex PROVE distances[v] <= e[v] /\ e[v] <= Far
    <3>1. e[v] <= Far
      BY <1>3, <2>2, <2>3
    <3>2. CASE e[v] = b[v]
      BY <2>3, <3>1, <3>2
    <3>3. CASE \E l \in DOMAIN weight : l[1] = v /\ e[v] = weight[l] + b[l[2]]
      <4>1. PICK l \in DOMAIN weight : l[1] = v /\ e[v] = weight[l] + b[l[2]]
        BY <3>3
      <4>2. distances[v] <= weight[l] + distances[l[2]] /\ distances[l[2]] <= b[l[2]]
        BY <1>6, <1>7, <2>3, <4>1
      <4>3. weight[l] \in Nat /\ distances[l[2]] \in Int /\ b[l[2]] \in Int /\ distances[v] \in Int
        BY <1>4, <1>6, <2>2
      <4> QED  BY <3>1, <4>1, <4>2, <4>3
    <3> QED  BY <2>2, <3>2, <3>3
  <2> QED  BY <2>2, <2>4 DEF e
<1> HIDE DEF Lower
<1>10. Nat \subseteq Lower
  BY <1>8, <1>9, NatSetInduction
<1>11. \A i \in Nat : i <= N => /\ c[i] \in [Vertex -> Int]
                               /\ \A v \in Vertex : distances[v] <= c[i][v] /\ c[i][v] <= Far
  BY <1>10 DEF Lower
<1>12. \A i \in Nat : i + 1 <= N =>
         /\ \A v \in Vertex : c[i + 1][v] <= c[i][v]
         /\ \A l \in DOMAIN weight : c[i + 1][l[1]] <= weight[l] + c[i][l[2]]
  <2> SUFFICES ASSUME NEW i \in Nat, i + 1 <= N
               PROVE  /\ \A v \in Vertex : c[i + 1][v] <= c[i][v]
                      /\ \A l \in DOMAIN weight : c[i + 1][l[1]] <= weight[l] + c[i][l[2]]
    OBVIOUS
  <2>1. c[i] \in [Vertex -> Int] /\ c[i + 1] = OneMore(c[i])
    BY <1>1, <1>3, <1>11
  <2> QED  BY <2>1, OneMoreFacts
<1> DEFINE Upper == {i \in Nat : i <= N => \A v \in Vertex :
                       hops[v] <= i /\ distances[v] < Far => c[i][v] <= distances[v]}
<1>13. ASSUME NEW v \in Vertex, distances[v] < Far, v # sink
       PROVE  /\ parents[v] \in Vertex /\ <<v, parents[v]>> \in DOMAIN weight
              /\ hops[v] = hops[parents[v]] + 1
              /\ distances[v] = weight[<<v, parents[v]>>] + distances[parents[v]]
  <2>1. parents[v] # None
    BY <1>3, <1>4, <1>13 DEF TreeInv, OrphanInv
  <2>2. <<v, parents[v]>> \in DOMAIN weight /\ hops[v] = hops[parents[v]] + 1
        /\ distances[v] = Over(v, parents[v])
    BY <2>1, <1>2, CostWeights DEF PlaceInv
  <2>3. parents[v] \in Vertex
    BY <1>2, <2>1 DEF TypeOK
  <2> QED  BY <2>2, <2>3 DEF Over
<1>14. 0 \in Upper
  <2> SUFFICES ASSUME NEW v \in Vertex, hops[v] <= 0, distances[v] < Far
               PROVE  c[0][v] <= distances[v]
    OBVIOUS
  <2>1. v = sink
    <3> SUFFICES ASSUME v # sink PROVE FALSE
      OBVIOUS
    <3>1. parents[v] \in Vertex /\ hops[v] = hops[parents[v]] + 1
      BY <1>13
    <3>2. hops[parents[v]] \in Nat /\ hops[v] \in Nat
      BY <1>4, <3>1
    <3> QED  BY <3>1, <3>2
  <2>2. c[0][sink] = 0
    BY <1>1, <1>2 DEF Start
  <2> QED  BY <1>5, <2>1, <2>2
<1>15. ASSUME NEW i \in Nat, i \in Upper PROVE i + 1 \in Upper
  <2> SUFFICES ASSUME i + 1 <= N, NEW v \in Vertex, hops[v] <= i + 1, distances[v] < Far
               PROVE  c[i + 1][v] <= distances[v]
    OBVIOUS
  <2>1. \A w \in Vertex : hops[w] <= i /\ distances[w] < Far => c[i][w] <= distances[w]
    BY <1>3, <1>15
  <2>2. c[i] \in [Vertex -> Int] /\ c[i + 1] \in [Vertex -> Int]
    BY <1>3, <1>11
  <2>3. \A w \in Vertex : c[i + 1][w] <= c[i][w]
    BY <1>12
  <2> DEFINE b == c[i]
             e == c[i + 1]
  <2>4. b[sink] \in Int /\ e[v] \in Int /\ b[v] \in Int
    BY <1>2, <2>2
  <2>5. CASE v = sink
    <3>1. hops[v] = 0
      BY <2>5, <1>2 DEF PlaceInv
    <3>2. b[v] <= distances[v] /\ e[v] <= b[v]
      BY <2>1, <2>3, <3>1
    <3> HIDE DEF b, e
    <3>3. e[v] <= distances[v]
      BY <1>4, <2>4, <3>2
    <3> QED  BY <3>3 DEF e
  <2>6. CASE v # sink
    <3> DEFINE w == parents[v]
               l == <<v, w>>
    <3>1. /\ w \in Vertex /\ l \in DOMAIN weight /\ hops[v] = hops[w] + 1
          /\ distances[v] = weight[l] + distances[w]
      BY <1>13, <2>6
    <3>2. l[1] = v /\ l[2] = w /\ weight[l] \in Nat
      BY <1>6, <3>1
    <3>3. e[v] <= weight[l] + b[w]
      <4>1. \A m \in DOMAIN weight : e[m[1]] <= weight[m] + b[m[2]]
        BY <1>12
      <4> QED  BY <3>1, <3>2, <4>1
    <3> HIDE DEF w, l
    <3>4. hops[w] <= i /\ distances[w] < Far
      BY <1>3, <1>4, <3>1, <3>2
    <3>5. b[w] <= distances[w] /\ b[w] \in Int
      BY <2>1, <2>2, <3>1, <3>4
    <3> HIDE DEF b, e
    <3>6. e[v] <= distances[v]
      BY <1>4, <2>4, <3>1, <3>2, <3>3, <3>5
    <3> QED  BY <3>6 DEF e
  <2> QED  BY <2>5, <2>6
<1> HIDE DEF Upper
<1>16. N \in Upper
  BY <1>3, <1>14, <1>15, NatSetInduction
<1>17. ASSUME NEW v \in Vertex PROVE c[N][v] = distances[v]
  <2>1. c[N] \in [Vertex -> Int] /\ distances[v] <= c[N][v] /\ c[N][v] <= Far
    BY <1>3, <1>11
  <2>2. distances[v] < Far => c[N][v] <= distances[v]
    BY <1>3, <1>4, <1>16 DEF Upper
  <2> DEFINE e == c[N][v]
  <2>3. e \in Int /\ distances[v] <= e /\ e <= Far /\ (distances[v] < Far => e <= distances[v])
    BY <2>1, <2>2
  <2> HIDE DEF e
  <2>4. e = distances[v]
    BY <1>3, <1>4, <1>5, <2>3
  <2> QED  BY <2>4 DEF e
<1> QED  BY <1>1, <1>17

LEMMA CheapestHolds == TreeInv /\ CostInv => CheapestPaths
<1> SUFFICES ASSUME TreeInv, CostInv, addition, phase = "attach", Attached, NEW v \in Vertex
             PROVE  /\ distances[v] = Min({Far, PathCost(sink)[v]})
                    /\ v # sink => (v \in Orphans <=> distances[v] = Far)
  BY DEF CheapestPaths
<1>1. PathCost(sink)[v] = distances[v]
  BY DistancesAreCosts
<1>2. Far \in Int /\ distances[v] \in Int /\ distances[v] <= Far
  BY FarFacts, PlaceIsParents DEF TreeInv, CostInv, TypeOK
<1>3. Min({Far, distances[v]}) = distances[v]
  <2> DEFINE S == {Far, distances[v]}
  <2>1. distances[v] \in S /\ \A j \in S : distances[v] <= j /\ j \in Int
    BY <1>2
  <2>2. \A i \in S : (\A j \in S : i <= j) => i = distances[v]
    BY <1>2, <2>1
  <2> HIDE DEF S
  <2>3. Min(S) \in S /\ \A j \in S : Min(S) <= j
    BY <2>1 DEF Min
  <2>4. Min(S) = distances[v]
    BY <2>2, <2>3
  <2> QED  BY <2>4 DEF S
<1>4. v # sink => (v \in Orphans <=> distances[v] = Far)
  BY <1>2 DEF Orphans, TreeInv, OrphanInv, CostInv
<1> QED  BY <1>1, <1>3, <1>4

-----------------------------------------------------------------------------
(***************************************************************************)
(* What is reached from the sink, with costs and with reliabilities.       *)
(***************************************************************************)
LEMMA CostFacts ==
  ASSUME TreeInv, phase \in {"pick", "attach", "done"},
         NEW A \in SUBSET Vertex, NEW B \in SUBSET Vertex, A \subseteq B
  PROVE  /\ Cost(A) \in Nat /\ Cost(B) \in Nat /\ Cost(A) <= Cost(B)
         /\ addition => Cost(A) < Far
         /\ \A l \in DOMAIN weight : l[1] \in B \ A => weight[l] + Cost(A) <= Cost(B)
<1> DEFINE D == DOMAIN weight
           Sum(T) == SumFunctionOnSet(weight, T)
<1>1. /\ IsFiniteSet(D) /\ weight \in [D -> Int] /\ \A l \in D : weight[l] >= 0
  BY CostWeights DEF TreeInv, WeightsInv
<1>2. \A T \in SUBSET D : IsFiniteSet(T) /\ Sum(T) \in Nat
  <2> TAKE T \in SUBSET D
  <2>1. IsFiniteSet(T)
    BY <1>1, FS_Subset
  <2> QED  BY <1>1, <2>1, SumNonnegative
<1> HIDE DEF D, Sum
<1>3. ASSUME NEW R \in SUBSET D, NEW T \in SUBSET R PROVE Sum(T) <= Sum(R)
  <2>1. T \in SUBSET D /\ R \ T \in SUBSET D /\ T \cap (R \ T) = {} /\ T \cup (R \ T) = R
    OBVIOUS
  <2>2. Sum(R) = Sum(T) + Sum(R \ T)
    BY <1>1, <1>2, <2>1, SumSplit DEF Sum
  <2> QED  BY <1>2, <2>1, <2>2
<1>4. Leaving(A) \in SUBSET D /\ Leaving(B) \in SUBSET D /\ Leaving(A) \in SUBSET Leaving(B)
  BY DEF Leaving, D
<1>5. Cost(A) = Sum(Leaving(A)) /\ Cost(B) = Sum(Leaving(B))
  BY DEF Cost, Sum
<1>6. addition => Far = 1 + Sum(D)
  BY DEF Far, Sum, D
<1>7. Sum(Leaving(A)) <= Sum(D)
  BY <1>3, <1>4
<1>8. ASSUME NEW l \in D, l[1] \in B \ A PROVE weight[l] + Sum(Leaving(A)) <= Sum(Leaving(B))
  <2>1. l \in D \ Leaving(A) /\ Leaving(A) \cup {l} \in SUBSET Leaving(B)
    BY <1>4, <1>8 DEF Leaving, D
  <2>2. Sum(Leaving(A) \cup {l}) = weight[l] + Sum(Leaving(A))
    BY <1>1, <1>2, <1>4, <2>1, SumAdd DEF Sum
  <2> QED  BY <1>3, <1>4, <2>1, <2>2
<1>9. Sum(Leaving(A)) \in Nat /\ Sum(Leaving(B)) \in Nat /\ Sum(D) \in Nat
  BY <1>2, <1>4
<1>10. \A l \in D : l[1] \in B \ A => weight[l] + Cost(A) <= Cost(B)
  BY <1>5, <1>8
<1>11. Sum(Leaving(A)) <= Sum(Leaving(B))
  BY <1>3, <1>4
<1> QED  BY <1>5, <1>6, <1>7, <1>9, <1>10, <1>11 DEF D

(* Rounding down loses nothing that is worth a whole unit.                 *)
LEMMA DivAbove ==
  ASSUME NEW a \in Nat \ {0}, NEW p \in Nat, NEW x \in Nat, a * p <= x
  PROVE  x \div a \in Nat /\ p <= x \div a
<1> DEFINE q == x \div a
<1>1. q \in Nat /\ a * q <= x /\ x < a * q + a
  OBVIOUS
<1> HIDE DEF q
<1>2. SUFFICES ASSUME q + 1 <= p PROVE FALSE
  BY <1>1 DEF q
<1>3. a * (q + 1) <= a * p
  BY <1>1, <1>2, TimesMonotone
<1>4. a * (q + 1) = a * q + a
  BY <1>1
<1>5. a * q \in Nat /\ a * p \in Nat
  BY <1>1
<1> QED  BY <1>1, <1>3, <1>4, <1>5

LEMMA JoinedStep ==
  ASSUME NEW s, NEW u \in Joined(s), NEW v \in Vertex,
         <<v, u>> \in DOMAIN weight, weight[<<v, u>>] > 0
  PROVE  v \in Joined(s)
<1> SUFFICES ASSUME NEW S \in SUBSET Vertex, s \in S,
                    \A l \in DOMAIN weight : l[2] \in S /\ weight[l] > 0 => l[1] \in S
             PROVE  v \in S
  BY DEF Joined
<1>1. u \in S
  BY DEF Joined
<1> QED  BY <1>1

LEMMA JoinedKept ==
  ASSUME UNCHANGED inputVars
  PROVE  /\ \A s : Joined(s)' = Joined(s) /\ Spans(s)' = Spans(s)
         /\ \A A : Cost(A)' = Cost(A)
         /\ Power' = Power /\ weight' = weight
<1>1. weight' = weight /\ Unit' = Unit
  BY DEF inputVars
<1>2. \A s : Joined(s)' = Joined(s)
  BY <1>1 DEF Joined
<1>3. \A A : Leaving(A)' = Leaving(A)
  BY <1>1 DEF Leaving
<1>4. \A A : Cost(A)' = Cost(A)
  BY <1>1, <1>3 DEF Cost
<1>5. Power' = Power
  BY <1>1 DEF Power
<1> QED  BY <1>1, <1>2, <1>4, <1>5 DEF Spans

ReachInv == BoundInv /\ JoinedInv

LEMMA ReachPick == ASSUME NEW s \in Vertex PROVE TreeInv /\ Pick(s) => ReachInv'
<1> SUFFICES ASSUME TreeInv, Pick(s) PROVE ReachInv'
  OBVIOUS
<1>1. /\ phase = "pick" /\ sink' = s /\ V' = Vertex
      /\ distances' = [v \in Vertex |-> IF v = s THEN One ELSE Far]
      /\ hops' = [v \in Vertex |-> 0] /\ UNCHANGED inputVars
  BY DEF Pick
<1>2. addition' = addition /\ Far' = Far
  BY <1>1, SameWeights
<1>3. /\ addition => Far \in Nat /\ Far > 0
      /\ ~addition => Far = -1
      /\ Unit \in Nat \ {0}
  BY <1>1, FarFacts DEF TreeInv, WeightsInv
<1>4. One = (IF addition THEN 0 ELSE Power[Cardinality(Vertex)])
      /\ Power[Cardinality(Vertex)] \in Nat \ {0} /\ Cardinality(Vertex) \in Nat
  BY <1>3, PowerFacts, VertexFinite
<1>5. \A v \in Vertex : Reached(v)' <=> v = s
  <2> TAKE v \in Vertex
  <2>1. CASE addition
    BY <1>1, <1>2, <1>3, <1>4, <2>1 DEF Reached
  <2>2. CASE ~addition
    BY <1>1, <1>2, <1>3, <1>4, <2>2 DEF Reached
  <2> QED  BY <2>1, <2>2
<1>6. BoundInv'
  <2>1. ASSUME addition PROVE distances'[s] <= Cost((Vertex \ V) \cup {s})'
    <3>1. Cost({s}) \in Nat /\ (Vertex \ V') \cup {s} = {s}
      BY <1>1, CostFacts
    <3>2. Cost((Vertex \ V) \cup {s})' = Cost({s})
      <4>1. Leaving((Vertex \ V) \cup {s})' = Leaving({s})
        BY <1>1, <3>1, JoinedKept DEF Leaving
      <4> QED  BY <1>1, <4>1, JoinedKept DEF Cost
    <3> QED  BY <1>1, <1>4, <2>1, <3>1, <3>2
  <2>2. ASSUME ~addition PROVE distances'[s] >= Power'[Cardinality(Vertex) - hops'[s]]
    <3>1. Power' = Power /\ Cardinality(Vertex) - 0 = Cardinality(Vertex)
      BY <1>1, <1>4, JoinedKept
    <3> QED  BY <1>1, <1>4, <2>2, <3>1
  <2> QED  BY <1>2, <1>5, <2>1, <2>2 DEF BoundInv
<1>7. JoinedInv'
  <2>1. s \in Joined(s)'
    BY DEF Joined
  <2>2. \A l \in DOMAIN weight' : l[2] \in V'
    BY <1>1, CostWeights, JoinedKept
  <2> QED  BY <1>1, <1>5, <2>1, <2>2 DEF JoinedInv
<1> QED  BY <1>6, <1>7 DEF ReachInv

(* A vertex linked to the one that leaves V can be reached over it, if the *)
(* link is worth something.                                                *)
LEMMA OverReached ==
  ASSUME TreeInv, ReachInv, NEW u \in Vertex, Attach(u),
         NEW v \in V \ {u}, <<v, u>> \in DOMAIN weight
  PROVE  /\ Over(v, u) \in Int
         /\ addition => /\ weight[<<v, u>>] > 0
                        /\ Over(v, u) <= Cost((Vertex \ (V \ {u})) \cup {v})
                        /\ Over(v, u) < Far
         /\ ~addition => /\ Over(v, u) >= 0
                         /\ weight[<<v, u>>] = 0 => Over(v, u) = 0
                         /\ weight[<<v, u>>] > 0 =>
                              /\ Over(v, u) >= Power[Cardinality(Vertex) - (hops[u] + 1)]
                              /\ Over(v, u) > 0
<1> DEFINE l == <<v, u>>
           w == weight[l]
           N == Cardinality(Vertex)
           n == N - (hops[u] + 1)
<1>1. phase = "attach" /\ u \in V /\ Reached(u)
  BY SinkFirst DEF Attach, Nearest, Candidates, Reached
<1>2. TypeOK /\ V \in SUBSET Vertex /\ v \in Vertex
  BY PlaceIsParents DEF TreeInv, TypeOK
<1>3. w \in Nat /\ Unit \in Nat \ {0} /\ distances[u] \in Int /\ (addition => w > 0)
  <2>1. w \in Nat /\ l \in DOMAIN lines
    BY <1>1, CostWeights
  <2>2. addition => w > 0
    BY <1>1, <2>1, ColumnFacts DEF TreeInv, WeightsInv
  <2> QED  BY <1>2, <2>1, <2>2 DEF TreeInv, WeightsInv, TypeOK
<1>4. Over(v, u) \in Int
  BY <1>2, OverType DEF TreeInv
<1>5. ASSUME addition
      PROVE  w > 0 /\ Over(v, u) <= Cost((Vertex \ (V \ {u})) \cup {v}) /\ Over(v, u) < Far
  <2> DEFINE A == Vertex \ (V \ {u})
             B == A \cup {v}
  <2>1. Over(v, u) = w + distances[u]
    BY <1>5 DEF Over
  <2>2. (Vertex \ V) \cup {u} = A
    BY <1>1
  <2>3. distances[u] <= Cost(A)
    BY <1>1, <1>5, <2>2 DEF ReachInv, BoundInv
  <2>4. A \in SUBSET Vertex /\ B \in SUBSET Vertex /\ A \subseteq B /\ l[1] \in B \ A
    BY <1>2
  <2> HIDE DEF A, B
  <2>5. Cost(A) \in Nat /\ Cost(B) \in Nat /\ w + Cost(A) <= Cost(B) /\ Cost(B) < Far
    BY <1>1, <1>5, <2>4, CostFacts
  <2>6. Far \in Int
    BY <1>1, FarFacts DEF TreeInv
  <2> QED  BY <1>3, <1>4, <1>5, <2>1, <2>3, <2>5, <2>6 DEF A, B
<1>6. ASSUME ~addition
      PROVE  /\ Over(v, u) >= 0 /\ (w = 0 => Over(v, u) = 0)
             /\ w > 0 => Over(v, u) >= Power[n] /\ Over(v, u) > 0
  <2>1. n \in Nat /\ n + 1 <= N /\ N - hops[u] = n + 1
    <3>1. Vertex \ V \in SUBSET Vertex /\ u \in Vertex \ (Vertex \ V)
          /\ (Vertex \ V) \cup {u} \in SUBSET Vertex
      BY <1>1
    <3>2. IsFiniteSet(Vertex \ V) /\ Cardinality(Vertex \ V) \in Nat
      BY <3>1, VertexFinite, FS_Subset, FS_CardinalityType
    <3>3. Cardinality((Vertex \ V) \cup {u}) = Cardinality(Vertex \ V) + 1
      BY <3>1, <3>2, FS_AddElement
    <3>4. Cardinality((Vertex \ V) \cup {u}) <= N
      BY <3>1, VertexFinite, FS_Subset
    <3>5. hops[u] \in 0 .. N /\ hops[u] <= Cardinality(Vertex \ V)
      BY <1>2 DEF TypeOK, TreeInv, HopsInv
    <3> QED  BY <3>2, <3>3, <3>4, <3>5, VertexFinite
  <2>2. Power[n] \in Nat \ {0} /\ Power[n + 1] = Unit * Power[n]
    <3>1. n <= N
      BY <2>1, VertexFinite
    <3> HIDE DEF n
    <3> QED  BY <1>3, <2>1, <3>1, PowerFacts
  <2>3. distances[u] >= Unit * Power[n]
    BY <1>1, <1>6, <2>1, <2>2 DEF ReachInv, BoundInv
  <2> DEFINE d == distances[u]
             p == Power[n]
             x == w * d
  <2>4. Over(v, u) = x \div Unit
    BY <1>6 DEF Over
  <2>5. Unit * p \in Nat /\ d \in Nat
    BY <1>3, <2>2, <2>3
  <2>6. p \in Nat \ {0}
    BY <2>2
  <2> HIDE DEF d, p, w, n
  <2>7. x \in Nat /\ (w = 0 => x = 0) /\ (w > 0 => x >= d)
    <3>1. w > 0 => d * 1 <= d * w
      BY <1>3, <2>5, TimesMonotone
    <3>2. w * d = d * w /\ d * 1 = d /\ w * d \in Nat
      BY <1>3, <2>5
    <3>3. w = 0 => w * d = 0
      BY <2>5
    <3> QED  BY <3>1, <3>2, <3>3
  <2> HIDE DEF x
  <2>8. x \div Unit \in Nat /\ (x = 0 => x \div Unit = 0)
    BY <1>3, <2>7
  <2>9. w > 0 => p <= x \div Unit
    <3> SUFFICES ASSUME w > 0 PROVE p <= x \div Unit
      OBVIOUS
    <3>1. Unit * p <= x
      BY <2>3, <2>5, <2>7 DEF d, p
    <3> QED  BY <1>3, <2>6, <2>7, <3>1, DivAbove
  <2> QED  BY <2>4, <2>6, <2>7, <2>8, <2>9 DEF p
<1> QED  BY <1>4, <1>5, <1>6

LEMMA ReachAttach ==
  ASSUME NEW u \in Vertex PROVE TreeInv /\ ReachInv /\ Attach(u) => ReachInv'
<1> SUFFICES ASSUME TreeInv, ReachInv, Attach(u) PROVE ReachInv'
  OBVIOUS
<1> DEFINE improved == Improved(u)
           d == distances'
<1>1. /\ phase = "attach" /\ V' = V \ {u} /\ UNCHANGED inputVars /\ sink' = sink
      /\ distances' = [v \in Vertex |-> IF v \in improved THEN Over(v, u) ELSE distances[v]]
      /\ parents' = [v \in Vertex |-> IF v \in improved THEN u ELSE parents[v]]
      /\ hops' = [v \in Vertex |-> IF v \in improved THEN hops[u] + 1 ELSE hops[v]]
  BY DEF Attach
<1>2. /\ addition' = addition /\ Far' = Far /\ weight' = weight /\ Power' = Power
      /\ \A A : Cost(A)' = Cost(A)
      /\ \A s : Joined(s)' = Joined(s)
  BY <1>1, SameWeights, JoinedKept
<1>3. TypeOK /\ sink \in Vertex /\ V \in SUBSET Vertex
  BY <1>1, PlaceIsParents DEF TreeInv, OrphanInv, TypeOK
<1>4. u \in V /\ Reached(u) /\ sink \notin improved /\ u # None
  BY SinkFirst, VertexFinite DEF Attach, Nearest, Candidates, Reached
<1>5. /\ \A v \in Vertex : distances[v] \in Int
      /\ (addition => Far \in Nat) /\ (~addition => Far = -1)
  BY <1>1, <1>3, FarFacts DEF TreeInv, TypeOK
<1>6. \A v \in Vertex : v \in improved =>
        v \in V \ {u} /\ <<v, u>> \in DOMAIN weight /\ Nearer(Over(v, u), distances[v])
  BY DEF Improved
<1>7. \A l \in DOMAIN weight : /\ weight[l] \in Nat /\ l = <<l[1], l[2]>>
                               /\ l[1] \in Vertex /\ l[2] \in Vertex /\ l[1] # l[2]
  <2>1. \A l \in DOMAIN weight : l \in DOMAIN lines
    BY <1>1, CostWeights
  <2>2. lines \in Surveys
    BY DEF TreeInv, WeightsInv
  <2> QED  BY <1>1, <2>1, <2>2, CostWeights, SurveyFacts
<1>8. /\ Reached(sink)
      /\ \A v \in Vertex : Reached(v) => v \in Joined(sink)
      /\ \A v \in Vertex \ V : Reached(v)
      /\ \A l \in DOMAIN weight : l[2] \notin V =>
           /\ l[1] = sink \/ parents[l[1]] # None
           /\ weight[l] > 0 => Reached(l[1])
  BY <1>1 DEF ReachInv, JoinedInv
<1>9. \A v \in Vertex : Reached(v)' <=> IF addition THEN d[v] < Far ELSE d[v] > 0
  BY <1>2 DEF Reached
<1>10. \A v \in Vertex : v \notin improved =>
         /\ d[v] = distances[v] /\ hops'[v] = hops[v] /\ parents'[v] = parents[v]
         /\ Reached(v)' <=> Reached(v)
  <2> SUFFICES ASSUME NEW v \in Vertex, v \notin improved
               PROVE  /\ d[v] = distances[v] /\ hops'[v] = hops[v] /\ parents'[v] = parents[v]
                      /\ Reached(v)' <=> Reached(v)
    OBVIOUS
  <2>1. d[v] = distances[v] /\ hops'[v] = hops[v] /\ parents'[v] = parents[v]
    BY <1>1
  <2> QED  BY <1>9, <2>1 DEF Reached
<1>11. \A v \in Vertex : v \in improved =>
         d[v] = Over(v, u) /\ hops'[v] = hops[u] + 1 /\ parents'[v] = u
  BY <1>1
<1> HIDE DEF improved, d
<1>12. ASSUME NEW v \in Vertex, v \in improved
       PROVE  /\ weight[<<v, u>>] > 0 <=> Reached(v)'
              /\ Reached(v) => Reached(v)'
              /\ addition => d[v] <= Cost((Vertex \ V') \cup {v})
              /\ ~addition /\ Reached(v)' => d[v] >= Power[Cardinality(Vertex) - hops'[v]]
  <2>1. v \in V \ {u} /\ <<v, u>> \in DOMAIN weight /\ Nearer(d[v], distances[v])
        /\ d[v] = Over(v, u) /\ hops'[v] = hops[u] + 1
    BY <1>6, <1>11, <1>12
  <2>2. weight[<<v, u>>] \in Nat
    BY <1>7, <2>1
  <2>3. CASE addition
    <3>1. weight[<<v, u>>] > 0 /\ d[v] <= Cost((Vertex \ V') \cup {v}) /\ d[v] < Far
      BY <1>1, <2>1, <2>3, OverReached
    <3> QED  BY <1>9, <2>3, <3>1
  <2>4. CASE ~addition
    <3>1. /\ d[v] \in Int /\ (weight[<<v, u>>] = 0 => d[v] = 0)
          /\ weight[<<v, u>>] > 0 => d[v] > 0 /\ d[v] >= Power[Cardinality(Vertex) - hops'[v]]
      BY <2>1, <2>4, OverReached
    <3>2. d[v] > distances[v]
      BY <2>1, <2>4 DEF Nearer
    <3>3. Reached(v)' <=> d[v] > 0
      BY <1>9, <2>4
    <3>4. Reached(v) => distances[v] > 0
      BY <2>4 DEF Reached
    <3>5. weight[<<v, u>>] > 0 <=> Reached(v)'
      BY <2>2, <3>1, <3>3
    <3>6. Reached(v) => Reached(v)'
      BY <1>5, <3>1, <3>2, <3>3, <3>4
    <3> QED  BY <2>4, <3>1, <3>5, <3>6
  <2> QED  BY <2>3, <2>4
<1>13. \A v \in Vertex : Reached(v) => Reached(v)'
  BY <1>10, <1>12
<1>14. \A v \in Vertex : Reached(v) => v = sink \/ parents[v] # None
  <2> SUFFICES ASSUME NEW v \in Vertex \ {sink}, parents[v] = None, Reached(v) PROVE FALSE
    OBVIOUS
  <2>1. distances[v] = Far
    BY <1>1 DEF TreeInv, OrphanInv
  <2> QED  BY <1>5, <2>1 DEF Reached
<1>15. \A v \in Vertex : parents[v] # None => parents'[v] # None
  BY <1>4, <1>10, <1>11
<1>16. \A v \in Vertex : Reached(v)' => v \in Joined(sink)
  <2> SUFFICES ASSUME NEW v \in Vertex, Reached(v)' PROVE v \in Joined(sink)
    OBVIOUS
  <2>1. CASE v \in improved
    BY <1>4, <1>6, <1>8, <1>12, <2>1, JoinedStep
  <2>2. CASE v \notin improved
    BY <1>8, <1>10, <2>2
  <2> QED  BY <2>1, <2>2
<1>17. ASSUME NEW l \in DOMAIN weight, l[2] \notin V'
       PROVE  /\ l[1] = sink \/ parents'[l[1]] # None
              /\ weight[l] > 0 => Reached(l[1])'
  <2> DEFINE v == l[1]
  <2>1. v \in Vertex /\ weight[l] \in Nat
    BY <1>7
  <2>2. CASE l[2] \notin V
    BY <1>8, <1>13, <1>15, <2>1, <2>2
  <2>3. CASE l[2] = u
    <3>1. l = <<v, u>> /\ v # u
      BY <1>7, <2>3
    <3>2. CASE v \in improved
      BY <1>4, <1>11, <1>12, <2>1, <3>1, <3>2
    <3>3. CASE v \notin V
      <4>1. Reached(v)
        BY <1>8, <2>1, <3>3
      <4> QED  BY <1>13, <1>14, <1>15, <2>1, <4>1
    <3>4. CASE v \in V /\ v \notin improved
      <4>1. ~Nearer(Over(v, u), distances[v]) /\ v \in V \ {u} /\ <<v, u>> \in DOMAIN weight
        BY <3>1, <3>4 DEF improved, Improved
      <4>2. CASE addition
        <5>1. Over(v, u) < Far /\ Over(v, u) \in Int /\ ~(Over(v, u) < distances[v])
          BY <4>1, <4>2, OverReached DEF Nearer
        <5>2. Reached(v)
          BY <1>5, <2>1, <4>2, <5>1 DEF Reached
        <5> QED  BY <1>13, <1>14, <1>15, <2>1, <5>2
      <4>3. CASE ~addition
        <5>1. /\ Over(v, u) >= 0 /\ Over(v, u) \in Int /\ ~(Over(v, u) > distances[v])
              /\ weight[l] > 0 => Over(v, u) > 0
          BY <3>1, <4>1, <4>3, OverReached DEF Nearer
        <5>2. distances[v] # Far /\ (weight[l] > 0 => distances[v] > 0)
          BY <1>5, <2>1, <4>3, <5>1
        <5>3. weight[l] > 0 => Reached(v)
          BY <4>3, <5>2 DEF Reached
        <5>4. v = sink \/ parents[v] # None
          BY <1>1, <2>1, <5>2 DEF TreeInv, OrphanInv
        <5> QED  BY <1>13, <1>15, <2>1, <5>3, <5>4
      <4> QED  BY <4>2, <4>3
    <3> QED  BY <3>2, <3>3, <3>4
  <2> QED  BY <1>1, <1>17, <2>2, <2>3
<1>18. JoinedInv'
  <2>1. Reached(sink)'
    BY <1>1, <1>3, <1>8, <1>13
  <2>2. \A v \in Vertex \ V' : Reached(v)'
    BY <1>1, <1>4, <1>8, <1>13
  <2> QED  BY <1>1, <1>2, <1>16, <1>17, <2>1, <2>2 DEF JoinedInv
<1>19. BoundInv'
  <2> SUFFICES ASSUME NEW v \in Vertex, Reached(v)'
               PROVE  IF addition THEN d[v] <= Cost((Vertex \ V') \cup {v})
                                  ELSE d[v] >= Power[Cardinality(Vertex) - hops'[v]]
    BY <1>2 DEF BoundInv, d
  <2>1. CASE v \in improved
    BY <1>12, <2>1
  <2>2. CASE v \notin improved
    <3>1. d[v] = distances[v] /\ hops'[v] = hops[v] /\ Reached(v)
      BY <1>10, <2>2
    <3>2. IF addition THEN d[v] <= Cost((Vertex \ V) \cup {v})
                      ELSE d[v] >= Power[Cardinality(Vertex) - hops'[v]]
      BY <1>1, <3>1 DEF ReachInv, BoundInv
    <3> DEFINE A == (Vertex \ V) \cup {v}
               B == (Vertex \ V') \cup {v}
    <3>3. A \in SUBSET Vertex /\ B \in SUBSET Vertex /\ A \subseteq B
      BY <1>1, <1>4
    <3> HIDE DEF A, B
    <3>4. Cost(A) <= Cost(B) /\ Cost(A) \in Nat /\ Cost(B) \in Nat
      BY <1>1, <3>3, CostFacts
    <3>5. d[v] \in Int
      BY <1>5, <3>1
    <3> QED  BY <3>2, <3>4, <3>5 DEF A, B
  <2> QED  BY <2>1, <2>2
<1> QED  BY <1>18, <1>19 DEF ReachInv

LEMMA ReachStep == TreeInv /\ ReachInv /\ [Next]_vars => ReachInv'
<1> SUFFICES ASSUME TreeInv, ReachInv, [Next]_vars PROVE ReachInv'
  OBVIOUS
<1>1. CASE \E s \in Vertex : Pick(s)
  BY <1>1, ReachPick
<1>2. CASE \E u \in Vertex : Attach(u)
  BY <1>2, ReachAttach
<1>3. CASE Normalize \/ DivisionByZero \/ Compare \/ Finish
  <2>1. phase' # "attach"
    BY <1>3 DEF Normalize, DivisionByZero, Compare, Finish
  <2> QED  BY <2>1 DEF ReachInv, BoundInv, JoinedInv
<1>4. CASE UNCHANGED vars
  <2>1. /\ UNCHANGED <<phase, sink, V, distances, parents, hops>> /\ UNCHANGED inputVars
    BY <1>4 DEF vars, treeVars
  <2>2. /\ \A s : Joined(s)' = Joined(s)
        /\ \A A : Cost(A)' = Cost(A)
        /\ Power' = Power /\ weight' = weight /\ addition' = addition /\ Far' = Far
    BY <2>1, SameWeights, JoinedKept
  <2>3. \A v : Reached(v)' = Reached(v)
    BY <2>1, <2>2 DEF Reached
  <2>4. BoundInv'
    BY <2>1, <2>2, <2>3 DEF ReachInv, BoundInv
  <2>5. JoinedInv'
    BY <2>1, <2>2, <2>3 DEF ReachInv, JoinedInv
  <2> QED  BY <2>4, <2>5 DEF ReachInv
<1> QED  BY <1>1, <1>2, <1>3, <1>4 DEF Next

(* A trial that is over made a tree if the sink spans the others.          *)
LEMMA TreeSpans ==
  ASSUME TreeInv, ReachInv, phase = "attach", Attached
  PROVE  IsTree <=> Spans(sink)
<1>1. TypeOK /\ PlaceInv /\ sink \in Vertex /\ V \in SUBSET Vertex
  BY PlaceIsParents DEF TreeInv, OrphanInv, TypeOK
<1>2. /\ Reached(sink)
      /\ \A v \in Vertex : Reached(v) => v \in Joined(sink)
      /\ \A v \in Vertex \ V : Reached(v)
      /\ \A l \in DOMAIN weight : l[2] \notin V =>
           /\ l[1] = sink \/ parents[l[1]] # None
           /\ weight[l] > 0 => Reached(l[1])
  BY DEF ReachInv, JoinedInv
<1>3. \A v \in Vertex : Reached(v) <=> v \notin V
  <2>1. \A v \in V : ~Reached(v)
    BY DEF Attached, Candidates, Reached
  <2> QED  BY <1>2, <2>1
<1>4. Joined(sink) = Vertex \ V
  <2> DEFINE S == {v \in Vertex : Reached(v)}
  <2>1. S \in SUBSET Vertex /\ sink \in S
    BY <1>1, <1>2
  <2>2. \A l \in DOMAIN weight : l[2] \in S /\ weight[l] > 0 => l[1] \in S
    BY <1>2, <1>3, CostWeights
  <2> HIDE DEF S
  <2>3. Joined(sink) \subseteq S
    BY <2>1, <2>2 DEF Joined
  <2>4. S = Vertex \ V
    BY <1>3 DEF S
  <2> QED  BY <1>2, <2>3, <2>4
<1>5. \A v \in Vertex \ {sink} :
        parents[v] # None <=> \E w \in Joined(sink) : <<v, w>> \in DOMAIN weight
  <2> TAKE v \in Vertex \ {sink}
  <2>1. ASSUME parents[v] # None PROVE \E w \in Joined(sink) : <<v, w>> \in DOMAIN weight
    <3>1. <<v, parents[v]>> \in DOMAIN weight /\ parents[v] \notin V
      BY <1>1, <2>1, CostWeights DEF PlaceInv
    <3>2. parents[v] \in Vertex
      BY <1>1, <2>1 DEF TypeOK
    <3> QED  BY <1>4, <3>1, <3>2
  <2>2. ASSUME NEW w \in Joined(sink), <<v, w>> \in DOMAIN weight PROVE parents[v] # None
    <3>1. <<v, w>>[1] = v /\ <<v, w>>[2] = w
      OBVIOUS
    <3> QED  BY <1>2, <1>4, <2>2, <3>1
  <2> QED  BY <2>1, <2>2
<1>6. sink \in Orphans /\ Orphans \in SUBSET Vertex /\ IsFiniteSet(Orphans)
  <2>1. sink \in Orphans /\ Orphans \in SUBSET Vertex
    BY <1>1 DEF PlaceInv, Orphans
  <2> QED  BY <2>1, VertexFinite, FS_Subset
<1>7. IsTree <=> Orphans = {sink}
  <2>1. Cardinality(Orphans) \in Nat /\ Cardinality(Orphans) # 0
    BY <1>6, FS_CardinalityType, FS_EmptySet
  <2>2. Cardinality(Orphans) <= 1 <=> Cardinality(Orphans) = 1
    BY <2>1
  <2>3. Cardinality(Orphans) = 1 <=> \E x : Orphans = {x}
    BY <1>6, FS_Singleton
  <2> QED  BY <1>6, <2>2, <2>3 DEF IsTree
<1>8. Orphans = {sink} <=> \A v \in Vertex \ {sink} : parents[v] # None
  BY <1>6 DEF Orphans
<1> QED  BY <1>5, <1>7, <1>8 DEF Spans

LEMMA FoundInit == Init => FoundInv
  BY DEF Init, FoundInv

LEMMA FoundStep == TreeInv /\ ReachInv /\ FoundInv /\ [Next]_vars => FoundInv'
<1> SUFFICES ASSUME TreeInv, ReachInv, FoundInv, [Next]_vars PROVE FoundInv'
  OBVIOUS
<1>1. CASE Normalize \/ DivisionByZero
  <2>1. phase = "read" /\ phase' # "read" /\ untried' = untried /\ best' = best
    BY <1>1 DEF Normalize, DivisionByZero
  <2>2. untried = Vertex /\ best.sink = None /\ best.value = 0
    BY <2>1 DEF FoundInv
  <2> QED  BY <2>1, <2>2 DEF FoundInv
<1>3. CASE \E s \in Vertex : Pick(s)
  <2>1. PICK s \in Vertex : Pick(s)
    BY <1>3
  <2>2. /\ UNCHANGED inputVars /\ phase = "pick" /\ phase' = "attach"
        /\ untried' = untried \ {s} /\ sink' = s /\ best' = best
    BY <2>1 DEF Pick
  <2>3. \A r : Spans(r)' = Spans(r)
    BY <2>2, JoinedKept
  <2> QED  BY <2>2, <2>3 DEF FoundInv
<1>4. CASE (\E u \in Vertex : Attach(u)) \/ Finish \/ UNCHANGED vars
  <2>1. /\ UNCHANGED inputVars /\ UNCHANGED <<untried, sink, best>>
        /\ phase' = phase \/ (phase = "pick" /\ phase' = "done")
    BY <1>4 DEF Attach, Finish, vars
  <2>2. \A r : Spans(r)' = Spans(r)
    BY <2>1, JoinedKept
  <2> QED  BY <2>1, <2>2 DEF FoundInv
<1>5. CASE Compare
  <2>1. /\ UNCHANGED inputVars /\ UNCHANGED <<untried, sink>>
        /\ phase = "attach" /\ Attached /\ phase' = "pick"
    BY <1>5 DEF Compare
  <2>2. \A r : Spans(r)' = Spans(r)
    BY <2>1, JoinedKept
  <2>3. sink \in Vertex /\ sink # None
    BY <2>1, VertexFinite DEF TreeInv, OrphanInv
  <2>4. IsTree <=> Spans(sink)
    BY <2>1, TreeSpans
  <2>5. /\ best.sink # None => \E r \in Vertex : Spans(r)
        /\ \A r \in Vertex \ untried : Spans(r) /\ r # sink => best.sink # None
        /\ best.sink = None => best.value = 0
    BY <2>1 DEF FoundInv
  <2> DEFINE Better == weightSum = best.value
                         \/ IF addition THEN best.sink = None \/ weightSum < best.value
                                        ELSE weightSum > best.value
  <2>6. best' = IF IsTree /\ Better THEN [value |-> weightSum, sink |-> sink] ELSE best
    BY <1>5 DEF Compare
  <2>7. best.sink = None => Better
    <3>1. weightSum \in Nat
      BY <2>1, TreeWeights
    <3> QED  BY <2>5, <3>1
  <2> HIDE DEF Better
  <2>8. CASE IsTree /\ Better
    <3>1. best'.sink = sink
      BY <2>6, <2>8
    <3> QED  BY <2>1, <2>2, <2>3, <2>4, <2>8, <3>1 DEF FoundInv
  <2>9. CASE ~(IsTree /\ Better)
    <3>1. best' = best
      BY <2>6, <2>9
    <3>2. Spans(sink) => best.sink # None
      BY <2>4, <2>7, <2>9
    <3> QED  BY <2>1, <2>2, <2>5, <3>1, <3>2 DEF FoundInv
  <2> QED  BY <2>8, <2>9
<1> QED  BY <1>1, <1>3, <1>4, <1>5 DEF Next

(* Nothing is left to try when the program is done.                        *)
DoneInv == phase = "done" => untried = {}

LEMMA DoneStep == DoneInv /\ [Next]_vars => DoneInv'
<1> SUFFICES ASSUME DoneInv, [Next]_vars, phase' = "done" PROVE untried' = {}
  BY DEF DoneInv
<1>1. CASE Finish
  BY <1>1 DEF Finish
<1>2. CASE UNCHANGED vars
  BY <1>2 DEF vars, DoneInv
<1>3. CASE Normalize \/ DivisionByZero \/ Compare
  BY <1>3 DEF Normalize, DivisionByZero, Compare
<1>4. CASE (\E s \in Vertex : Pick(s)) \/ \E u \in Vertex : Attach(u)
  <2>1. phase' = "attach"
    BY <1>4 DEF Pick, Attach
  <2> QED  BY <2>1
<1> QED  BY <1>1, <1>2, <1>3, <1>4 DEF Next

LEMMA FoundHolds == FoundInv /\ DoneInv => SinkFoundIfAny
<1> SUFFICES ASSUME FoundInv, DoneInv, phase = "done"
             PROVE  best.sink # None <=> \E s \in Vertex : Spans(s)
  BY DEF SinkFoundIfAny
<1>1. untried = {}
  BY DEF DoneInv
<1> QED  BY <1>1 DEF FoundInv

(* With costs the distances at the end of a trial are those of the         *)
(* cheapest paths to the sink, and no vertex with a path is left out.      *)
THEOREM CheapestTheorem == Spec => []CheapestPaths
<1>1. Init => CostInv
  BY DEF Init, CostInv
<1> QED  BY TreeInit, TreeStep, <1>1, CostStep, CheapestHolds, PTL DEF Spec

(* A sink is found exactly when every other vertex has a link into the     *)
(* part that is joined to some vertex, in whatever order the vertices are  *)
(* tried, with costs and with reliabilities.                               *)
THEOREM SinkFoundTheorem == Spec => []SinkFoundIfAny
<1>1. Init => ReachInv /\ DoneInv
  BY DEF Init, ReachInv, BoundInv, JoinedInv, DoneInv
<1> QED  BY TreeInit, TreeStep, <1>1, ReachStep, FoundInit, FoundStep, DoneStep, FoundHolds,
            PTL DEF Spec
=============================================================================
