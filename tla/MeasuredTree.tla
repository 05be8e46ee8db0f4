---------------------------- MODULE MeasuredTree ----------------------------
(***************************************************************************)
(* parser.py: from the printed lines to the sink with the best tree.       *)
(*                                                                         *)
(* The main program builds three weighted graphs and treats them one after *)
(* the other in the same way; "kind" is the one a behaviour is about.  For *)
(* every vertex as the sink, dijkstras attaches the others to it link by   *)
(* link; with "addition" (etx) a link adds its cost, otherwise it          *)
(* multiplies a reliability.                                               *)
(*                                                                         *)
(* Weights are fractions of a common denominator Unit.  A distance is kept *)
(* in units that make every product of them exact, where the program has   *)
(* floating point numbers.  Vertices come out of a dictionary: their order *)
(* is arbitrary.                                                           *)
(***************************************************************************)
EXTENDS Integers, FiniteSets, Sequences, FiniteSetsExt

CONSTANTS
  Vertex,
  Surveys       \* functions from links to the last line printed for the link

None == 0

(* A line as recv of collect_data.c prints it, without the addresses.      *)
Line == [total : Nat, lost : Nat, lqi : Nat, rssi : Int, etx : Nat,
         etx_accumulator : Nat, hops : Nat]

ASSUME SurveyAssumption ==
  /\ IsFiniteSet(Vertex) /\ None \notin Vertex
  /\ \A s \in Surveys :
       /\ DOMAIN s # {} /\ DOMAIN s \subseteq {l \in Vertex \X Vertex : l[1] # l[2]}
       /\ \A v \in Vertex : \E l \in DOMAIN s : v \in {l[1], l[2]}
       /\ \A l \in DOMAIN s : s[l] \in Line

VARIABLES
  lines, kind,
  phase,                       \* "read", "pick", "attach", "done", "crashed"
  weight, Unit,
  untried, sink,
  V, distances, parents, hops, \* the locals of dijkstras
  best                         \* the best tree so far: its value and its sink

inputVars == <<lines, kind, weight, Unit>>
treeVars == <<V, distances, parents, hops>>
vars == <<inputVars, phase, untried, sink, treeVars, best>>

addition == kind = "etx"

-----------------------------------------------------------------------------
(* Reading the lines. *)

(* The columns of a line after the two addresses, and what parseFile takes *)
(* from them: data[5], data[6] and data[7], counted from the address.      *)
Columns(line) == <<line.total, line.lost, line.lqi, line.rssi, line.etx,
                   line.etx_accumulator, line.hops>>

parseFile(line) ==
  [lqi  |-> Columns(line)[4],
   rssi |-> Columns(line)[5],
   etx  |-> IF Columns(line)[6] > 0 THEN Columns(line)[6] ELSE 16]

Column(k) == [l \in DOMAIN lines |-> parseFile(lines[l])[k]]

Values(d) == {d[l] : l \in DOMAIN d}

(* Only a column without a negative value is divided by its largest one,   *)
(* which a column of zeros does not have.                                  *)
Normalizable(d) == Min(Values(d)) < 0 \/ Max(Values(d)) # 0

(* The numerators over Denominator(d): a column with a negative value is   *)
(* spread from 0 to 100, and constant columns are all 1.                   *)
normalizeData(d) ==
  LET diff == Max(Values(d)) - Min(Values(d))
  IN  [l \in DOMAIN d |->
         IF Min(Values(d)) >= 0 THEN d[l]
         ELSE IF diff = 0 THEN 1
         ELSE 100 * diff - (Max(Values(d)) - d[l]) * 100]

Denominator(d) ==
  LET diff == Max(Values(d)) - Min(Values(d))
  IN  IF Min(Values(d)) >= 0 THEN Max(Values(d))
      ELSE IF diff = 0 THEN 1 ELSE diff

Init ==
  /\ lines \in Surveys
  /\ kind \in {"lqi", "rssi", "etx"}
  /\ phase = "read"
  /\ weight = Column(kind)
  /\ Unit = 1
  /\ untried = Vertex
  /\ sink = None
  /\ V = {}
  /\ distances = [v \in Vertex |-> 0]
  /\ parents = [v \in Vertex |-> None]
  /\ hops = [v \in Vertex |-> 0]
  /\ best = [value |-> 0, sink |-> None]

(* Both columns are normalised before any graph is looked at.              *)
Normalize ==
  /\ phase = "read"
  /\ Normalizable(Column("lqi")) /\ Normalizable(Column("rssi"))
  /\ phase' = "pick"
  /\ IF addition
       THEN UNCHANGED <<weight, Unit>>
       ELSE /\ weight' = normalizeData(Column(kind))
            /\ Unit' = Denominator(Column(kind))
  /\ UNCHANGED <<lines, kind, untried, sink, treeVars, best>>

DivisionByZero ==
  /\ phase = "read"
  /\ ~(Normalizable(Column("lqi")) /\ Normalizable(Column("rssi")))
  /\ phase' = "crashed"
  /\ UNCHANGED <<inputVars, untried, sink, treeVars, best>>

-----------------------------------------------------------------------------
(* dijkstras.  A vertex without a distance is at Far: inf, or -100000.0,   *)
(* which is below every reliability.                                       *)
Far == IF addition
         THEN 1 + SumFunctionOnSet(weight, DOMAIN weight)
         ELSE -1

(* The distance of the sink: 0, or 1.0 in units of Unit^-Cardinality(Vertex). *)
One ==
  LET power[i \in 0 .. Cardinality(Vertex)] ==
        IF i = 0 THEN 1 ELSE Unit * power[i - 1]
  IN  IF addition THEN 0 ELSE power[Cardinality(Vertex)]

Pick(s) ==
  /\ phase = "pick" /\ s \in untried
  /\ phase' = "attach"
  /\ untried' = untried \ {s}
  /\ sink' = s
  /\ V' = Vertex
  /\ distances' = [v \in Vertex |-> IF v = s THEN One ELSE Far]
  /\ parents' = [v \in Vertex |-> None]
  /\ hops' = [v \in Vertex |-> 0]
  /\ UNCHANGED <<inputVars, best>>

Nearer(d, e) == IF addition THEN d < e ELSE d > e

(* extractMin looks below inf, extractMax above 0. *)
Candidates == {u \in V : IF addition THEN distances[u] < Far ELSE distances[u] > 0}

Nearest_Any(u) == u \in Candidates

Nearest(u) == u \in Candidates /\ \A w \in Candidates : ~Nearer(distances[w], distances[u])

(* The distance of v over the link to u. *)
Over(v, u) == IF addition THEN weight[<<v, u>>] + distances[u]
              ELSE (weight[<<v, u>>] * distances[u]) \div Unit

(* The vertices left in V with a better way over u.                        *)
Improved_Everywhere(u) ==
  {v \in Vertex \ {u} : /\ <<v, u>> \in DOMAIN weight
                        /\ Nearer(Over(v, u), distances[v])}

Improved(u) == {v \in V \ {u} : /\ <<v, u>> \in DOMAIN weight
                                /\ Nearer(Over(v, u), distances[v])}

(* u leaves V, and the others take the better way over it.                 *)
Attach(u) ==
  /\ phase = "attach" /\ Nearest(u)
  /\ V' = V \ {u}
  /\ LET improved == Improved(u)
     IN  /\ distances' = [v \in Vertex |-> IF v \in improved THEN Over(v, u)
                                           ELSE distances[v]]
         /\ parents' = [v \in Vertex |-> IF v \in improved THEN u ELSE parents[v]]
         /\ hops' = [v \in Vertex |-> IF v \in improved THEN hops[u] + 1 ELSE hops[v]]
  /\ UNCHANGED <<inputVars, phase, untried, sink, best>>

(* As if the loop only ended with V, without the break. *)
Attached_NoBreak == V = {}

(* V is empty, or no node of it could be extracted.                        *)
Attached == V = {} \/ Candidates = {}

Orphans == {v \in Vertex : parents[v] = None}

(* Only the sink may be without a parent. *)
IsTree == Cardinality(Orphans) <= 1

TreeLinks == {l \in DOMAIN weight : parents[l[1]] = l[2]}
weightSum == SumFunctionOnSet(weight, TreeLinks)

(* As if a tree had to beat the value that the search starts from. *)
Compare_StrictlyBetter ==
  /\ phase = "attach" /\ Attached
  /\ phase' = "pick"
  /\ best' = IF /\ IsTree
                /\ IF addition THEN best.sink = None \/ weightSum < best.value
                               ELSE weightSum > best.value
             THEN [value |-> weightSum, sink |-> sink]
             ELSE best
  /\ UNCHANGED <<inputVars, untried, sink, treeVars>>

(* The variable for the diameter of the best tree is never assigned and    *)
(* stays inf, so that of two equal trees the later one is kept.            *)
Compare ==
  /\ phase = "attach" /\ Attached
  /\ phase' = "pick"
  /\ best' = IF /\ IsTree
                /\ \/ weightSum = best.value
                   \/ IF addition THEN best.sink = None \/ weightSum < best.value
                                  ELSE weightSum > best.value
             THEN [value |-> weightSum, sink |-> sink]
             ELSE best
  /\ UNCHANGED <<inputVars, untried, sink, treeVars>>

Finish ==
  /\ phase = "pick" /\ untried = {}
  /\ phase' = "done"
  /\ UNCHANGED <<inputVars, untried, sink, treeVars, best>>

Next ==
  \/ Normalize
  \/ DivisionByZero
  \/ \E s \in Vertex : Pick(s)
  \/ \E u \in Vertex : Attach(u)
  \/ Compare
  \/ Finish

Spec == Init /\ [][Next]_vars /\ WF_vars(Next)

-----------------------------------------------------------------------------
(***************************************************************************)
(* Properties.                                                             *)
(***************************************************************************)

TypeOK ==
  /\ phase \in {"read", "pick", "attach", "done", "crashed"}
  /\ weight \in [DOMAIN lines -> Int]
  /\ untried \in SUBSET Vertex /\ V \in SUBSET Vertex
  /\ sink \in Vertex \cup {None}
  /\ distances \in [Vertex -> Int]
  /\ parents \in [Vertex -> Vertex \cup {None}]
  /\ hops \in [Vertex -> 0 .. Cardinality(Vertex)]
  /\ best \in [value : Nat, sink : Vertex \cup {None}]

(* Every variable keeps its type.  At every moment, and also where         *)
(* reliabilities above 1 let a product grow along a path, the parents lead *)
(* to the sink one hop at a time over printed links, and no vertex that is *)
(* out of V changes its place.                                             *)
ParentsLeadToSink ==
  /\ TypeOK
  /\ phase = "attach" =>
       /\ parents[sink] = None /\ hops[sink] = 0
       /\ \A v \in Vertex : parents[v] # None =>
            LET u == parents[v]
            IN  /\ <<v, u>> \in DOMAIN lines
                /\ u \notin V
                /\ u = sink \/ parents[u] # None
                /\ hops[v] = hops[u] + 1
                /\ distances[v] = Over(v, u)

(* The least cost of a path from v to s over at most i links. *)
PathCost(s) ==
  LET cost[i \in 0 .. Cardinality(Vertex)] ==
        IF i = 0 THEN [v \in Vertex |-> IF v = s THEN 0 ELSE Far]
        ELSE LET c == cost[i - 1]
             IN  [v \in Vertex |->
                    Min({c[v]} \cup {weight[l] + c[l[2]] : l \in
                                      {m \in DOMAIN weight : m[1] = v}})]
  IN  cost[Cardinality(Vertex)]

(* With costs the distances are those of the cheapest paths, and every     *)
(* vertex with a path to the sink has a parent.                            *)
CheapestPaths ==
  addition /\ phase = "attach" /\ Attached =>
    \A v \in Vertex : /\ distances[v] = Min({Far, PathCost(sink)[v]})
                      /\ v # sink => (v \in Orphans <=> distances[v] = Far)

(* The vertices with a way to s over links that are worth something.       *)
Joined(s) ==
  {v \in Vertex : \A S \in SUBSET Vertex :
     /\ s \in S
     /\ \A l \in DOMAIN weight : l[2] \in S /\ weight[l] > 0 => l[1] \in S
     => v \in S}

Spans(s) == \A v \in Vertex \ {s} : \E u \in Joined(s) : <<v, u>> \in DOMAIN weight

(* A sink is found exactly if every other vertex has a link into the part  *)
(* that is joined to some vertex.  The weakest reliability of a column     *)
(* with negative values is 0: such a link still makes a parent, but it     *)
(* cuts off what lies behind it.                                           *)
SinkFoundIfAny == phase = "done" => (best.sink # None <=> \E s \in Vertex : Spans(s))

(* Every vertex is tried, or the columns cannot be normalised. *)
ParserEnds == <>(phase \in {"done", "crashed"})

-----------------------------------------------------------------------------
(* What the comments of parser.py say. *)

(* "The graph holding data about LQI": its weights come from the lqi that  *)
(* was printed.                                                            *)
LqiGraphHoldsLqi == \A l \in DOMAIN lines : Column("lqi")[l] = lines[l].lqi
=============================================================================
