--------------------------- MODULE SinkSelection ----------------------------
(***************************************************************************)
(* sink_selection.py: every vertex is tried as the sink, its hop counts    *)
(* are summed, and the smallest pair of a sum and a vertex wins.           *)
(*                                                                         *)
(* All trials label one graph object, each starting from the labels the    *)
(* one before left.  A vertex that is not reached keeps Unset, the INF of  *)
(* the program, and counts with it.                                        *)
(***************************************************************************)
EXTENDS HopCount

ASSUME SinkAssumption == Unset \in Nat

VARIABLES
  untried,       \* the vertices find_optimal_sink_by_hop has still to try
  scores,        \* the list of pairs <<sum, vertex>>
  running        \* a traversal is under way

sinkVars == <<hopVars, untried, scores, running>>

SinkTypeOK ==
  /\ HopTypeOK
  /\ untried \in SUBSET Vertex
  /\ scores \in SUBSET (Nat \X Vertex)
  /\ running \in BOOLEAN

SinkInit ==
  /\ edges \in {parseFile(links) : links \in Surveys}
  /\ source = None
  /\ metric = [v \in Vertex |-> Unset]
  /\ parent = [v \in Vertex |-> None]
  /\ visited = {}
  /\ stack_nodes = <<>>
  /\ untried = Vertex
  /\ scores = {}
  /\ running = FALSE

dejkstra_StaysVisited(s) ==
  /\ source' = s
  /\ metric' = [v \in Vertex |-> IF v = s THEN 0 ELSE Unset]
  /\ parent' = [v \in Vertex |-> None]
  /\ stack_nodes' = <<s>>
  /\ UNCHANGED <<edges, visited>>

dejkstra(s) ==
  /\ source' = s
  /\ metric' = [v \in Vertex |-> IF v = s THEN 0 ELSE Unset]
  /\ parent' = [v \in Vertex |-> None]
  /\ visited' = {}
  /\ stack_nodes' = <<s>>
  /\ UNCHANGED edges

Try(s) ==
  /\ ~running /\ s \in untried
  /\ dejkstra(s)
  /\ untried' = untried \ {s}
  /\ running' = TRUE
  /\ UNCHANGED scores

attendNodes ==
  /\ running
  /\ Visit
  /\ UNCHANGED <<untried, scores, running>>

calculate_sum_metric_Reached ==
  SumFunctionOnSet([v \in Vertex |-> metric[v] % Unset], Vertex)

calculate_sum_metric == SumFunctionOnSet(metric, Vertex)

Score ==
  /\ running /\ stack_nodes = <<>>
  /\ scores' = scores \cup {<<calculate_sum_metric, source>>}
  /\ running' = FALSE
  /\ UNCHANGED <<hopVars, untried>>

SinkStep == (\E s \in Vertex : Try(s)) \/ attendNodes \/ Score

SinkSpec == SinkInit /\ [][SinkStep]_sinkVars

(* The minimum of the pairs: at equal sums the smaller vertex.             *)
find_optimal_sink_by_hop_VertexFirst ==
  LET Precedes(p, q) == \/ p[2] < q[2]
                        \/ p[2] = q[2] /\ p[1] <= q[1]
  IN  (CHOOSE p \in scores : \A q \in scores : Precedes(p, q))[2]

find_optimal_sink_by_hop ==
  LET Precedes(p, q) == \/ p[1] < q[1]
                        \/ p[1] = q[1] /\ p[2] <= q[2]
  IN  (CHOOSE p \in scores : \A q \in scores : Precedes(p, q))[2]

Finished == untried = {} /\ ~running

-----------------------------------------------------------------------------
(***************************************************************************)
(* Properties.                                                             *)
(***************************************************************************)

(* The hops from s to all the vertices it reaches. *)
TotalHops(s) ==
  LET reached == Reachable(Vertex, s)
  IN  SumFunctionOnSet([v \in reached |-> Distance(s, v)], reached)

(* Every variable keeps its type, and a sum is the one of its own          *)
(* traversal: the distances from its vertex, and nothing that a trial      *)
(* before left in the labels.                                              *)
ScoresAreExact ==
  /\ SinkTypeOK
  /\ \A p \in scores :
       p[1] = TotalHops(p[2])
                + Unset * Cardinality(Vertex \ Reachable(Vertex, p[2]))

(* The chosen sink reaches as many vertices as any other would, and none   *)
(* that reaches as many is nearer to them in sum: INF outweighs the hops.  *)
SinkIsCentral ==
  Finished =>
    LET best == find_optimal_sink_by_hop
        Covers(s) == Cardinality(Reachable(Vertex, s))
    IN  \A s \in Vertex :
          \/ Covers(s) < Covers(best)
          \/ Covers(s) = Covers(best) /\ TotalHops(s) >= TotalHops(best)
=============================================================================
