------------------------------ MODULE HopCount ------------------------------
(***************************************************************************)
(* The traversal that labels a graph with hop counts: count_hops of cds.py *)
(* and attendNodes of sink_selection.py, which have the same body.  One    *)
(* step is one turn of the while loop.                                     *)
(*                                                                         *)
(* The list stack_nodes is used as a queue: the head is visited, its       *)
(* neighbours are appended in the order of the adjacency dictionary, which *)
(* is arbitrary here.  A vertex is appended once for every visit that      *)
(* finds it unvisited, so the queue holds duplicates.                      *)
(***************************************************************************)
EXTENDS HopGraph, SequencesExt

CONSTANT Unset        \* the metric of a vertex before the traversal: -1 in
                      \* cds.py, INF in sink_selection.py

ASSUME UnsetAssumption == Unset = -1 \/ (Unset \in Nat /\ Unset > Cardinality(Vertex))

VARIABLES
  source,             \* the vertex the hops are counted from, or None
  metric, parent,
  visited,            \* the vertices whose attribute 'visited' is True
  stack_nodes

labels == <<metric, parent, visited, stack_nodes>>
hopVars == <<edges, source, labels>>

None == 0             \* no vertex

HopTypeOK ==
  /\ edges \in SUBSET Pairs
  /\ source \in Vertex \cup {None}
  /\ metric \in [Vertex -> {Unset} \cup (0 .. Cardinality(Vertex))]
  /\ parent \in [Vertex -> Vertex \cup {None}]
  /\ visited \in SUBSET Vertex
  /\ stack_nodes \in Seq(Vertex)

(* The labels with which a traversal of a fresh graph starts. *)
StartAt(s) ==
  /\ source = s
  /\ metric = [v \in Vertex |-> IF v = s THEN 0 ELSE Unset]
  /\ parent = [v \in Vertex |-> None]
  /\ visited = {}
  /\ stack_nodes = <<s>>

HopInit ==
  /\ edges \in {parseFile(links) : links \in Surveys}
  /\ \E s \in Vertex : StartAt(s)

Farther_AnyNeighbor(u) == neighbors(u)

Farther_OnlyLonger(u) == {v \in neighbors(u) : metric[v] > metric[u] + 1}

Farther(u) == {v \in neighbors(u) : metric[v] = -1 \/ metric[v] > metric[u] + 1}

(* What is left to visit after the head, and what its visit found.         *)
Requeue_OnTop(found) == found \o Tail(stack_nodes)

Requeue(found) == Tail(stack_nodes) \o found

Visit ==
  /\ stack_nodes # <<>>
  /\ LET u == Head(stack_nodes)
     IN  /\ visited' = visited \cup {u}
         /\ metric' = [v \in Vertex |->
                         IF v \in Farther(u) THEN metric[u] + 1 ELSE metric[v]]
         /\ parent' = [v \in Vertex |->
                         IF v \in Farther(u) THEN u ELSE parent[v]]
         /\ \E found \in SetToSeqs(neighbors(u) \ visited') :
              stack_nodes' = Requeue(found)
  /\ UNCHANGED <<edges, source>>

HopSpec == HopInit /\ [][Visit]_hopVars /\ WF_hopVars(Visit)

-----------------------------------------------------------------------------
(***************************************************************************)
(* Properties.                                                             *)
(***************************************************************************)

(* When the queue is empty every vertex that can be reached from the       *)
(* source carries its distance and was visited; the others carry nothing.  *)
HopsAreDistances ==
  stack_nodes = <<>> =>
    /\ visited = Reachable(Vertex, source)
    /\ \A v \in Vertex :
         metric[v] = IF v \in visited THEN Distance(source, v) ELSE Unset

(* What a step leaves of the hop counts already given: all of them.        *)
HopCountStands ==
  \A v \in Vertex : metric[v] # Unset => /\ metric'[v] = metric[v]
                                         /\ parent'[v] = parent[v]

(* The comparison metric > metric + 1 finds nothing to improve: a hop      *)
(* count is final when it is first given, in whatever order neighbours are *)
(* appended and however often a vertex is visited.                         *)
FirstHopCountStands == [][HopCountStands]_hopVars

(* The parents lead back to the source one hop at a time, at every moment. *)
ParentIsOneHopCloser ==
  \A v \in Vertex \ {source} :
    IF metric[v] = Unset
      THEN parent[v] = None
      ELSE /\ parent[v] \in neighbors(v)
           /\ metric[v] = metric[parent[v]] + 1
=============================================================================
