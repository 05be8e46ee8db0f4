-------------------------------- MODULE Cds ---------------------------------
(***************************************************************************)
(* cds_bd_c2 of cds.py: a connected dominating set of the printed graph.   *)
(*                                                                         *)
(* After count_hops has labelled the vertices with their distance from a   *)
(* leader, hop by hop the heaviest white vertex turns black and its white  *)
(* neighbours gray; then, hop by hop again, a black vertex without a black *)
(* neighbour nearer to the leader gets the heaviest one there.             *)
(*                                                                         *)
(* One step is one turn of the innermost loop.  The leader is              *)
(* g.nodes()[0], any vertex: it is the source of HopCount.  The order in   *)
(* which the vertices of a hop are connected is that of a dictionary and   *)
(* is arbitrary here too.                                                  *)
(***************************************************************************)
EXTENDS HopCount

ASSUME CdsAssumption == Unset = -1

VARIABLES
  phase,
  color,
  hop,           \* the loop variable of both loops over the hops
  todo           \* the black vertices of the hop still to be connected

cdsVars == <<hopVars, phase, color, hop, todo>>

White == 0
Gray == 1
Black == 2

Colored(c) == {v \in Vertex : color[v] = c}
AtHop(i) == {v \in Vertex : metric[v] = i}

CdsTypeOK ==
  /\ HopTypeOK
  /\ phase \in {"hops", "mis", "connect", "done"}
  /\ color \in [Vertex -> {White, Gray, Black}]
  /\ hop \in 0 .. Cardinality(Vertex)
  /\ todo \in SUBSET Vertex

(* The heavier vertex has more neighbours or, at equality, the larger id;  *)
(* the energies ex and ey are always 1.                                    *)
Heavier(v, w) == \/ degree(v) > degree(w)
                 \/ degree(v) = degree(w) /\ v > w

max_weight_node(S) ==
  IF S = {} THEN None ELSE CHOOSE v \in S : \A w \in S \ {v} : Heavier(v, w)

maxHop == CHOOSE i \in {metric[v] : v \in Vertex} : \A v \in Vertex : metric[v] <= i

-----------------------------------------------------------------------------
(* The labels before count_hops; 'visited' is not among those it resets.   *)
ResetLabels(leader) ==
  /\ metric' = [v \in Vertex |-> IF v = leader THEN 0 ELSE Unset]
  /\ parent' = [parent EXCEPT ![leader] = None]
  /\ stack_nodes' = <<leader>>
  /\ color' = [v \in Vertex |-> White]
  /\ phase' = "hops"

CdsInit ==
  /\ HopInit
  /\ phase = "hops"
  /\ color = [v \in Vertex |-> White]
  /\ hop = 0
  /\ todo = {}

CountHops ==
  /\ phase = "hops"
  /\ Visit
  /\ UNCHANGED <<phase, color, hop, todo>>

HopsCounted ==
  /\ phase = "hops" /\ stack_nodes = <<>>
  /\ phase' = "mis"
  /\ hop' = 0
  /\ UNCHANGED <<hopVars, color, todo>>

(* The shortcut for a hop with a single vertex does the same.              *)
ColorBlack_OnlyItself ==
  /\ phase = "mis"
  /\ LET v == max_weight_node(AtHop(hop) \cap Colored(White))
     IN  /\ v # None
         /\ color' = [color EXCEPT ![v] = Black]
  /\ UNCHANGED <<hopVars, phase, hop, todo>>

ColorBlack_OnlyNeighbors ==
  /\ phase = "mis"
  /\ LET v == max_weight_node(AtHop(hop) \cap Colored(White))
     IN  /\ v # None
         /\ color' = [w \in Vertex |->
              IF w \in neighbors(v) \cap Colored(White) THEN Gray ELSE color[w]]
  /\ UNCHANGED <<hopVars, phase, hop, todo>>

ColorBlack ==
  /\ phase = "mis"
  /\ LET v == max_weight_node(AtHop(hop) \cap Colored(White))
     IN  /\ v # None
         /\ color' = [w \in Vertex |->
              IF w = v THEN Black
              ELSE IF w \in neighbors(v) \cap Colored(White) THEN Gray
              ELSE color[w]]
  /\ UNCHANGED <<hopVars, phase, hop, todo>>

NextMisHop ==
  /\ phase = "mis"
  /\ AtHop(hop) \cap Colored(White) = {}
  /\ IF hop < maxHop
       THEN hop' = hop + 1 /\ UNCHANGED <<phase, todo>>
       ELSE /\ hop' = 1
            /\ phase' = "connect"
            /\ todo' = AtHop(1) \cap Colored(Black)
  /\ UNCHANGED <<hopVars, color>>

BlackNearer(v) == neighbors(v) \cap AtHop(hop - 1) \cap Colored(Black)
Connectors_White(v) == neighbors(v) \cap AtHop(hop - 1) \cap Colored(White)

Connectors(v) == (neighbors(v) \cap AtHop(hop - 1)) \ Colored(Black)

(* Without a connector the program warns that the graph is directional.    *)
Connect(v) ==
  /\ phase = "connect" /\ v \in todo
  /\ color' = IF BlackNearer(v) # {} \/ Connectors(v) = {} THEN color
              ELSE [color EXCEPT ![max_weight_node(Connectors(v))] = Black]
  /\ todo' = todo \ {v}
  /\ UNCHANGED <<hopVars, phase, hop>>

NextConnectHop_StopsShort ==
  /\ phase = "connect" /\ todo = {}
  /\ IF hop + 1 < maxHop
       THEN /\ hop' = hop + 1
            /\ todo' = AtHop(hop + 1) \cap Colored(Black)
            /\ UNCHANGED phase
       ELSE phase' = "done" /\ UNCHANGED <<hop, todo>>
  /\ UNCHANGED <<hopVars, color>>

NextConnectHop ==
  /\ phase = "connect" /\ todo = {}
  /\ IF hop < maxHop
       THEN /\ hop' = hop + 1
            /\ todo' = AtHop(hop + 1) \cap Colored(Black)
            /\ UNCHANGED phase
       ELSE phase' = "done" /\ UNCHANGED <<hop, todo>>
  /\ UNCHANGED <<hopVars, color>>

CdsStep ==
  \/ CountHops
  \/ HopsCounted
  \/ ColorBlack
  \/ NextMisHop
  \/ \E v \in Vertex : Connect(v)
  \/ NextConnectHop

CdsSpec == CdsInit /\ [][CdsStep]_cdsVars /\ WF_cdsVars(CdsStep)

-----------------------------------------------------------------------------
(***************************************************************************)
(* Properties.                                                             *)
(***************************************************************************)

(* While the set grows hop by hop no two black vertices are neighbours;    *)
(* and a gray vertex has a black neighbour, at all times.                  *)
MisIsIndependent ==
  /\ phase = "mis" =>
       \A v \in Colored(Black) : neighbors(v) \cap Colored(Black) = {}
  /\ \A v \in Colored(Gray) : neighbors(v) \cap Colored(Black) # {}

(* A white vertex of the hops already coloured does not exist, so that a   *)
(* connector is gray and the warning about a directional graph never       *)
(* appears.                                                                *)
ConnectorExists ==
  phase = "connect" => \A v \in todo : BlackNearer(v) \cup Connectors(v) # {}

(* The result dominates what the leader can reach, and is connected,       *)
(* although a connector is chosen by its weight and never connected to the *)
(* hop before its own.                                                     *)
SetIsBackbone ==
  phase = "done" => /\ Dominates(Colored(Black), Reachable(Vertex, source), 1)
                    /\ Connected(Colored(Black))

(* The construction ends.                                                  *)
ConstructionEnds == <>(phase = "done")
=============================================================================
