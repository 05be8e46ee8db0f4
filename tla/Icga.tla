-------------------------------- MODULE Icga --------------------------------
(***************************************************************************)
(* The main program of cds.py: cds_bd_c2 on the printed graph, the colours *)
(* reset, then icga(g, 2, 1) on the same graph object.                     *)
(*                                                                         *)
(* icga runs cds_bd_c2 once more and goes on from its colours.  The second *)
(* run starts with the attributes the first one left: count_hops finds     *)
(* every vertex visited.                                                   *)
(***************************************************************************)
EXTENDS Cds

CONSTANTS
  K, M          \* the arguments k and m of icga

ASSUME IcgaAssumption == K \in Nat \ {0} /\ M \in Nat \ {0}

VARIABLES
  stage,        \* "cds": the first call of cds_bd_c2; "icga": the second,
                \* inside icga; "dominate", "k": the loops of icga; "end"
  level         \* the i of the last loop of icga

icgaVars == <<cdsVars, stage, level>>

Stages == {"cds", "icga", "dominate", "k", "warned", "end"}

IcgaTypeOK ==
  /\ CdsTypeOK
  /\ stage \in Stages
  /\ level \in 1 .. K + 1

IcgaInit == CdsInit /\ stage = "cds" /\ level = 1

BuildSet ==
  /\ stage \in {"cds", "icga"}
  /\ CdsStep
  /\ UNCHANGED <<stage, level>>

CallIcga ==
  /\ stage = "cds" /\ phase = "done"
  /\ stage' = "icga"
  /\ ResetLabels(source)
  /\ UNCHANGED <<edges, source, visited, hop, todo, level>>

(* The gray vertices turn white. *)
KeepBlack ==
  /\ stage = "icga" /\ phase = "done"
  /\ stage' = "dominate"
  /\ visited' = {}
  /\ color' = [v \in Vertex |-> IF color[v] = Black THEN Black ELSE White]
  /\ UNCHANGED <<edges, source, metric, parent, stack_nodes, phase, hop, todo,
                 level>>

BlackNeighbors(v) == neighbors(v) \cap Colored(Black)
WhiteNeighbors(v) == neighbors(v) \cap Colored(White)

Undominated_OneTooFew == {v \in Colored(White) : Cardinality(BlackNeighbors(v)) < M - 1}

Undominated == {v \in Colored(White) : Cardinality(BlackNeighbors(v)) < M}

(* max compares the lists of white neighbours element by element, in the   *)
(* order of the adjacency dictionary, and the ids when the lists are       *)
(* equal.  With the order arbitrary, v may come out as the maximum unless  *)
(* every order of another list is larger.                                  *)
MayBeMax(v, w) ==
  LET V == WhiteNeighbors(v)
      W == WhiteNeighbors(w)
  IN  IF V = {} THEN W = {} /\ v >= w
      ELSE \E x \in V : W = {} \/ \E y \in W : x >= y

DominateMore ==
  /\ stage = "dominate"
  /\ \E v \in Undominated :
       /\ \A w \in Undominated \ {v} : MayBeMax(v, w)
       /\ color' = [color EXCEPT ![v] = Black]
  /\ UNCHANGED <<hopVars, phase, hop, todo, stage, level>>

AllDominated ==
  /\ stage = "dominate" /\ Undominated = {}
  /\ stage' = "k"
  /\ UNCHANGED <<cdsVars, level>>

(* A vertex with fewer than i black neighbours is excused when it has no   *)
(* other neighbours.                                                       *)
is_k_connected_NoExcuse(S, i) == \A v \in S : Cardinality(BlackNeighbors(v)) >= i

is_k_connected(S, i) ==
  \A v \in S : \/ Cardinality(BlackNeighbors(v)) >= i
               \/ neighbors(v) \subseteq Colored(Black)

AddHeaviest ==
  /\ stage = "k" /\ level <= K
  /\ ~is_k_connected(Colored(Black), level)
  /\ LET v == max_weight_node(Colored(White))
     IN  IF v = None
           THEN stage' = "warned" /\ UNCHANGED color
           ELSE color' = [color EXCEPT ![v] = Black] /\ UNCHANGED stage
  /\ UNCHANGED <<hopVars, phase, hop, todo, level>>

NextLevel_NoLimit ==
  /\ stage = "k"
  /\ is_k_connected(Colored(Black), level)
  /\ level' = level + 1
  /\ UNCHANGED <<cdsVars, stage>>

NextLevel ==
  /\ stage = "k" /\ level <= K
  /\ is_k_connected(Colored(Black), level)
  /\ level' = level + 1
  /\ UNCHANGED <<cdsVars, stage>>

Finish ==
  /\ stage = "k" /\ level > K
  /\ stage' = "end"
  /\ UNCHANGED <<cdsVars, level>>

IcgaStep ==
  \/ BuildSet
  \/ CallIcga
  \/ KeepBlack
  \/ DominateMore
  \/ AllDominated
  \/ AddHeaviest
  \/ NextLevel
  \/ Finish

IcgaSpec == IcgaInit /\ [][IcgaStep]_icgaVars /\ WF_icgaVars(IcgaStep)

-----------------------------------------------------------------------------
(***************************************************************************)
(* Properties.                                                             *)
(***************************************************************************)

(* From the domination loop on, every vertex outside the set has M         *)
(* neighbours in it, whatever the second run of cds_bd_c2 left behind.     *)
EveryNodeDominated ==
  stage \in {"k", "end"} => Dominates(Colored(Black), Vertex, M)

(* The program ends, and never for want of a white vertex.                 *)
IcgaEnds == <>(stage = "end")

(* The set is connected within each part of the graph. *)
BackboneConnected ==
  stage = "end" => \A s \in Colored(Black) :
     Reachable(Colored(Black), s) = Colored(Black) \cap Reachable(Vertex, s)
=============================================================================
