------------------------------ MODULE HopGraph ------------------------------
(***************************************************************************)
(* The graph that cds.py and sink_selection.py build from the lines the    *)
(* sink printed, and the reference notions they are measured against:      *)
(* distance, reachability and connectedness.                               *)
(*                                                                         *)
(* A vertex is the number hi*256 + lo of a Rime address.  0 is not an      *)
(* address of a node, and cds.py uses it for "no vertex".                  *)
(***************************************************************************)
EXTENDS Integers, FiniteSets, Sequences

CONSTANTS
  Vertex,     \* the nodes named by the lines
  Surveys     \* the sets of links <<from, to>> a survey may have printed

Pairs == {l \in Vertex \X Vertex : l[1] # l[2]}

(* The graph gets its vertices from the links alone: none is isolated. *)
ASSUME GraphAssumption ==
  /\ Vertex \subseteq Nat \ {0}
  /\ IsFiniteSet(Vertex)
  /\ Surveys \subseteq SUBSET Pairs
  /\ \A links \in Surveys : \A v \in Vertex : \E l \in links : v \in {l[1], l[2]}

VARIABLE edges        \* the arcs of the DiGraph

(* A link heard in one direction counts in both. *)
parseFile(links) == links \cup {<<l[2], l[1]>> : l \in links}

neighbors(v) == {w \in Vertex : <<v, w>> \in edges}

degree(v) == Cardinality(neighbors(v))

-----------------------------------------------------------------------------
(* The vertices at most i hops away from s over vertices of S. *)
Ball(S, s) ==
  LET ball[i \in 0 .. Cardinality(S)] ==
        IF i = 0 THEN {s}
        ELSE LET near == ball[i - 1]
             IN  near \cup (S \cap UNION {neighbors(v) : v \in near})
  IN  ball

Reachable(S, s) == Ball(S, s)[Cardinality(S)]

(* The hops between s and a vertex that can be reached from it. *)
Distance(s, v) ==
  LET ball == Ball(Vertex, s)
  IN  CHOOSE i \in DOMAIN ball : v \in ball[i] /\ \A j \in 0 .. i - 1 : v \notin ball[j]

Connected(S) == \A s \in S : Reachable(S, s) = S

(* Every vertex of R outside S has at least m neighbours in S. *)
Dominates(S, R, m) == \A v \in R \ S : Cardinality(neighbors(v) \cap S) >= m
=============================================================================
