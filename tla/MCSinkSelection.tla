-------------------------- MODULE MCSinkSelection ---------------------------
(***************************************************************************)
(* Small instances of SinkSelection: every survey of five nodes with at    *)
(* most four links: the trees, and a pair of nodes apart from the others.  *)
(***************************************************************************)
EXTENDS SinkSelection

SparseSurveys ==
  {links \in SUBSET {l \in Vertex \X Vertex : l[1] < l[2]} :
     /\ Cardinality(links) <= 4
     /\ \A v \in Vertex : \E l \in links : v \in {l[1], l[2]}}
=============================================================================
