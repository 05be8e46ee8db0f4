------------------------------- MODULE MCIcga -------------------------------
(***************************************************************************)
(* Small instances of Icga: every survey of five nodes; and two triangles  *)
(* with a node between them.                                               *)
(***************************************************************************)
EXTENDS Icga

AllSurveys ==
  {links \in SUBSET {l \in Vertex \X Vertex : l[1] < l[2]} :
     \A v \in Vertex : \E l \in links : v \in {l[1], l[2]}}

TwoTriangles ==
  {{<<2, 3>>, <<3, 4>>, <<2, 4>>, <<4, 1>>, <<1, 5>>, <<5, 6>>, <<6, 7>>, <<5, 7>>}}
MinusOne == -1
=============================================================================
