------------------------------- MODULE MCCds --------------------------------
(***************************************************************************)
(* Small instances of Cds: every survey of six nodes with six links, which *)
(* contains every tree with one more link and graphs of several parts.     *)
(***************************************************************************)
EXTENDS Cds
LOCAL INSTANCE FiniteSetsExt

OneWayPairs == {l \in Vertex \X Vertex : l[1] < l[2]}
SixLinks ==
  {links \in kSubset(6, OneWayPairs) :
     \A v \in Vertex : \E l \in links : v \in {l[1], l[2]}}
MinusOne == -1
=============================================================================
