---------------------------- MODULE MCNeighbors -----------------------------
(***************************************************************************)
(* A small instance of Neighbors: a and b hear each other, and a hears c,  *)
(* for which its table may have no room.                                   *)
(***************************************************************************)
EXTENDS Neighbors

CONSTANTS a, b, c

ThreeLinks == {<<a, b>>, <<b, a>>, <<c, a>>}
=============================================================================
