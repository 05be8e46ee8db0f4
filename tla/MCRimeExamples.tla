--------------------------- MODULE MCRimeExamples ---------------------------
(***************************************************************************)
(* Small instances of the five examples.  The fairness that a liveness     *)
(* property needs is its hypothesis.                                       *)
(***************************************************************************)
EXTENDS RimeExamples

CONSTANTS a, b, c, k, s1, s2, x, y

(* example-collect.c: a and b are in range of each other, the sink of a.   *)
MeasuredLinks == {<<a, b>>, <<b, a>>, <<a, k>>}

(* example-multihop.c: a, b and the final receiver k are a chain; c is     *)
(* heard by b and hears nobody.                                            *)
OneWayLinks == {<<a, b>>, <<b, a>>, <<b, k>>, <<k, b>>, <<c, b>>}
=============================================================================
