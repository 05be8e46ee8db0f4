-------------------------- MODULE MCMeasuredTree ----------------------------
(***************************************************************************)
(* Small instances of MeasuredTree: four or five links of a field of four  *)
(* nodes, each good or bad.                                                *)
(***************************************************************************)
EXTENDS MeasuredTree

(* The columns of a link of quality q; etx_accumulator 0 is taken for 16.  *)
LineOf(q) == [total |-> 4, lost |-> 0, lqi |-> 37, rssi |-> -2 + q,
              etx |-> 2 - q, etx_accumulator |-> 8 * q, hops |-> 0]

NamesAll(links) == \A v \in Vertex : \E l \in links : v \in {l[1], l[2]}
Field == {<<1, 2>>, <<1, 3>>, <<2, 4>>, <<3, 4>>, <<2, 3>>, <<4, 1>>, <<4, 3>>}
FieldSurveys ==
  UNION {[links -> {LineOf(1), LineOf(2)}] : links \in
           {l \in kSubset(4, Field) \cup kSubset(5, Field) : NamesAll(l)}}
=============================================================================
