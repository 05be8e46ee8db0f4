--------------------------- MODULE MCCollectData ----------------------------
(***************************************************************************)
(* Small instances of CollectData for TLC.                                 *)
(***************************************************************************)
EXTENDS CollectDataSurvey

CONSTANTS k, a, b, f

(* One measuring node hears the other. *)
PairLinks == {<<a, b>>}
(* A measuring node in range of another one and of the sink. *)
ChainLinks == {<<a, b>>, <<a, k>>}
(* A measuring node and a node of another program in range of a.           *)
MixedLinks == {<<b, a>>, <<f, a>>}
=============================================================================
