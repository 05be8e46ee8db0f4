---------------------------- MODULE RimeExamples -----------------------------
(***************************************************************************)
(* The examples under rime/ together.  All motes of a testbed are flashed  *)
(* with one program, so one of the five runs.                              *)
(***************************************************************************)
EXTENDS ExampleCollect, Runicast, Multihop, Rudolph, Rucb

VARIABLE program

programVars == <<vars, runicastVars, multihopVars, rudolphVars, rucbVars>>

(* The image only tells the programs of rudolph apart.                     *)
RimeInit ==
  /\ program \in {"collect", "runicast", "multihop", "rudolph", "rucb"}
  /\ Init /\ RunicastInit /\ MultihopInit /\ RudolphInit /\ RucbInit
  /\ program # "rudolph" => image = "rudolph0"

RimeNext ==
  /\ UNCHANGED program
  /\ \/ /\ program = "collect" /\ Next
        /\ UNCHANGED <<runicastVars, multihopVars, rudolphVars, rucbVars>>
     \/ /\ program = "runicast" /\ RunicastNext
        /\ UNCHANGED <<vars, multihopVars, rudolphVars, rucbVars>>
     \/ /\ program = "multihop" /\ MultihopNext
        /\ UNCHANGED <<vars, runicastVars, rudolphVars, rucbVars>>
     \/ /\ program = "rudolph" /\ RudolphNext
        /\ UNCHANGED <<vars, runicastVars, multihopVars, rucbVars>>
     \/ /\ program = "rucb" /\ RucbNext
        /\ UNCHANGED <<vars, runicastVars, multihopVars, rudolphVars>>

RimeSpec == RimeInit /\ [][RimeNext]_<<program, programVars>>

(* Every variable of the five programs keeps its type: no table outgrows   *)
(* its pool and no counter leaves its width.                               *)
RimeTypeOK ==
  /\ ExampleTypeOK /\ RunicastTypeOK /\ MultihopTypeOK
  /\ RudolphTypeOK /\ RucbTypeOK
=============================================================================
