----------------------------- MODULE LinkSurvey -----------------------------
(***************************************************************************)
(* What the measurement promises, without tables, ids, rounds or frames:   *)
(* a node remembers exactly the neighbours it has heard since its last     *)
(* report, a report carries exactly those, and the sink prints a link only *)
(* out of such a report.                                                   *)
(***************************************************************************)
CONSTANTS Node, Sink, Links

VARIABLES
  known,       \* the neighbours a node has heard since its last report
  inflight,    \* reports on their way
  printed      \* links the sink has printed

vars == <<known, inflight, printed>>

Init ==
  /\ known = [n \in Node |-> {}]
  /\ inflight = {}
  /\ printed = {}

(* A broadcast of s is heard by some of the nodes in range. *)
Hear(s, R) ==
  /\ R \subseteq {r \in Node : <<s, r>> \in Links}
  /\ known' = [r \in Node |-> IF r \in R THEN known[r] \cup {s} ELSE known[r]]
  /\ UNCHANGED <<inflight, printed>>

Report(n) ==
  /\ n # Sink
  /\ inflight' = inflight \cup {[originator |-> n, senders |-> known[n]]}
  /\ known' = [known EXCEPT ![n] = {}]
  /\ UNCHANGED printed

(* The sink prints a report; another copy of it may still be on its way. *)
Arrive(rep) ==
  /\ printed' = printed \cup (rep.senders \X {rep.originator})
  /\ inflight' \in {inflight, inflight \ {rep}}
  /\ UNCHANGED known

Lose(rep) ==
  /\ inflight' = inflight \ {rep}
  /\ UNCHANGED <<known, printed>>

(* A restarted node has heard nobody. *)
Forget(n) ==
  /\ known' = [known EXCEPT ![n] = {}]
  /\ UNCHANGED <<inflight, printed>>

Next ==
  \/ \E s \in Node : \E R \in SUBSET Node : Hear(s, R)
  \/ \E n \in Node : Report(n) \/ Forget(n)
  \/ \E rep \in inflight : Arrive(rep) \/ Lose(rep)

Spec == Init /\ [][Next]_vars

(* Every printed link exists, and none leads to the sink: nothing is       *)
(* invented between the radio and the serial line, and the links into the  *)
(* sink, which ends its process without a report, are never measured.      *)
OnlyRealLinks ==
  /\ printed \subseteq Links
  /\ \A l \in printed : l[2] # Sink
  /\ \A rep \in inflight : /\ rep.originator # Sink
                           /\ rep.senders \X {rep.originator} \subseteq Links
  /\ \A n \in Node : known[n] \X {n} \subseteq Links
=============================================================================
