----------------------------- MODULE RimeProofs ------------------------------
(***************************************************************************)
(* Theorems about the examples under rime/, one part per program, and      *)
(* about the five of them together.                                        *)
(***************************************************************************)
EXTENDS RimeExamples, FiniteSetTheorems, SequenceTheorems, TLAPS

-----------------------------------------------------------------------------
(***************************************************************************)
(* Theorems about ExampleCollect: a pair of neighbours is measured once,   *)
(* and a report is complete, for every network, every order of the random  *)
(* instants and every number of restarts.                                  *)
(***************************************************************************)

(* The types the proofs need.  The limit of a record is not among them.    *)
RecordInv ==
  /\ pc \in [Node -> {"open", "settle", "jitter", "ended"}]
  /\ outbox \in SUBSET Node
  /\ packets \in [Node -> Seq(Node)]
  /\ reports \in SUBSET Report
  /\ restarted \in Seq(Node)

(* A node that sends has closed its connection, and so has a node that was *)
(* heard, unless it restarted.                                             *)
ClosedInv ==
  /\ \A s \in outbox : pc[s] # "open"
  /\ \A r, s \in Node : Steady(s) /\ s \in Recorded(r) => pc[s] # "open"

(* A node with a report on its way has ended, unless it restarted. *)
EndedInv ==
  \A rep \in reports : Steady(rep.originator) => pc[rep.originator] = "ended"

CollectIInv == RecordInv /\ ClosedInv /\ EndedInv /\ PairMeasuredOnce /\ ReportIsComplete

-----------------------------------------------------------------------------
(* What a record becomes when a frame is heard. *)
LEMMA RecordHeard ==
  ASSUME NEW from \in Node, NEW r \in Node, packets[r] \in Seq(Node)
  PROVE  LET after == broadcast_recv(r, from)
         IN  /\ after \in Seq(Node)
             /\ {after[i] : i \in DOMAIN after} \subseteq Recorded(r) \cup {from}
<1>1. CASE Len(packets[r]) < MAX_PACKETS
  <2>1. broadcast_recv(r, from) = Append(packets[r], from)
    BY <1>1 DEF broadcast_recv
  <2> QED  BY <2>1 DEF Recorded
<1>2. CASE ~(Len(packets[r]) < MAX_PACKETS)
  BY <1>2 DEF broadcast_recv, Recorded
<1> QED  BY <1>1, <1>2

(* A restart leaves every other node as steady as it was, and not its own. *)
LEMMA RestartSteady ==
  ASSUME RecordInv, NEW n \in Node, Reboot(n), NEW m \in Node, Steady(m)'
  PROVE  m # n /\ Steady(m)
<1>1. restarted \in Seq(Node) /\ restarted' = Append(restarted, n)
  BY DEF RecordInv, Reboot
<1>2. Len(restarted) + 1 \in DOMAIN restarted' /\ restarted'[Len(restarted) + 1] = n
  BY <1>1
<1>3. \A i \in DOMAIN restarted : i \in DOMAIN restarted' /\ restarted'[i] = restarted[i]
  BY <1>1
<1> QED  BY <1>2, <1>3 DEF Steady

LEMMA CollectInit == Init => CollectIInv
<1> SUFFICES ASSUME Init PROVE CollectIInv
  OBVIOUS
<1>1. RecordInv
  BY DEF Init, RecordInv
<1>2. \A r \in Node : Recorded(r) = {}
  BY DEF Init, Recorded
<1> QED  BY <1>1, <1>2 DEF Init, CollectIInv, ClosedInv, EndedInv, PairMeasuredOnce, ReportIsComplete

(* A process that goes on without a report keeps everything in place. *)
LEMMA ProcessStep ==
  ASSUME CollectIInv, NEW n \in Node, Broadcast(n) \/ SetJitter(n) \/ WakeEarly(n)
  PROVE  CollectIInv'
<1>1. /\ pc[n] # "ended"
      /\ pc'[n] # "open" /\ \A m \in Node \ {n} : pc'[m] = pc[m]
      /\ outbox' \subseteq outbox \cup {n}
      /\ UNCHANGED <<packets, reports, restarted>>
  BY DEF CollectIInv, RecordInv, Broadcast, SetJitter, WakeEarly
<1>2. RecordInv'
  BY <1>1 DEF CollectIInv, RecordInv, Broadcast, SetJitter, WakeEarly
<1>3. \A m \in Node : Steady(m)' = Steady(m) /\ Recorded(m)' = Recorded(m)
  BY <1>1 DEF Steady, Recorded
<1>4. ClosedInv'
  BY <1>1, <1>2, <1>3 DEF CollectIInv, ClosedInv, RecordInv
<1>5. EndedInv' /\ ReportIsComplete'
  BY <1>1, <1>3 DEF CollectIInv, RecordInv, Report, EndedInv, ReportIsComplete
<1>6. PairMeasuredOnce'
  BY <1>3 DEF CollectIInv, PairMeasuredOnce
<1> QED  BY <1>2, <1>4, <1>5, <1>6 DEF CollectIInv

(* The report that is made is the record. *)
LEMMA SendStep ==
  ASSUME CollectIInv, NEW n \in Node, Send(n)
  PROVE  CollectIInv'
<1> DEFINE rep == [originator |-> n, heard |-> packets[n]]
<1>1. /\ pc'[n] = "ended" /\ \A m \in Node \ {n} : pc'[m] = pc[m]
      /\ reports' \subseteq reports \cup {rep}
      /\ UNCHANGED <<outbox, packets, restarted>>
  BY DEF CollectIInv, RecordInv, Send
<1>2. rep \in Report
  BY DEF CollectIInv, RecordInv, Report
<1>3. RecordInv'
  BY <1>1, <1>2 DEF CollectIInv, RecordInv, Send
<1>4. \A m \in Node : Steady(m)' = Steady(m) /\ Recorded(m)' = Recorded(m)
  BY <1>1 DEF Steady, Recorded
<1>5. ClosedInv'
  BY <1>1, <1>3, <1>4 DEF CollectIInv, ClosedInv, RecordInv
<1>6. EndedInv'
  BY <1>1, <1>4 DEF CollectIInv, RecordInv, Report, EndedInv
<1>7. ReportIsComplete'
  <2>1. Recorded(n) = {rep.heard[i] : i \in DOMAIN rep.heard}
    BY DEF Recorded
  <2>2. \A q \in reports' : q.originator \in Node
    BY <1>3 DEF RecordInv, Report
  <2>3. ASSUME NEW q \in reports', Steady(q.originator)
        PROVE  Recorded(q.originator) = {q.heard[i] : i \in DOMAIN q.heard}
    BY <1>1, <2>1, <2>3 DEF CollectIInv, ReportIsComplete
  <2> QED  BY <1>4, <2>2, <2>3 DEF ReportIsComplete
<1>8. PairMeasuredOnce'
  BY <1>4 DEF CollectIInv, PairMeasuredOnce
<1> QED  BY <1>3, <1>5, <1>6, <1>7, <1>8 DEF CollectIInv

(* The heart of it: a node that hears is open, so it has not sent, so the  *)
(* sender has not recorded it; and it has not reported.                    *)
LEMMA TransmitStep ==
  ASSUME CollectIInv, NEW s \in Node, NEW R \in SUBSET Node, Transmit(s, R)
  PROVE  CollectIInv'
<1>1. /\ s \in outbox
      /\ R \subseteq {r \in Node : pc[r] = "open"}
      /\ UNCHANGED <<pc, reports, restarted>>
      /\ outbox' \subseteq outbox
  BY DEF Transmit, Hearers
<1>2. \A r \in Node : packets[r] \in Seq(Node)
  BY DEF CollectIInv, RecordInv
<1>3. \A r \in Node : Recorded(r)' \subseteq IF r \in R THEN Recorded(r) \cup {s}
                                             ELSE Recorded(r)
  <2> SUFFICES ASSUME NEW r \in Node
               PROVE  Recorded(r)' \subseteq IF r \in R THEN Recorded(r) \cup {s}
                                             ELSE Recorded(r)
    OBVIOUS
  <2>1. packets'[r] = IF r \in R THEN broadcast_recv(r, s) ELSE packets[r]
    BY DEF Transmit
  <2>2. Recorded(r)' = {packets'[r][i] : i \in DOMAIN packets'[r]}
    BY DEF Recorded
  <2>3. CASE r \in R
    BY <1>2, <2>1, <2>2, <2>3, RecordHeard
  <2>4. CASE r \notin R
    BY <2>1, <2>4 DEF Recorded
  <2> QED  BY <2>3, <2>4
<1>4. \A r \in Node \ R : Recorded(r)' = Recorded(r)
  BY DEF Transmit, Recorded
<1>5. \A m \in Node : Steady(m)' = Steady(m)
  BY <1>1 DEF Steady
<1>6. pc[s] # "open"
  BY <1>1 DEF CollectIInv, ClosedInv
<1>7. RecordInv'
  <2>1. \A r \in Node : broadcast_recv(r, s) \in Seq(Node)
    BY <1>2, RecordHeard
  <2>2. packets' \in [Node -> Seq(Node)]
    BY <1>2, <2>1 DEF Transmit
  <2> QED  BY <1>1, <2>2 DEF CollectIInv, RecordInv
<1>8. ClosedInv'
  <2>1. \A q \in outbox' : pc'[q] # "open"
    BY <1>1 DEF CollectIInv, ClosedInv
  <2>2. ASSUME NEW r \in Node, NEW q \in Node, Steady(q)', q \in Recorded(r)'
        PROVE  pc'[q] # "open"
    <3>1. q \in Recorded(r) \/ q = s
      BY <1>3, <2>2
    <3> QED  BY <1>1, <1>5, <1>6, <2>2, <3>1 DEF CollectIInv, ClosedInv
  <2> QED  BY <2>1, <2>2 DEF ClosedInv
<1>9. PairMeasuredOnce'
  <2> SUFFICES ASSUME NEW r \in Node, NEW q \in Node, Steady(r)', Steady(q)',
                      q \in Recorded(r)', r \in Recorded(q)'
               PROVE  FALSE
    BY DEF PairMeasuredOnce
  <2>1. Steady(r) /\ Steady(q)
    BY <1>5
  <2>2. ~(q \in Recorded(r) /\ r \in Recorded(q))
    BY <2>1 DEF CollectIInv, PairMeasuredOnce
  <2>3. CASE q \notin Recorded(r)
    <3>1. q = s /\ r \in R
      BY <1>3, <2>3
    <3>2. pc[r] = "open" /\ q \notin R
      BY <1>1, <1>6, <3>1
    <3>3. r \in Recorded(q)
      BY <1>4, <3>2
    <3> QED  BY <2>1, <3>2, <3>3 DEF CollectIInv, ClosedInv
  <2>4. CASE r \notin Recorded(q)
    <3>1. r = s /\ q \in R
      BY <1>3, <2>4
    <3>2. pc[q] = "open" /\ r \notin R
      BY <1>1, <1>6, <3>1
    <3>3. q \in Recorded(r)
      BY <1>4, <3>2
    <3> QED  BY <2>1, <3>2, <3>3 DEF CollectIInv, ClosedInv
  <2> QED  BY <2>2, <2>3, <2>4
<1>10. EndedInv'
  BY <1>1, <1>5 DEF CollectIInv, RecordInv, Report, EndedInv
<1>11. ReportIsComplete'
  <2> SUFFICES ASSUME NEW rep \in reports', Steady(rep.originator)'
               PROVE  Recorded(rep.originator)' = {rep.heard[i] : i \in DOMAIN rep.heard}
    BY DEF ReportIsComplete
  <2>1. rep \in reports /\ rep.originator \in Node
    BY <1>1 DEF CollectIInv, RecordInv, Report
  <2>2. Steady(rep.originator)
    BY <1>5, <2>1
  <2>3. rep.originator \notin R
    BY <1>1, <2>1, <2>2 DEF CollectIInv, EndedInv
  <2> QED  BY <1>4, <2>1, <2>2, <2>3 DEF CollectIInv, ReportIsComplete
<1> QED  BY <1>7, <1>8, <1>9, <1>10, <1>11 DEF CollectIInv

(* A restart takes its node out of everything that is said of steady ones. *)
LEMMA RebootStep ==
  ASSUME CollectIInv, NEW n \in Node, Reboot(n)
  PROVE  CollectIInv'
<1>1. RecordInv
  BY DEF CollectIInv
<1>2. \A m \in Node : Steady(m)' => m # n /\ Steady(m)
  BY <1>1, RestartSteady
<1>3. /\ \A m \in Node \ {n} : pc'[m] = pc[m] /\ Recorded(m)' = Recorded(m)
      /\ Recorded(n)' = {}
      /\ outbox' = outbox \ {n}
      /\ UNCHANGED reports
  BY <1>1 DEF RecordInv, Reboot, Recorded
<1>4. RecordInv'
  BY <1>1 DEF RecordInv, Reboot
<1>5. ClosedInv'
  <2>1. \A q \in outbox' : pc'[q] # "open"
    BY <1>1, <1>3 DEF CollectIInv, ClosedInv, RecordInv
  <2>2. ASSUME NEW r \in Node, NEW q \in Node, Steady(q)', q \in Recorded(r)'
        PROVE  pc'[q] # "open"
    BY <1>2, <1>3, <2>2 DEF CollectIInv, ClosedInv
  <2> QED  BY <2>1, <2>2 DEF ClosedInv
<1>6. PairMeasuredOnce'
  BY <1>2, <1>3 DEF CollectIInv, PairMeasuredOnce
<1>7. EndedInv' /\ ReportIsComplete'
  <2>1. \A rep \in reports' : rep \in reports /\ rep.originator \in Node
    BY <1>1, <1>3 DEF RecordInv, Report
  <2> QED  BY <1>2, <1>3, <2>1 DEF CollectIInv, EndedInv, ReportIsComplete
<1> QED  BY <1>4, <1>5, <1>6, <1>7 DEF CollectIInv

LEMMA CollectStep == CollectIInv /\ [Next]_vars => CollectIInv'
<1> SUFFICES ASSUME CollectIInv, [Next]_vars PROVE CollectIInv'
  OBVIOUS
<1>1. ASSUME UNCHANGED <<pc, outbox, packets, restarted>>, reports' \subseteq reports
      PROVE  CollectIInv'
  <2>1. \A m \in Node : Steady(m)' = Steady(m) /\ Recorded(m)' = Recorded(m)
    BY <1>1 DEF Steady, Recorded
  <2>2. RecordInv'
    BY <1>1 DEF CollectIInv, RecordInv
  <2>3. ClosedInv' /\ PairMeasuredOnce'
    BY <1>1, <2>1 DEF CollectIInv, ClosedInv, PairMeasuredOnce
  <2>4. EndedInv' /\ ReportIsComplete'
    BY <1>1, <2>1, <2>2 DEF CollectIInv, RecordInv, Report, EndedInv, ReportIsComplete
  <2> QED  BY <2>2, <2>3, <2>4 DEF CollectIInv
<1>2. ASSUME NEW rep \in reports, Deliver(rep) \/ LoseReport(rep)
      PROVE  CollectIInv'
  BY <1>1, <1>2 DEF Deliver, LoseReport
<1>3. CASE UNCHANGED vars
  BY <1>1, <1>3 DEF vars
<1> QED
  BY <1>2, <1>3, ProcessStep, SendStep, TransmitStep, RebootStep DEF Next

(* A link is measured in one direction at most. *)
THEOREM PairTheorem == Spec => []PairMeasuredOnce
<1>1. CollectIInv => PairMeasuredOnce
  BY DEF CollectIInv
<1> QED  BY <1>1, CollectInit, CollectStep, PTL DEF Spec

(* A report says exactly what its node recorded in its life. *)
THEOREM ReportTheorem == Spec => []ReportIsComplete
<1>1. CollectIInv => ReportIsComplete
  BY DEF CollectIInv
<1> QED  BY <1>1, CollectInit, CollectStep, PTL DEF Spec

-----------------------------------------------------------------------------
(* A record is a sequence that fits into packets[128].                     *)
LEMMA RecordType ==
  ASSUME NEW p
  PROVE  p \in UNION {[1 .. m -> Node] : m \in 0 .. MAX_PACKETS} <=>
           p \in Seq(Node) /\ Len(p) <= MAX_PACKETS
<1>1. MAX_PACKETS \in Nat
  BY ExampleAssumption
<1>2. ASSUME p \in Seq(Node), Len(p) <= MAX_PACKETS
      PROVE  p \in UNION {[1 .. m -> Node] : m \in 0 .. MAX_PACKETS}
  <2>1. Len(p) \in 0 .. MAX_PACKETS /\ p \in [1 .. Len(p) -> Node]
    BY <1>1, <1>2
  <2> QED  BY <2>1
<1>3. ASSUME NEW m \in 0 .. MAX_PACKETS, p \in [1 .. m -> Node]
      PROVE  p \in Seq(Node) /\ Len(p) <= MAX_PACKETS
  <2>1. m \in Nat
    BY <1>1
  <2>2. p \in Seq(Node) /\ Len(p) = m
    BY <1>3, <2>1
  <2> QED  BY <1>1, <2>2
<1> QED  BY <1>2, <1>3

LEMMA LinesType ==
  ASSUME NEW rep \in Report
  PROVE  Lines(rep) \subseteq (Node \X Node) \cup {Stale}
<1>1. rep.originator \in Node /\ \A i \in DOMAIN rep.heard : rep.heard[i] \in Node
  BY DEF Report
<1> QED  BY <1>1 DEF Lines

LEMMA ExampleTypeInit == Init => ExampleTypeOK
<1> SUFFICES ASSUME Init PROVE ExampleTypeOK
  OBVIOUS
<1>1. <<>> \in Seq(Node) /\ Len(<<>>) = 0 /\ MAX_PACKETS \in Nat /\ MaxReboots \in Nat
  BY ExampleAssumption
<1>2. <<>> \in UNION {[1 .. m -> Node] : m \in 0 .. MAX_PACKETS}
  BY <1>1, RecordType
<1> QED  BY <1>1, <1>2 DEF Init, ExampleTypeOK

LEMMA ExampleTypeStep == ExampleTypeOK /\ [Next]_vars => ExampleTypeOK'
<1> SUFFICES ASSUME ExampleTypeOK, [Next]_vars PROVE ExampleTypeOK'
  OBVIOUS
<1>1. ASSUME NEW n \in Node, Broadcast(n) \/ SetJitter(n) \/ WakeEarly(n)
      PROVE  ExampleTypeOK'
  BY <1>1 DEF Broadcast, SetJitter, WakeEarly, ExampleTypeOK
<1>2. ASSUME NEW n \in Node, Send(n) PROVE ExampleTypeOK'
  <2> DEFINE rep == [originator |-> n, heard |-> packets[n]]
  <2>1. packets[n] \in Seq(Node)
    BY RecordType DEF ExampleTypeOK
  <2>2. rep \in Report
    BY <2>1 DEF Report
  <2>3. Lines(rep) \subseteq (Node \X Node) \cup {Stale}
    BY <2>2, LinesType
  <2>4. reports' \in SUBSET Report /\ printed' \in SUBSET ((Node \X Node) \cup {Stale})
    BY <1>2, <2>2, <2>3 DEF Send, ExampleTypeOK
  <2>5. pc' \in [Node -> {"open", "settle", "jitter", "ended"}]
        /\ UNCHANGED <<outbox, packets, restarted>>
    BY <1>2 DEF Send, ExampleTypeOK
  <2> QED  BY <2>4, <2>5 DEF ExampleTypeOK
<1>3. ASSUME NEW s \in Node, NEW R \in SUBSET Node, Transmit(s, R) PROVE ExampleTypeOK'
  <2>1. \A r \in Node : packets[r] \in Seq(Node) /\ Len(packets[r]) <= MAX_PACKETS
    BY RecordType DEF ExampleTypeOK
  <2>2. ASSUME NEW r \in Node
        PROVE  packets'[r] \in UNION {[1 .. m -> Node] : m \in 0 .. MAX_PACKETS}
    <3>1. packets'[r] = packets[r] \/ packets'[r] = broadcast_recv(r, s)
      BY <1>3 DEF Transmit
    <3>2. broadcast_recv(r, s) \in Seq(Node) /\ Len(broadcast_recv(r, s)) <= MAX_PACKETS
      BY <2>1, ExampleAssumption DEF broadcast_recv
    <3> QED  BY <2>1, <3>1, <3>2, RecordType
  <2>3. packets' \in [Node -> UNION {[1 .. m -> Node] : m \in 0 .. MAX_PACKETS}]
    BY <1>3, <2>2 DEF Transmit
  <2>4. outbox' \in SUBSET Node /\ UNCHANGED <<pc, reports, printed, restarted>>
    BY <1>3 DEF Transmit, ExampleTypeOK
  <2> QED  BY <2>3, <2>4 DEF ExampleTypeOK
<1>4. ASSUME NEW rep \in reports, Deliver(rep) \/ LoseReport(rep) PROVE ExampleTypeOK'
  <2>1. Lines(rep) \subseteq (Node \X Node) \cup {Stale}
    BY LinesType DEF ExampleTypeOK
  <2> QED  BY <1>4, <2>1 DEF Deliver, LoseReport, ExampleTypeOK
<1>5. ASSUME NEW n \in Node, Reboot(n) PROVE ExampleTypeOK'
  <2>1. restarted' \in Seq(Node) /\ Len(restarted') <= MaxReboots
    BY <1>5, ExampleAssumption DEF Reboot, ExampleTypeOK
  <2>2. <<>> \in UNION {[1 .. m -> Node] : m \in 0 .. MAX_PACKETS}
    <3>1. <<>> \in Seq(Node) /\ Len(<<>>) = 0 /\ MAX_PACKETS \in Nat
      BY ExampleAssumption
    <3> QED  BY <3>1, RecordType
  <2>3. packets' \in [Node -> UNION {[1 .. m -> Node] : m \in 0 .. MAX_PACKETS}]
    BY <1>5, <2>2 DEF Reboot, ExampleTypeOK
  <2>4. pc' \in [Node -> {"open", "settle", "jitter", "ended"}] /\ outbox' \in SUBSET Node
        /\ UNCHANGED <<reports, printed>>
    BY <1>5 DEF Reboot, ExampleTypeOK
  <2> QED  BY <2>1, <2>3, <2>4 DEF ExampleTypeOK
<1>6. CASE UNCHANGED vars
  BY <1>6 DEF vars, ExampleTypeOK
<1> QED  BY <1>1, <1>2, <1>3, <1>4, <1>5, <1>6 DEF Next

-----------------------------------------------------------------------------
(* A frame is heard once in a life of its sender: a record is no longer    *)
(* than there are nodes around that have sent, and restarts.               *)
Around(r) == {s \in Node : <<s, r>> \in Links}

Spent(r) == {s \in Around(r) : pc[s] # "open" /\ s \notin outbox}

CountInv ==
  /\ \A r \in Node : /\ Recorded(r) \subseteq Around(r)
                     /\ Len(packets[r]) <= Cardinality(Spent(r)) + Len(restarted)
  /\ \A rep \in reports :
       /\ \A i \in DOMAIN rep.heard : <<rep.heard[i], rep.originator>> \in Links
       /\ Len(rep.heard) <= Cardinality(Around(rep.originator)) + Len(restarted)

PrintInv == ExampleTypeOK /\ CollectIInv /\ CountInv /\ PrintedIsLink

LEMMA SpentCounts ==
  ASSUME NEW r \in Node
  PROVE  /\ IsFiniteSet(Around(r)) /\ Cardinality(Around(r)) \in Nat
         /\ IsFiniteSet(Spent(r)) /\ Cardinality(Spent(r)) \in Nat
         /\ Cardinality(Spent(r)) <= Cardinality(Around(r))
<1>1. IsFiniteSet(Node) /\ Around(r) \in SUBSET Node
  BY ExampleAssumption DEF Around
<1>2. IsFiniteSet(Around(r))
  BY <1>1, FS_Subset
<1>3. Spent(r) \in SUBSET Around(r)
  BY DEF Spent
<1>4. IsFiniteSet(Spent(r)) /\ Cardinality(Spent(r)) <= Cardinality(Around(r))
  BY <1>2, <1>3, FS_Subset
<1> QED  BY <1>2, <1>4, FS_CardinalityType

(* The lines of a report that is true to the links.                        *)
LEMMA LinesAreLinks ==
  ASSUME ExampleTypeOK, NEW rep \in Report,
         \A i \in DOMAIN rep.heard : <<rep.heard[i], rep.originator>> \in Links,
         Len(rep.heard) <= Cardinality(Around(rep.originator)) + Len(restarted)
  PROVE  \A line \in Lines(rep) :
           IF line = Stale
             THEN \E r \in Node : Cardinality({s \in Node : <<s, r>> \in Links})
                                   + Len(restarted) > ReportRoom
             ELSE <<line[2], line[1]>> \in Links
<1> DEFINE o == rep.originator
<1>1. o \in Node /\ rep.heard \in Seq(Node) /\ ReportRoom \in Nat /\ Len(restarted) \in Nat
  BY ExampleAssumption DEF Report, ExampleTypeOK
<1> SUFFICES ASSUME NEW i \in DOMAIN rep.heard, NEW line,
                    line = IF i <= ReportRoom THEN <<o, rep.heard[i]>> ELSE Stale
             PROVE  IF line = Stale
                      THEN \E r \in Node : Cardinality({s \in Node : <<s, r>> \in Links})
                                            + Len(restarted) > ReportRoom
                      ELSE <<line[2], line[1]>> \in Links
  BY DEF Lines
<1>2. CASE i <= ReportRoom
  <2>1. line = <<o, rep.heard[i]>> /\ line \in Node \X Node
    BY <1>1, <1>2
  <2>2. line # Stale
    BY <2>1, ExampleAssumption
  <2>3. line[2] = rep.heard[i] /\ line[1] = o
    BY <2>1
  <2> QED  BY <2>2, <2>3
<1>3. CASE ~(i <= ReportRoom)
  <2>1. i \in Nat /\ i <= Len(rep.heard)
    BY <1>1
  <2>2. Cardinality(Around(o)) \in Nat /\ Len(rep.heard) \in Nat
    BY <1>1, SpentCounts
  <2>3. Cardinality(Around(o)) + Len(restarted) > ReportRoom
    BY <1>1, <1>3, <2>1, <2>2
  <2> QED  BY <1>1, <1>3, <2>3 DEF Around
<1> QED  BY <1>2, <1>3

(* What was printed stays as true, as restarts are only added.             *)
LEMMA PrintedStill ==
  ASSUME ExampleTypeOK, ExampleTypeOK', PrintedIsLink, Len(restarted') >= Len(restarted),
         \A line \in printed' \ printed :
           IF line = Stale
             THEN \E r \in Node : Cardinality({s \in Node : <<s, r>> \in Links})
                                   + Len(restarted) > ReportRoom
             ELSE <<line[2], line[1]>> \in Links
  PROVE  PrintedIsLink'
<1>1. Len(restarted) \in Nat /\ Len(restarted') \in Nat /\ ReportRoom \in Nat
  BY ExampleAssumption DEF ExampleTypeOK
<1>2. ASSUME NEW line \in printed'
      PROVE  IF line = Stale
               THEN \E r \in Node : Cardinality({s \in Node : <<s, r>> \in Links})
                                     + Len(restarted) > ReportRoom
               ELSE <<line[2], line[1]>> \in Links
  BY DEF PrintedIsLink
<1>3. ASSUME NEW r \in Node,
             Cardinality({s \in Node : <<s, r>> \in Links}) + Len(restarted) > ReportRoom
      PROVE  Cardinality({s \in Node : <<s, r>> \in Links}) + Len(restarted') > ReportRoom
  <2>1. Cardinality(Around(r)) \in Nat
    BY SpentCounts
  <2>2. Cardinality({s \in Node : <<s, r>> \in Links}) \in Nat
    BY <2>1 DEF Around
  <2> QED  BY <1>1, <1>3, <2>2
<1> QED  BY <1>2, <1>3 DEF PrintedIsLink

LEMMA PrintInit == Init => PrintInv
<1> SUFFICES ASSUME Init PROVE PrintInv
  OBVIOUS
<1>1. ExampleTypeOK /\ CollectIInv
  BY ExampleTypeInit, CollectInit
<1>2. ASSUME NEW r \in Node
      PROVE  /\ Recorded(r) \subseteq Around(r)
             /\ Len(packets[r]) <= Cardinality(Spent(r)) + Len(restarted)
  <2>1. packets[r] = <<>> /\ restarted = <<>>
    BY DEF Init
  <2>2. Cardinality(Spent(r)) \in Nat
    BY SpentCounts
  <2> QED  BY <2>1, <2>2 DEF Recorded
<1> QED  BY <1>1, <1>2 DEF Init, PrintInv, CountInv, PrintedIsLink

(* Steps that hear nothing and report nothing new.                         *)
LEMMA QuietCount ==
  ASSUME PrintInv, ExampleTypeOK', CollectIInv', UNCHANGED <<packets, restarted>>,
         \A r \in Node : Spent(r) \subseteq Spent(r)', reports' \subseteq reports,
         \A line \in printed' \ printed :
           IF line = Stale
             THEN \E r \in Node : Cardinality({s \in Node : <<s, r>> \in Links})
                                   + Len(restarted) > ReportRoom
             ELSE <<line[2], line[1]>> \in Links
  PROVE  PrintInv'
<1>1. ExampleTypeOK /\ CountInv /\ PrintedIsLink /\ Len(restarted) \in Nat
  BY DEF PrintInv, ExampleTypeOK
<1>2. ASSUME NEW r \in Node
      PROVE  /\ Recorded(r)' \subseteq Around(r)
             /\ Len(packets'[r]) <= Cardinality(Spent(r)') + Len(restarted')
  <2>1. Recorded(r)' = Recorded(r)
    BY DEF Recorded
  <2>2. Spent(r)' \in SUBSET Around(r)
    BY DEF Spent, Around
  <2>3. IsFiniteSet(Spent(r)') /\ Spent(r) \in SUBSET Spent(r)'
    BY <2>2, SpentCounts, FS_Subset
  <2>4. Cardinality(Spent(r)) <= Cardinality(Spent(r)') /\ Cardinality(Spent(r)') \in Nat
    BY <2>3, FS_Subset, FS_CardinalityType
  <2>5. Cardinality(Spent(r)) \in Nat /\ Len(packets[r]) \in Nat
    BY SpentCounts DEF PrintInv, CollectIInv, RecordInv
  <2>6. Recorded(r) \subseteq Around(r) /\ Len(packets[r]) <= Cardinality(Spent(r)) + Len(restarted)
    BY <1>1 DEF CountInv
  <2> QED  BY <1>1, <2>1, <2>4, <2>5, <2>6
<1>3. CountInv'
  BY <1>1, <1>2 DEF CountInv, Around
<1>4. Len(restarted') >= Len(restarted)
  BY <1>1
<1>5. PrintedIsLink'
  BY <1>1, <1>4, PrintedStill
<1> QED  BY <1>3, <1>5 DEF PrintInv

LEMMA CountTransmit ==
  ASSUME PrintInv, ExampleTypeOK', CollectIInv', NEW s \in Node, NEW R \in SUBSET Node,
         Transmit(s, R)
  PROVE  PrintInv'
<1>1. /\ s \in outbox /\ R \subseteq Hearers(s) /\ outbox' = outbox \ {s}
      /\ UNCHANGED <<pc, reports, printed, restarted>>
      /\ packets' = [r \in Node |-> IF r \in R THEN broadcast_recv(r, s) ELSE packets[r]]
  BY DEF Transmit
<1>2. /\ ExampleTypeOK /\ CountInv /\ PrintedIsLink /\ Len(restarted) \in Nat
      /\ pc[s] # "open" /\ \A r \in Node : packets[r] \in Seq(Node)
  BY <1>1 DEF PrintInv, ExampleTypeOK, CollectIInv, ClosedInv, RecordInv
<1>3. ASSUME NEW r \in Node
      PROVE  /\ Recorded(r)' \subseteq Around(r)
             /\ Len(packets'[r]) <= Cardinality(Spent(r)') + Len(restarted')
  <2>1. /\ IsFiniteSet(Spent(r)) /\ Cardinality(Spent(r)) \in Nat
        /\ Len(packets[r]) \in Nat /\ Recorded(r) \subseteq Around(r)
        /\ Len(packets[r]) <= Cardinality(Spent(r)) + Len(restarted)
    BY <1>2, SpentCounts DEF CountInv
  <2>2. s \notin Spent(r) /\ Spent(r)' = Spent(r) \cup ({s} \cap Around(r))
    BY <1>1, <1>2 DEF Spent, Around
  <2>3. CASE s \in Around(r)
    <3>1. Spent(r)' = Spent(r) \cup {s}
      BY <2>2, <2>3
    <3>2. Cardinality(Spent(r)') = Cardinality(Spent(r)) + 1
      BY <2>1, <2>2, <3>1, FS_AddElement
    <3>3. /\ Len(packets'[r]) \in Nat /\ Len(packets'[r]) <= Len(packets[r]) + 1
          /\ Recorded(r)' \subseteq Recorded(r) \cup {s}
      <4>1. CASE r \in R
        <5>1. packets'[r] = broadcast_recv(r, s)
          BY <1>1, <4>1
        <5>2. /\ broadcast_recv(r, s) \in Seq(Node)
              /\ {broadcast_recv(r, s)[i] : i \in DOMAIN broadcast_recv(r, s)}
                   \subseteq Recorded(r) \cup {s}
          BY <1>2, RecordHeard
        <5>3. Len(broadcast_recv(r, s)) \in Nat /\ Len(broadcast_recv(r, s)) <= Len(packets[r]) + 1
          BY <1>2 DEF broadcast_recv
        <5>4. Recorded(r)' = {packets'[r][i] : i \in DOMAIN packets'[r]}
          BY DEF Recorded
        <5> QED  BY <5>1, <5>2, <5>3, <5>4
      <4>2. CASE r \notin R
        <5>1. packets'[r] = packets[r]
          BY <1>1, <4>2
        <5> QED  BY <2>1, <5>1 DEF Recorded
      <4> QED  BY <4>1, <4>2
    <3> QED  BY <1>1, <1>2, <2>1, <2>3, <3>2, <3>3
  <2>4. CASE s \notin Around(r)
    <3>1. r \notin R
      BY <1>1, <2>4 DEF Around, Hearers
    <3>2. packets'[r] = packets[r] /\ Spent(r)' = Spent(r)
      BY <1>1, <2>2, <2>4, <3>1
    <3>3. Recorded(r)' = Recorded(r)
      BY <3>2 DEF Recorded
    <3> QED  BY <1>1, <2>1, <3>2, <3>3
  <2> QED  BY <2>3, <2>4
<1>4. CountInv'
  BY <1>1, <1>2, <1>3 DEF CountInv, Around
<1>5. PrintedIsLink'
  BY <1>1, <1>2 DEF PrintedIsLink
<1> QED  BY <1>4, <1>5 DEF PrintInv

LEMMA CountReboot ==
  ASSUME PrintInv, ExampleTypeOK', CollectIInv', NEW n \in Node, Reboot(n)
  PROVE  PrintInv'
<1>1. /\ restarted' = Append(restarted, n) /\ packets' = [packets EXCEPT ![n] = <<>>]
      /\ pc' = [pc EXCEPT ![n] = "open"] /\ outbox' = outbox \ {n}
      /\ UNCHANGED <<reports, printed>>
  BY DEF Reboot
<1>2. /\ ExampleTypeOK /\ CountInv /\ PrintedIsLink /\ Len(restarted) \in Nat
      /\ Len(restarted') = Len(restarted) + 1
      /\ \A r \in Node : packets[r] \in Seq(Node)
      /\ packets \in [Node -> Seq(Node)]
  BY <1>1 DEF PrintInv, ExampleTypeOK, CollectIInv, RecordInv
<1>3. ASSUME NEW r \in Node
      PROVE  /\ Recorded(r)' \subseteq Around(r)
             /\ Len(packets'[r]) <= Cardinality(Spent(r)') + Len(restarted')
  <2>1. /\ IsFiniteSet(Spent(r)) /\ Cardinality(Spent(r)) \in Nat
        /\ Len(packets[r]) \in Nat /\ Recorded(r) \subseteq Around(r)
        /\ Len(packets[r]) <= Cardinality(Spent(r)) + Len(restarted)
    BY <1>2, SpentCounts DEF CountInv
  <2>2. Spent(r)' = Spent(r) \ {n}
    BY <1>1, <1>2 DEF Spent, Around, ExampleTypeOK
  <2>3. /\ Cardinality(Spent(r)') \in Nat
        /\ Cardinality(Spent(r)') >= Cardinality(Spent(r)) - 1
    <3>1. IsFiniteSet(Spent(r)')
      BY <2>1, <2>2, FS_Subset
    <3>2. Cardinality(Spent(r)') = IF n \in Spent(r) THEN Cardinality(Spent(r)) - 1
                                   ELSE Cardinality(Spent(r))
      BY <2>1, <2>2, FS_RemoveElement
    <3> QED  BY <2>1, <3>1, <3>2, FS_CardinalityType
  <2>4. CASE r = n
    <3>1. packets'[r] = <<>>
      BY <1>1, <1>2, <2>4
    <3> QED  BY <1>2, <2>3, <3>1 DEF Recorded
  <2>5. CASE r # n
    <3>1. packets'[r] = packets[r]
      BY <1>1, <1>2, <2>5
    <3>2. Recorded(r)' = Recorded(r)
      BY <3>1 DEF Recorded
    <3> QED  BY <1>2, <2>1, <2>3, <3>1, <3>2
  <2> QED  BY <2>4, <2>5
<1>4. ASSUME NEW rep \in reports'
      PROVE  /\ \A i \in DOMAIN rep.heard : <<rep.heard[i], rep.originator>> \in Links
             /\ Len(rep.heard) <= Cardinality(Around(rep.originator)) + Len(restarted')
  <2>1. /\ rep.originator \in Node /\ Len(rep.heard) \in Nat
        /\ \A i \in DOMAIN rep.heard : <<rep.heard[i], rep.originator>> \in Links
        /\ Len(rep.heard) <= Cardinality(Around(rep.originator)) + Len(restarted)
    BY <1>1, <1>2 DEF CountInv, ExampleTypeOK, Report
  <2>2. Cardinality(Around(rep.originator)) \in Nat
    BY <2>1, SpentCounts
  <2> QED  BY <1>2, <2>1, <2>2
<1>5. CountInv'
  BY <1>3, <1>4 DEF CountInv, Around
<1>6. Len(restarted') >= Len(restarted) /\ printed' \ printed = {}
  BY <1>1, <1>2
<1>7. PrintedIsLink'
  BY <1>2, <1>6, PrintedStill
<1> QED  BY <1>5, <1>7 DEF PrintInv

LEMMA CountSend ==
  ASSUME PrintInv, ExampleTypeOK', CollectIInv', NEW n \in Node, Send(n)
  PROVE  PrintInv'
<1> DEFINE rep == [originator |-> n, heard |-> packets[n]]
<1>1. /\ pc[n] = "jitter" /\ pc' = [pc EXCEPT ![n] = "ended"]
      /\ UNCHANGED <<outbox, packets, restarted>>
      /\ reports' \subseteq reports \cup {rep} /\ printed' \subseteq printed \cup Lines(rep)
  BY DEF Send
<1>2. /\ ExampleTypeOK /\ CountInv /\ PrintedIsLink /\ Len(restarted) \in Nat
      /\ packets[n] \in Seq(Node)
  BY DEF PrintInv, ExampleTypeOK, CollectIInv, RecordInv
<1>3. rep \in Report
  BY <1>2 DEF Report
<1>4. /\ \A i \in DOMAIN rep.heard : <<rep.heard[i], rep.originator>> \in Links
      /\ Len(rep.heard) <= Cardinality(Around(rep.originator)) + Len(restarted)
  <2>1. Recorded(n) \subseteq Around(n) /\ Len(packets[n]) <= Cardinality(Spent(n)) + Len(restarted)
    BY <1>2 DEF CountInv
  <2>2. /\ Cardinality(Spent(n)) <= Cardinality(Around(n)) /\ Cardinality(Spent(n)) \in Nat
        /\ Cardinality(Around(n)) \in Nat /\ Len(packets[n]) \in Nat
    BY <1>2, SpentCounts
  <2>3. Len(packets[n]) <= Cardinality(Around(n)) + Len(restarted)
    BY <1>2, <2>1, <2>2
  <2>4. \A i \in DOMAIN packets[n] : <<packets[n][i], n>> \in Links
    BY <2>1 DEF Recorded, Around
  <2> QED  BY <2>3, <2>4
<1>5. \A line \in Lines(rep) :
        IF line = Stale
          THEN \E r \in Node : Cardinality({s \in Node : <<s, r>> \in Links})
                                + Len(restarted) > ReportRoom
          ELSE <<line[2], line[1]>> \in Links
  BY <1>2, <1>3, <1>4, LinesAreLinks
<1>6. \A r \in Node : Spent(r)' = Spent(r) /\ Recorded(r)' = Recorded(r)
  BY <1>1, <1>2 DEF Spent, Around, Recorded, ExampleTypeOK
<1>7. CountInv'
  <2>1. \A q \in reports' : q \in reports \/ q = rep
    BY <1>1
  <2> HIDE DEF rep
  <2> QED  BY <1>1, <1>2, <1>4, <1>6, <2>1 DEF CountInv, Around
<1> HIDE DEF rep
<1>8. Len(restarted') >= Len(restarted)
  BY <1>1, <1>2
<1>9. PrintedIsLink'
  <2>1. \A line \in printed' \ printed : line \in Lines(rep)
    BY <1>1
  <2>2. \A line \in printed' \ printed :
          IF line = Stale
            THEN \E r \in Node : Cardinality({s \in Node : <<s, r>> \in Links})
                                  + Len(restarted) > ReportRoom
            ELSE <<line[2], line[1]>> \in Links
    BY <1>5, <2>1
  <2> QED  BY <1>2, <1>8, <2>2, PrintedStill
<1> QED  BY <1>7, <1>9 DEF PrintInv

LEMMA PrintStep == PrintInv /\ [Next]_vars => PrintInv'
<1> SUFFICES ASSUME PrintInv, [Next]_vars PROVE PrintInv'
  OBVIOUS
<1>1. ExampleTypeOK' /\ CollectIInv' /\ ExampleTypeOK
  BY ExampleTypeStep, CollectStep DEF PrintInv
<1>2. ASSUME NEW n \in Node, Broadcast(n) \/ SetJitter(n) \/ WakeEarly(n)
      PROVE  PrintInv'
  <2>1. /\ UNCHANGED <<packets, reports, printed, restarted>>
        /\ \A m \in Node \ {n} : pc'[m] = pc[m] /\ (m \in outbox' <=> m \in outbox)
        /\ pc[n] = "open" \/ (pc'[n] # "open" /\ outbox' = outbox)
    BY <1>1, <1>2 DEF Broadcast, SetJitter, WakeEarly, ExampleTypeOK
  <2>2. \A r \in Node : Spent(r) \subseteq Spent(r)'
    BY <2>1 DEF Spent, Around
  <2>3. reports' \subseteq reports /\ printed' \ printed = {}
    BY <2>1
  <2> QED  BY <1>1, <2>1, <2>2, <2>3, QuietCount
<1>3. ASSUME NEW rep \in reports, Deliver(rep) \/ LoseReport(rep) PROVE PrintInv'
  <2>1. /\ UNCHANGED <<pc, outbox, packets, restarted>> /\ reports' \subseteq reports
        /\ printed' \ printed \subseteq Lines(rep)
    BY <1>3 DEF Deliver, LoseReport
  <2>2. \A r \in Node : Spent(r) \subseteq Spent(r)'
    BY <2>1 DEF Spent, Around
  <2>3. /\ rep \in Report
        /\ \A i \in DOMAIN rep.heard : <<rep.heard[i], rep.originator>> \in Links
        /\ Len(rep.heard) <= Cardinality(Around(rep.originator)) + Len(restarted)
    BY <1>1 DEF ExampleTypeOK, PrintInv, CountInv
  <2>4. \A line \in Lines(rep) :
          IF line = Stale
            THEN \E r \in Node : Cardinality({s \in Node : <<s, r>> \in Links})
                                  + Len(restarted) > ReportRoom
            ELSE <<line[2], line[1]>> \in Links
    BY <1>1, <2>3, LinesAreLinks
  <2> QED  BY <1>1, <2>1, <2>2, <2>4, QuietCount
<1>4. CASE UNCHANGED vars
  <2>1. UNCHANGED <<pc, outbox, packets, reports, printed, restarted>>
    BY <1>4 DEF vars
  <2>2. \A r \in Node : Spent(r) \subseteq Spent(r)'
    BY <2>1 DEF Spent, Around
  <2>3. reports' \subseteq reports /\ printed' \ printed = {}
    BY <2>1
  <2> QED  BY <1>1, <2>1, <2>2, <2>3, QuietCount
<1> QED  BY <1>1, <1>2, <1>3, <1>4, CountSend, CountTransmit, CountReboot DEF Next

(* Every line of the sink is a link, and stale bytes are printed only in   *)
(* a crowd, for every network, limit and number of restarts.               *)
THEOREM PrintedTheorem == Spec => []PrintedIsLink
<1>1. PrintInv => PrintedIsLink
  BY DEF PrintInv
<1> QED  BY <1>1, PrintInit, PrintStep, PTL DEF Spec

-----------------------------------------------------------------------------
(***************************************************************************)
(* Theorems about Runicast, for every set of senders, size of the history, *)
(* number of retransmissions and of sequence numbers.                      *)
(*                                                                         *)
(* Both rest on what the history remembers: the number of the message a    *)
(* sender is at, once it was heard, unless its entry was lost; and before  *)
(* that the number of the message that was heard last.                     *)
(***************************************************************************)

(* A message of s that was heard is remembered as long as 1.0 does not     *)
(* restart, until another sender is heard, and if the history has an entry *)
(* for every sender then also after that.                                  *)
Remembered(s) ==
  /\ fate[s] # "unheard" /\ ~forgot[s]
  /\ ~crossed[s] \/ Cardinality(Sender) <= NUM_HISTORY_ENTRIES
  => IsDuplicate(s, seqno[s])

HeardInv == \A s \in Sender : Remembered(s)

(* If the entry of s holds q, then q is the number of the message s is at, *)
(* when that was heard; otherwise s has begun `since' messages after it,   *)
(* unless it started to count anew.                                        *)
Numbered(s, q) ==
  /\ fate[s] # "unheard" => q = seqno[s]
  /\ fate[s] = "unheard" /\ ~renumbered[s] =>
       /\ since[s] >= 1
       /\ since[s] < SeqSpace =>
            \/ seqno[s] = q + since[s]
            \/ seqno[s] = q + since[s] - SeqSpace

Numbers == 0 .. SeqSpace - 1

NumberInv ==
  \A s \in Sender, q \in Numbers : IsDuplicate(s, q) => Numbered(s, q)

RunicastIInv ==
  RunicastTypeOK /\ HeardInv /\ NumberInv /\ RepeatsNeedCrowd /\ NewIsAnnounced

-----------------------------------------------------------------------------
(***************************************************************************)
(* Numbers.                                                                *)
(***************************************************************************)
LEMMA NumberFacts ==
  /\ SeqSpace \in Nat /\ SeqSpace >= 2
  /\ SeqSpace - 1 \in Numbers
  /\ \A q \in Numbers : (q + 1) % SeqSpace \in Numbers
  /\ \A q \in Numbers : q + 1 < SeqSpace => (q + 1) % SeqSpace = q + 1
  /\ \A q \in Numbers : q + 1 >= SeqSpace => (q + 1) % SeqSpace = 0
  /\ \A d \in 0 .. SeqSpace : Saturate(d + 1) \in 0 .. SeqSpace
  /\ \A d \in 0 .. SeqSpace :
       Saturate(d + 1) < SeqSpace => Saturate(d + 1) = d + 1
  /\ \A d \in 0 .. SeqSpace : Saturate(d + 1) >= 1
  /\ 0 \in 0 .. SeqSpace /\ 1 \in 0 .. SeqSpace
  BY RunicastAssumption, SMT DEF Numbers, Saturate

-----------------------------------------------------------------------------
(***************************************************************************)
(* What recv_runicast makes of the history.                                *)
(***************************************************************************)

(* A table of entries of different senders.                                *)
HistoryTable(t) ==
  /\ t \in Seq(history_entry)
  /\ Len(t) <= NUM_HISTORY_ENTRIES
  /\ \A i, j \in DOMAIN t : t[i].addr = t[j].addr => i = j

LEMMA CreateEntryShifts ==
  ASSUME HistoryTable(history_table), NEW s \in Sender, NEW q \in Numbers
  PROVE  LET t == CreateEntry(s, q)
         IN  /\ t \in Seq(history_entry)
             /\ Len(t) \in 1 .. NUM_HISTORY_ENTRIES
             /\ t[1].addr = s /\ t[1].seq = q
             /\ \A i \in 2 .. Len(t) :
                  i - 1 \in DOMAIN history_table /\ t[i] = history_table[i - 1]
             /\ Len(history_table) < NUM_HISTORY_ENTRIES =>
                  Len(t) = Len(history_table) + 1
<1> DEFINE e == [addr |-> s, seq |-> q]
<1>1. e \in history_entry
  BY DEF history_entry, Numbers
<1>2. NUM_HISTORY_ENTRIES \in Nat /\ NUM_HISTORY_ENTRIES >= 1
  BY RunicastAssumption
<1>3. CASE Len(history_table) < NUM_HISTORY_ENTRIES
  <2>1. CreateEntry(s, q) = <<e>> \o history_table
    BY <1>3 DEF CreateEntry
  <2> HIDE DEF e
  <2> QED  BY <1>1, <1>2, <1>3, <2>1 DEF HistoryTable, e
<1>4. CASE ~(Len(history_table) < NUM_HISTORY_ENTRIES)
  <2>1. CreateEntry(s, q) = <<e>> \o SubSeq(history_table, 1, Len(history_table) - 1)
    BY <1>4 DEF CreateEntry, Front
  <2>2. SubSeq(history_table, 1, Len(history_table) - 1) \in Seq(history_entry)
    BY <1>2, <1>4 DEF HistoryTable
  <2> HIDE DEF e
  <2> QED  BY <1>1, <1>2, <1>4, <2>1, <2>2 DEF HistoryTable, e
<1> QED  BY <1>3, <1>4

LEMMA CreateEntryTable ==
  ASSUME HistoryTable(history_table), NEW s \in Sender, s \notin Known, NEW q \in Numbers
  PROVE  HistoryTable(CreateEntry(s, q))
<1> DEFINE t == CreateEntry(s, q)
<1>1. /\ t \in Seq(history_entry) /\ Len(t) \in 1 .. NUM_HISTORY_ENTRIES
      /\ t[1].addr = s
      /\ \A i \in 2 .. Len(t) :
           i - 1 \in DOMAIN history_table /\ t[i] = history_table[i - 1]
  BY CreateEntryShifts
<1>2. \A i \in 2 .. Len(t) : t[i].addr # s
  BY <1>1 DEF Known
<1> HIDE DEF t
<1>3. ASSUME NEW i \in DOMAIN t, NEW j \in DOMAIN t, t[i].addr = t[j].addr
      PROVE  i = j
  <2>1. CASE i = 1 \/ j = 1
    BY <1>1, <1>2, <1>3, <2>1
  <2>2. CASE i # 1 /\ j # 1
    <3>1. i \in 2 .. Len(t) /\ j \in 2 .. Len(t)
      BY <1>1, <2>2
    <3>2. i - 1 = j - 1
      BY <1>1, <1>3, <3>1 DEF HistoryTable
    <3> QED  BY <3>1, <3>2
  <2> QED  BY <2>1, <2>2
<1> QED  BY <1>1, <1>3 DEF HistoryTable, t

LEMMA UpdateEntryFacts ==
  ASSUME HistoryTable(history_table), NEW s \in Sender, NEW q \in Numbers
  PROVE  LET t == UpdateEntry(s, q)
         IN  /\ HistoryTable(t)
             /\ DOMAIN t = DOMAIN history_table
             /\ \A i \in DOMAIN t :
                  /\ t[i].addr = history_table[i].addr
                  /\ t[i].seq = IF t[i].addr = s THEN q ELSE history_table[i].seq
<1> DEFINE t == UpdateEntry(s, q)
<1>1. DOMAIN history_table = 1 .. Len(history_table) /\ Len(history_table) \in Nat
  BY DEF HistoryTable
<1>2. DOMAIN t = DOMAIN history_table
  BY DEF UpdateEntry
<1>3. ASSUME NEW i \in DOMAIN history_table
      PROVE  /\ t[i] \in history_entry
             /\ t[i].addr = history_table[i].addr
             /\ t[i].seq = IF t[i].addr = s THEN q ELSE history_table[i].seq
  <2>1. history_table[i] \in history_entry
    BY DEF HistoryTable
  <2>2. CASE history_table[i].addr = s
    BY <2>1, <2>2 DEF UpdateEntry, history_entry, Numbers
  <2>3. CASE history_table[i].addr # s
    BY <2>1, <2>3 DEF UpdateEntry, history_entry, Numbers
  <2> QED  BY <2>2, <2>3
<1>4. t \in Seq(history_entry) /\ Len(t) = Len(history_table)
  <2>1. t \in [1 .. Len(history_table) -> history_entry]
    BY <1>1, <1>2, <1>3 DEF UpdateEntry
  <2> HIDE DEF t
  <2> QED  BY <1>1, <2>1
<1> QED  BY <1>2, <1>3, <1>4 DEF HistoryTable

(* The table after a message, by the case of recv_runicast: whoever sent   *)
(* it is remembered with its number, and the entries of the others either  *)
(* stay as they are or, when the table is full and the sender is new, the  *)
(* one created first is lost.                                              *)
LEMMA AfterReceive ==
  ASSUME HistoryTable(history_table), NEW s \in Sender, NEW q \in Numbers,
         recv_runicast(s, q)
  PROVE  /\ HistoryTable(history_table')
         /\ IsDuplicate(s, q)'
         /\ \A r \in Numbers : IsDuplicate(s, r)' => r = q
         /\ \A u \in Sender \ {s}, r \in Numbers : IsDuplicate(u, r)' => IsDuplicate(u, r)
         /\ s \in Known \/ Len(history_table) < NUM_HISTORY_ENTRIES =>
              \A u \in Sender \ {s}, r \in Numbers : IsDuplicate(u, r) => IsDuplicate(u, r)'
<1>1. CASE s \notin Known /\ history_table' = CreateEntry(s, q)
  <2> DEFINE t == history_table'
  <2>1. HistoryTable(t)
    BY <1>1, CreateEntryTable
  <2>2. /\ Len(t) \in 1 .. NUM_HISTORY_ENTRIES /\ t \in Seq(history_entry)
        /\ t[1].addr = s /\ t[1].seq = q
        /\ \A i \in 2 .. Len(t) :
             i - 1 \in DOMAIN history_table /\ t[i] = history_table[i - 1]
        /\ Len(history_table) < NUM_HISTORY_ENTRIES =>
             Len(t) = Len(history_table) + 1
    BY <1>1, CreateEntryShifts
  <2> HIDE DEF t
  <2>3. DOMAIN t = 1 .. Len(t) /\ 1 \in DOMAIN t /\ Len(t) \in Nat
    BY <2>2, RunicastAssumption
  <2>4. ASSUME NEW i \in DOMAIN t, i # 1
        PROVE  /\ t[i].addr # s
               /\ \E j \in DOMAIN history_table : history_table[j] = t[i]
    <3>1. i \in 2 .. Len(t)
      BY <2>3, <2>4
    <3>2. i - 1 \in DOMAIN history_table /\ t[i] = history_table[i - 1]
      BY <2>2, <3>1
    <3> QED  BY <1>1, <3>2 DEF Known
  <2>5. ASSUME Len(history_table) < NUM_HISTORY_ENTRIES,
               NEW u \in Sender, NEW r \in Numbers, IsDuplicate(u, r)
        PROVE  \E i \in DOMAIN t : t[i].addr = u /\ t[i].seq = r
    <3>1. PICK j \in DOMAIN history_table :
            history_table[j].addr = u /\ history_table[j].seq = r
      BY <2>5 DEF IsDuplicate
    <3>2. j \in 1 .. Len(history_table) /\ Len(history_table) \in Nat
      BY DEF HistoryTable
    <3>3. j + 1 \in 2 .. Len(t) /\ (j + 1) - 1 = j
      BY <2>2, <2>5, <3>2
    <3>4. j + 1 \in DOMAIN t /\ t[j + 1] = history_table[j]
      <4>1. t[j + 1] = history_table[(j + 1) - 1]
        BY <2>2, <3>3
      <4> QED  BY <2>3, <3>3, <4>1
    <3> QED  BY <3>1, <3>4
  <2>6. IsDuplicate(s, q)' /\ \A r \in Numbers : IsDuplicate(s, r)' => r = q
    BY <2>2, <2>3, <2>4 DEF t, IsDuplicate
  <2>7. ASSUME NEW u \in Sender \ {s}, NEW r \in Numbers, IsDuplicate(u, r)'
        PROVE  IsDuplicate(u, r)
    <3>1. PICK i \in DOMAIN t : t[i].addr = u /\ t[i].seq = r
      BY <2>7 DEF t, IsDuplicate
    <3>2. i # 1
      BY <2>2, <2>7, <3>1
    <3> QED  BY <2>4, <3>1, <3>2 DEF IsDuplicate
  <2>8. ASSUME Len(history_table) < NUM_HISTORY_ENTRIES,
               NEW u \in Sender, NEW r \in Numbers, IsDuplicate(u, r)
        PROVE  IsDuplicate(u, r)'
    BY <2>5, <2>8 DEF t, IsDuplicate
  <2>9. HistoryTable(history_table')
    BY <2>1 DEF t
  <2> QED  BY <1>1, <2>6, <2>7, <2>8, <2>9
<1>2. CASE IsDuplicate(s, q) /\ UNCHANGED history_table
  <2>1. \A i \in DOMAIN history_table :
          history_table[i].addr = s => history_table[i].seq = q
    BY <1>2 DEF IsDuplicate, HistoryTable
  <2> QED  BY <1>2, <2>1 DEF IsDuplicate
<1>3. CASE s \in Known /\ history_table' = UpdateEntry(s, q)
  <2> DEFINE t == history_table'
  <2>1. /\ HistoryTable(t) /\ DOMAIN t = DOMAIN history_table
        /\ \A i \in DOMAIN t :
             /\ t[i].addr = history_table[i].addr
             /\ t[i].seq = IF t[i].addr = s THEN q ELSE history_table[i].seq
    BY <1>3, UpdateEntryFacts
  <2> HIDE DEF t
  <2>2. \E i \in DOMAIN t : t[i].addr = s /\ t[i].seq = q
    BY <1>3, <2>1 DEF Known
  <2>3. ASSUME NEW i \in DOMAIN t, t[i].addr # s
        PROVE  history_table[i] = t[i]
    <3>1. t[i] \in history_entry /\ history_table[i] \in history_entry
      BY <2>1 DEF HistoryTable
    <3>2. t[i].addr = history_table[i].addr /\ t[i].seq = history_table[i].seq
      BY <2>1, <2>3
    <3> QED  BY <3>1, <3>2 DEF history_entry
  <2>4. ASSUME NEW u \in Sender \ {s}, NEW r \in Numbers, IsDuplicate(u, r)
        PROVE  \E i \in DOMAIN t : t[i].addr = u /\ t[i].seq = r
    BY <2>1, <2>4 DEF IsDuplicate
  <2> QED  BY <1>3, <2>1, <2>2, <2>3, <2>4 DEF t, IsDuplicate
<1> QED  BY <1>1, <1>2, <1>3 DEF recv_runicast

(* Where every sender has an entry there is a free one for a new sender.   *)
LEMMA RoomForNew ==
  ASSUME HistoryTable(history_table), NEW s \in Sender, s \notin Known,
         Cardinality(Sender) <= NUM_HISTORY_ENTRIES
  PROVE  Len(history_table) < NUM_HISTORY_ENTRIES
<1> DEFINE I == 1 .. Len(history_table)
           S == Sender \ {s}
           f == [i \in I |-> history_table[i].addr]
<1>1. DOMAIN history_table = I /\ Len(history_table) \in Nat
  BY DEF HistoryTable
<1>2. ASSUME NEW i \in I PROVE history_table[i].addr \in S
  <2>1. history_table[i] \in history_entry
    BY <1>1 DEF HistoryTable
  <2>2. history_table[i].addr # s
    BY <1>1 DEF Known
  <2> QED  BY <2>1, <2>2 DEF history_entry
<1>3. f \in Injection(I, S)
  BY <1>1, <1>2 DEF HistoryTable, Injection, IsInjective
<1>4. IsFiniteSet(S) /\ Cardinality(S) = Cardinality(Sender) - 1
  BY RunicastAssumption, FS_RemoveElement
<1>5. Cardinality(I) <= Cardinality(S)
  <2> HIDE DEF f, I, S
  <2> QED  BY <1>3, <1>4, FS_Injection
<1>6. Cardinality(I) = Len(history_table)
  <2>1. Len(history_table) \in Int /\ Len(history_table) >= 1 - 1
    BY <1>1
  <2> QED  BY <2>1, FS_Interval
<1>7. Cardinality(Sender) \in Nat /\ NUM_HISTORY_ENTRIES \in Nat
  BY RunicastAssumption, FS_CardinalityType
<1> QED  BY <1>1, <1>4, <1>5, <1>6, <1>7

-----------------------------------------------------------------------------
(***************************************************************************)
(* Types.                                                                  *)
(***************************************************************************)
LEMMA RunicastTypeInit == RunicastInit => RunicastTypeOK
<1> SUFFICES ASSUME RunicastInit PROVE RunicastTypeOK
  OBVIOUS
<1>1. history_table = <<>> /\ Len(history_table) = 0 /\ DOMAIN history_table = {}
  BY DEF RunicastInit
<1>2. history_table \in Seq(history_entry)
  BY <1>1
<1>3. NUM_HISTORY_ENTRIES \in Nat /\ MAX_RETRANSMISSIONS \in Nat /\ MaxRestarts \in Nat
  BY RunicastAssumption
<1>4. SeqSpace - 1 \in 0 .. SeqSpace - 1 /\ 0 \in 0 .. SeqSpace
  BY NumberFacts DEF Numbers
<1> QED  BY <1>1, <1>2, <1>3, <1>4 DEF RunicastInit, RunicastTypeOK, Fates

LEMMA TableOfType == RunicastTypeOK => HistoryTable(history_table)
  BY DEF RunicastTypeOK, HistoryTable

LEMMA RunicastTypeStep == RunicastTypeOK /\ [RunicastNext]_runicastVars => RunicastTypeOK'
<1> SUFFICES ASSUME RunicastTypeOK, [RunicastNext]_runicastVars
             PROVE  RunicastTypeOK'
  OBVIOUS
<1> USE NumberFacts DEF Numbers
<1>0. MAX_RETRANSMISSIONS \in Nat /\ MAX_RETRANSMISSIONS >= 1 /\ MaxRestarts \in Nat
  BY RunicastAssumption
<1>1. ASSUME NEW s \in Sender, SendMessage(s) PROVE RunicastTypeOK'
  <2>1. seqno[s] \in 0 .. SeqSpace - 1 /\ since[s] \in 0 .. SeqSpace
    BY DEF RunicastTypeOK
  <2>2. seqno' \in [Sender -> 0 .. SeqSpace - 1]
    BY <1>1, <2>1 DEF RunicastTypeOK, SendMessage
  <2>3. since' \in [Sender -> 0 .. SeqSpace]
    BY <1>1, <2>1 DEF RunicastTypeOK, SendMessage
  <2>4. tries' \in [Sender -> 0 .. MAX_RETRANSMISSIONS]
    BY <1>0, <1>1 DEF RunicastTypeOK, SendMessage
  <2>5. /\ fate' \in [Sender -> Fates] /\ air' \in [Sender -> {"none", "data", "ack"}]
        /\ crossed' \in [Sender -> BOOLEAN] /\ forgot' \in [Sender -> BOOLEAN]
    BY <1>1 DEF RunicastTypeOK, SendMessage, Fates
  <2>6. renumbered' \in [Sender -> BOOLEAN]
    BY <1>1, Zenon DEF RunicastTypeOK, SendMessage
  <2>7. history_table' = history_table /\ restarts' = restarts
    BY <1>1 DEF SendMessage
  <2> QED  BY <2>2, <2>3, <2>4, <2>5, <2>6, <2>7 DEF RunicastTypeOK
<1>2. ASSUME NEW s \in Sender, Retransmit(s) PROVE RunicastTypeOK'
  BY <1>0, <1>2 DEF RunicastTypeOK, Retransmit, histories
<1>3. ASSUME NEW s \in Sender, TimedOut(s) PROVE RunicastTypeOK'
  BY <1>0, <1>3 DEF RunicastTypeOK, TimedOut, histories
<1>4. ASSUME NEW s \in Sender, AckArrives(s) PROVE RunicastTypeOK'
  BY <1>0, <1>4 DEF RunicastTypeOK, AckArrives, histories
<1>5. ASSUME NEW s \in Sender, LoseFrame(s) PROVE RunicastTypeOK'
  BY <1>5 DEF RunicastTypeOK, LoseFrame, histories
<1>6. ASSUME NEW s \in Sender, Receive(s) PROVE RunicastTypeOK'
  <2>1. HistoryTable(history_table')
    <3>1. seqno[s] \in Numbers /\ HistoryTable(history_table)
      BY TableOfType DEF RunicastTypeOK
    <3>2. recv_runicast(s, seqno[s])
      BY <1>6 DEF Receive
    <3> QED  BY <3>1, <3>2, AfterReceive
  <2>2. /\ seqno' = seqno /\ tries' = tries /\ restarts' = restarts
        /\ forgot' = forgot /\ since' = since /\ renumbered' = renumbered
    BY <1>6 DEF Receive
  <2>3. air' \in [Sender -> {"none", "data", "ack"}]
    BY <1>6 DEF RunicastTypeOK, Receive
  <2>4. fate' \in [Sender -> Fates]
    <3>1. fate[s] \in Fates
      BY DEF RunicastTypeOK
    <3>2. (IF IsDuplicate(s, seqno[s])
             THEN IF fate[s] = "unheard" THEN "ignored" ELSE fate[s]
             ELSE IF fate[s] \in {"unheard", "ignored"} THEN "announced" ELSE "repeated")
            \in Fates
      BY <3>1, Zenon DEF Fates
    <3> QED  BY <1>6, <3>2, Zenon DEF RunicastTypeOK, Receive
  <2>5. crossed' \in [Sender -> BOOLEAN]
    BY <1>6, Zenon DEF RunicastTypeOK, Receive
  <2> QED  BY <2>1, <2>2, <2>3, <2>4, <2>5 DEF RunicastTypeOK, HistoryTable
<1>7. ASSUME NEW s \in Sender, RestartSender(s) PROVE RunicastTypeOK'
  BY <1>0, <1>7 DEF RunicastTypeOK, RestartSender, Fates
<1>8. ASSUME RestartReceiver PROVE RunicastTypeOK'
  <2>1. history_table' = <<>> /\ DOMAIN history_table' = {} /\ Len(history_table') = 0
        /\ history_table' \in Seq(history_entry)
    BY <1>8 DEF RestartReceiver
  <2>2. forgot' \in [Sender -> BOOLEAN]
    BY <1>8, Zenon DEF RunicastTypeOK, RestartReceiver
  <2>3. restarts' \in 0 .. MaxRestarts
    BY <1>0, <1>8 DEF RunicastTypeOK, RestartReceiver
  <2>4. air' \in [Sender -> {"none", "data", "ack"}]
    BY <1>8 DEF RestartReceiver
  <2>5. NUM_HISTORY_ENTRIES \in Nat
    BY RunicastAssumption
  <2> QED  BY <1>8, <2>1, <2>2, <2>3, <2>4, <2>5 DEF RunicastTypeOK, RestartReceiver
<1>9. CASE UNCHANGED runicastVars
  BY <1>9 DEF RunicastTypeOK, runicastVars, histories
<1> QED  BY <1>1, <1>2, <1>3, <1>4, <1>5, <1>6, <1>7, <1>8, <1>9 DEF RunicastNext

(* Every variable keeps its type; the history never has two entries for a  *)
(* sender, nor more entries than NUM_HISTORY_ENTRIES.                      *)
THEOREM RunicastTypeCorrect == RunicastSpec => []RunicastTypeOK
  BY RunicastTypeInit, RunicastTypeStep, PTL DEF RunicastSpec

-----------------------------------------------------------------------------
(***************************************************************************)
(* The invariant.                                                          *)
(***************************************************************************)
LEMMA RunicastInvInit == RunicastInit => RunicastIInv
<1> SUFFICES ASSUME RunicastInit PROVE RunicastIInv
  OBVIOUS
<1>1. RunicastTypeOK
  BY RunicastTypeInit
<1>2. \A s \in Sender : fate[s] = "unheard" /\ \A q \in Numbers : ~IsDuplicate(s, q)
  BY DEF RunicastInit, IsDuplicate
<1> QED  BY <1>1, <1>2 DEF RunicastIInv, HeardInv, Remembered, NumberInv,
                          RepeatsNeedCrowd, NewIsAnnounced

(* What the two properties say of a sender.                                *)
Excused(s) ==
  /\ fate[s] = "repeated" =>
       forgot[s] \/ (crossed[s] /\ Cardinality(Sender) > NUM_HISTORY_ENTRIES)
  /\ fate[s] = "ignored" => renumbered[s] \/ since[s] >= SeqSpace

(* A step keeps the invariant if it keeps it sender by sender.             *)
LEMMA BySender ==
  ASSUME RunicastTypeOK',
         ASSUME NEW s \in Sender
         PROVE  /\ Remembered(s)' /\ Excused(s)'
                /\ \A q \in Numbers : IsDuplicate(s, q)' => Numbered(s, q)'
  PROVE  RunicastIInv'
<1>1. HeardInv' /\ NumberInv'
  BY DEF HeardInv, NumberInv
<1>2. RepeatsNeedCrowd' /\ NewIsAnnounced'
  BY DEF RepeatsNeedCrowd, NewIsAnnounced, Excused
<1> QED  BY <1>1, <1>2 DEF RunicastIInv

LEMMA SenderFacts ==
  ASSUME RunicastIInv, NEW s \in Sender
  PROVE  /\ Remembered(s) /\ Excused(s)
         /\ \A q \in Numbers : IsDuplicate(s, q) => Numbered(s, q)
  BY DEF RunicastIInv, HeardInv, NumberInv, RepeatsNeedCrowd, NewIsAnnounced, Excused

(* A sender whose history variables a step does not change.                *)
LEMMA SameSender ==
  ASSUME NEW s \in Sender,
         seqno'[s] = seqno[s], fate'[s] = fate[s], crossed'[s] = crossed[s],
         forgot'[s] = forgot[s], since'[s] = since[s], renumbered'[s] = renumbered[s]
  PROVE  /\ Excused(s) => Excused(s)'
         /\ \A q \in Numbers : Numbered(s, q) => Numbered(s, q)'
         /\ history_table' = history_table =>
              /\ Remembered(s) => Remembered(s)'
              /\ \A q \in Numbers : IsDuplicate(s, q)' => IsDuplicate(s, q)
  BY DEF Excused, Numbered, Remembered, IsDuplicate

(* The steps that only move frames.                                        *)
LEMMA QuietStep ==
  ASSUME RunicastIInv, RunicastTypeOK',
         UNCHANGED <<history_table, seqno, fate, crossed, forgot, since, renumbered>>
  PROVE  RunicastIInv'
<1>1. ASSUME NEW s \in Sender
      PROVE  /\ Remembered(s)' /\ Excused(s)'
             /\ \A q \in Numbers : IsDuplicate(s, q)' => Numbered(s, q)'
  BY SenderFacts, SameSender
<1> QED  BY <1>1, BySender

LEMMA RunicastSend ==
  ASSUME RunicastIInv, RunicastTypeOK', NEW s \in Sender, SendMessage(s)
  PROVE  RunicastIInv'
<1>1. RunicastTypeOK
  BY DEF RunicastIInv
<1>2. /\ history_table' = history_table
      /\ \A u \in Sender \ {s} :
           /\ seqno'[u] = seqno[u] /\ fate'[u] = fate[u] /\ crossed'[u] = crossed[u]
           /\ forgot'[u] = forgot[u] /\ since'[u] = since[u]
           /\ renumbered'[u] = renumbered[u]
  BY <1>1 DEF SendMessage, RunicastTypeOK
<1>3. /\ fate'[s] = "unheard"
      /\ seqno'[s] = (seqno[s] + 1) % SeqSpace
      /\ since'[s] = IF fate[s] = "unheard" THEN Saturate(since[s] + 1) ELSE 1
      /\ renumbered'[s] = (renumbered[s] /\ fate[s] = "unheard")
  BY <1>1, Zenon DEF SendMessage, RunicastTypeOK
<1>4. ASSUME NEW q \in Numbers, Numbered(s, q) PROVE Numbered(s, q)'
  <2>1. SUFFICES ASSUME ~renumbered'[s]
                 PROVE  /\ since'[s] >= 1
                        /\ since'[s] < SeqSpace =>
                             \/ seqno'[s] = q + since'[s]
                             \/ seqno'[s] = q + since'[s] - SeqSpace
    BY <1>3 DEF Numbered
  <2>2. seqno[s] \in Numbers /\ since[s] \in 0 .. SeqSpace /\ SeqSpace \in Nat
    BY <1>1, NumberFacts DEF RunicastTypeOK, Numbers
  <2>3. seqno'[s] = seqno[s] + 1 \/ seqno'[s] = seqno[s] + 1 - SeqSpace
    <3>1. CASE seqno[s] + 1 < SeqSpace
      BY <1>3, <2>2, <3>1, NumberFacts
    <3>2. CASE seqno[s] + 1 >= SeqSpace
      <4>1. seqno[s] + 1 - SeqSpace = 0
        BY <2>2, <3>2 DEF Numbers
      <4> QED  BY <1>3, <2>2, <3>2, <4>1, NumberFacts
    <3> QED  BY <2>2, <3>1, <3>2 DEF Numbers
  <2>4. CASE fate[s] # "unheard"
    <3>1. q = seqno[s] /\ since'[s] = 1
      BY <1>3, <1>4, <2>4 DEF Numbered
    <3> QED  BY <2>2, <2>3, <3>1 DEF Numbers
  <2>5. CASE fate[s] = "unheard"
    <3>1. ~renumbered[s]
      BY <1>3, <2>1, <2>5
    <3>2. since'[s] = Saturate(since[s] + 1)
      BY <1>3, <2>5
    <3>3. since'[s] >= 1 /\ (since'[s] < SeqSpace => since'[s] = since[s] + 1)
      BY <2>2, <3>2, NumberFacts
    <3>4. since[s] < SeqSpace =>
            seqno[s] = q + since[s] \/ seqno[s] = q + since[s] - SeqSpace
      BY <1>4, <2>5, <3>1 DEF Numbered
    <3>5. seqno'[s] \in 0 .. SeqSpace - 1 /\ q \in 0 .. SeqSpace - 1
      BY <1>3, <2>2, NumberFacts DEF Numbers
    <3>6. SUFFICES ASSUME since'[s] < SeqSpace
                   PROVE  seqno'[s] = q + since'[s] \/ seqno'[s] = q + since'[s] - SeqSpace
      BY <3>3
    <3>7. since'[s] = since[s] + 1 /\ since[s] < SeqSpace
      BY <2>2, <3>3, <3>6
    <3> QED  BY <2>2, <2>3, <3>4, <3>5, <3>7 DEF Numbers
  <2> QED  BY <2>4, <2>5
<1>5. ASSUME NEW u \in Sender
      PROVE  /\ Remembered(u)' /\ Excused(u)'
             /\ \A q \in Numbers : IsDuplicate(u, q)' => Numbered(u, q)'
  <2>1. CASE u = s
    <3>1. Remembered(s)' /\ Excused(s)'
      BY <1>3 DEF Remembered, Excused
    <3>2. ASSUME NEW q \in Numbers, IsDuplicate(s, q)' PROVE Numbered(s, q)'
      <4>1. IsDuplicate(s, q)
        BY <1>2, <3>2 DEF IsDuplicate
      <4> QED  BY <1>4, <4>1, SenderFacts
    <3> QED  BY <2>1, <3>1, <3>2
  <2>2. CASE u # s
    BY <1>2, <2>2, SenderFacts, SameSender
  <2> QED  BY <2>1, <2>2
<1> QED  BY <1>5, BySender

(* If what is received is a duplicate, its number is the one the entry     *)
(* holds, which a message not heard yet has only after SeqSpace others.    *)
LEMMA RunicastReceive ==
  ASSUME RunicastIInv, RunicastTypeOK', NEW s \in Sender, Receive(s)
  PROVE  RunicastIInv'
<1>1. RunicastTypeOK /\ HistoryTable(history_table) /\ seqno[s] \in Numbers
  BY TableOfType DEF RunicastIInv, RunicastTypeOK, Numbers
<1>2. /\ seqno' = seqno /\ forgot' = forgot /\ since' = since /\ renumbered' = renumbered
      /\ \A u \in Sender \ {s} : fate'[u] = fate[u]
      /\ crossed' = [t \in Sender |-> crossed[t] \/ (t # s /\ fate[t] # "unheard")]
  BY <1>1 DEF Receive, RunicastTypeOK
<1>3. fate'[s] = IF IsDuplicate(s, seqno[s])
                   THEN IF fate[s] = "unheard" THEN "ignored" ELSE fate[s]
                   ELSE IF fate[s] \in {"unheard", "ignored"} THEN "announced"
                                                              ELSE "repeated"
  BY <1>1, Zenon DEF Receive, RunicastTypeOK
<1>4. /\ IsDuplicate(s, seqno[s])'
      /\ \A r \in Numbers : IsDuplicate(s, r)' => r = seqno[s]
      /\ \A u \in Sender \ {s}, r \in Numbers : IsDuplicate(u, r)' => IsDuplicate(u, r)
      /\ s \in Known \/ Len(history_table) < NUM_HISTORY_ENTRIES =>
           \A u \in Sender \ {s}, r \in Numbers : IsDuplicate(u, r) => IsDuplicate(u, r)'
  <2>1. recv_runicast(s, seqno[s])
    BY DEF Receive
  <2> HIDE DEF IsDuplicate, Known
  <2>2. seqno'[s] = seqno[s]
    BY <1>2
  <2> QED  BY <1>1, <2>1, <2>2, AfterReceive
<1>5. Remembered(s)' /\ \A q \in Numbers : IsDuplicate(s, q)' => Numbered(s, q)'
  <2>1. fate'[s] # "unheard"
    BY <1>3
  <2> QED  BY <1>2, <1>4, <2>1 DEF Remembered, Numbered
<1>6. Excused(s)'
  <2>1. CASE fate'[s] = fate[s]
    <3>1. crossed'[s] = crossed[s]
      BY <1>1, <1>2, Zenon DEF RunicastTypeOK
    <3> QED  BY <1>2, <2>1, <3>1, SenderFacts, SameSender
  <2>2. CASE fate'[s] = "announced"
    BY <2>2 DEF Excused
  <2>3. CASE fate'[s] = "ignored" /\ fate[s] = "unheard" /\ IsDuplicate(s, seqno[s])
    <3>1. Numbered(s, seqno[s])
      BY <1>1, <2>3, SenderFacts
    <3>2. seqno[s] \in Int /\ since[s] \in 0 .. SeqSpace /\ SeqSpace \in Nat
      BY <1>1, NumberFacts DEF RunicastTypeOK, Numbers
    <3>3. renumbered[s] \/ since[s] >= SeqSpace
      BY <2>3, <3>1, <3>2 DEF Numbered
    <3> QED  BY <1>2, <2>3, <3>3 DEF Excused
  <2>4. CASE fate'[s] = "repeated" /\ fate[s] # "unheard" /\ ~IsDuplicate(s, seqno[s])
    <3>1. forgot[s] \/ (crossed[s] /\ ~(Cardinality(Sender) <= NUM_HISTORY_ENTRIES))
      BY <2>4, SenderFacts DEF Remembered
    <3>2. Cardinality(Sender) \in Nat /\ NUM_HISTORY_ENTRIES \in Nat
      BY RunicastAssumption, FS_CardinalityType
    <3>3. forgot[s] \/ (crossed[s] /\ Cardinality(Sender) > NUM_HISTORY_ENTRIES)
      BY <3>1, <3>2
    <3>4. crossed[s] => crossed'[s]
      BY <1>2
    <3> QED  BY <1>2, <2>4, <3>3, <3>4 DEF Excused
  <2> QED  BY <1>3, <2>1, <2>2, <2>3, <2>4
<1>7. ASSUME NEW u \in Sender \ {s}
      PROVE  /\ Remembered(u)' /\ Excused(u)'
             /\ \A q \in Numbers : IsDuplicate(u, q)' => Numbered(u, q)'
  <2>1. /\ Remembered(u) /\ Excused(u)
        /\ \A q \in Numbers : IsDuplicate(u, q) => Numbered(u, q)
    BY SenderFacts
  <2>2. fate'[u] = fate[u] /\ seqno'[u] = seqno[u] /\ seqno[u] \in Numbers
    BY <1>1, <1>2 DEF RunicastTypeOK, Numbers
  <2>3. crossed[u] => crossed'[u]
    BY <1>2
  <2>4. fate[u] # "unheard" => crossed'[u]
    BY <1>2
  <2>5. Excused(u)'
    BY <1>2, <2>1, <2>2, <2>3 DEF Excused
  <2>6. \A q \in Numbers : IsDuplicate(u, q)' => Numbered(u, q)'
    <3>1. \A q \in Numbers : Numbered(u, q) => Numbered(u, q)'
      BY <1>2, <2>2 DEF Numbered
    <3> QED  BY <1>4, <2>1, <3>1
  <2>7. Remembered(u)'
    <3>1. SUFFICES ASSUME fate[u] # "unheard", ~forgot[u],
                          Cardinality(Sender) <= NUM_HISTORY_ENTRIES
                   PROVE  IsDuplicate(u, seqno[u])'
      BY <1>2, <2>2, <2>4 DEF Remembered
    <3>2. IsDuplicate(u, seqno[u])
      BY <2>1, <3>1 DEF Remembered
    <3>3. s \in Known \/ Len(history_table) < NUM_HISTORY_ENTRIES
      BY <1>1, <3>1, RoomForNew
    <3>4. \A r \in Numbers : IsDuplicate(u, r) => IsDuplicate(u, r)'
      BY <1>4, <3>3
    <3> QED  BY <2>2, <3>2, <3>4 DEF IsDuplicate
  <2> QED  BY <2>5, <2>6, <2>7
<1> QED  BY <1>5, <1>6, <1>7, BySender

LEMMA RunicastInvStep == RunicastIInv /\ [RunicastNext]_runicastVars => RunicastIInv'
<1> SUFFICES ASSUME RunicastIInv, [RunicastNext]_runicastVars
             PROVE  RunicastIInv'
  OBVIOUS
<1>1. RunicastTypeOK /\ RunicastTypeOK'
  BY RunicastTypeStep DEF RunicastIInv
<1>2. ASSUME NEW s \in Sender, SendMessage(s) PROVE RunicastIInv'
  BY <1>1, <1>2, RunicastSend
<1>3. ASSUME NEW s \in Sender,
             Retransmit(s) \/ TimedOut(s) \/ AckArrives(s) \/ LoseFrame(s)
      PROVE  RunicastIInv'
  <2>1. UNCHANGED <<history_table, seqno, fate, crossed, forgot, since, renumbered>>
    BY <1>3 DEF Retransmit, TimedOut, AckArrives, LoseFrame, histories
  <2> QED  BY <1>1, <2>1, QuietStep
<1>4. ASSUME NEW s \in Sender, Receive(s) PROVE RunicastIInv'
  BY <1>1, <1>4, RunicastReceive
<1>5. ASSUME NEW s \in Sender, RestartSender(s) PROVE RunicastIInv'
  <2>1. /\ history_table' = history_table
        /\ \A u \in Sender \ {s} :
             /\ seqno'[u] = seqno[u] /\ fate'[u] = fate[u] /\ crossed'[u] = crossed[u]
             /\ forgot'[u] = forgot[u] /\ since'[u] = since[u]
             /\ renumbered'[u] = renumbered[u]
        /\ fate'[s] = "unheard" /\ renumbered'[s] = TRUE
    BY <1>1, <1>5 DEF RestartSender, RunicastTypeOK
  <2>2. ASSUME NEW u \in Sender
        PROVE  /\ Remembered(u)' /\ Excused(u)'
               /\ \A q \in Numbers : IsDuplicate(u, q)' => Numbered(u, q)'
    <3>1. CASE u = s
      BY <2>1, <3>1 DEF Remembered, Excused, Numbered
    <3>2. CASE u # s
      BY <2>1, <3>2, SenderFacts, SameSender
    <3> QED  BY <3>1, <3>2
  <2> QED  BY <1>1, <2>2, BySender
<1>6. ASSUME RestartReceiver PROVE RunicastIInv'
  <2>1. /\ \A s \in Sender, q \in Numbers : ~IsDuplicate(s, q)'
        /\ UNCHANGED <<seqno, fate, crossed, since, renumbered>>
        /\ \A s \in Sender : forgot'[s] <=> (forgot[s] \/ fate[s] # "unheard")
    <3>1. DOMAIN history_table' = {}
      BY <1>6 DEF RestartReceiver
    <3> QED  BY <1>6, <3>1, Zenon DEF RestartReceiver, IsDuplicate
  <2>2. ASSUME NEW s \in Sender
        PROVE  /\ Remembered(s)' /\ Excused(s)'
               /\ \A q \in Numbers : IsDuplicate(s, q)' => Numbered(s, q)'
    BY <2>1, SenderFacts DEF Remembered, Excused
  <2> QED  BY <1>1, <2>2, BySender
<1>7. CASE UNCHANGED runicastVars
  BY <1>1, <1>7, QuietStep DEF runicastVars, histories
<1> QED  BY <1>2, <1>3, <1>4, <1>5, <1>6, <1>7 DEF RunicastNext

LEMMA RunicastInvHolds == RunicastSpec => []RunicastIInv
  BY RunicastInvInit, RunicastInvStep, PTL DEF RunicastSpec

(* With an entry for every sender, or none heard in between, and no        *)
(* restart of 1.0, no retransmission is announced as a new message.        *)
THEOREM RepeatsTheorem == RunicastSpec => []RepeatsNeedCrowd
<1>1. RunicastIInv => RepeatsNeedCrowd
  BY DEF RunicastIInv
<1> QED  BY <1>1, RunicastInvHolds, PTL

(* However many senders crowd the history and whatever is lost, a new      *)
(* message is not taken for a duplicate, unless its sender restarted or    *)
(* went through all the numbers.                                           *)
THEOREM AnnouncedTheorem == RunicastSpec => []NewIsAnnounced
<1>1. RunicastIInv => NewIsAnnounced
  BY DEF RunicastIInv
<1> QED  BY <1>1, RunicastInvHolds, PTL

-----------------------------------------------------------------------------
(***************************************************************************)
(* Theorems about Multihop, for every set of nodes and links, timeout and  *)
(* size of the tables: what the table of a node says of the announcements  *)
(* it heard.                                                               *)
(*                                                                         *)
(* Each operation changes the table, the ages and the refused neighbours   *)
(* of a node together, so the argument is about the three as values; the   *)
(* actions only say which nodes they do it to.                             *)
(***************************************************************************)

Ages == [Hop -> 0 .. Never]

(* A table of entries of different neighbours.                             *)
NeighborTable(t) ==
  /\ t \in Seq(example_neighbor)
  /\ Len(t) <= MAX_NEIGHBORS
  /\ \A i, j \in DOMAIN t : t[i].addr = t[j].addr => i = j

Addresses(t) == {t[i].addr : i \in DOMAIN t}

(* Those other than m that were heard no longer ago than the timeout.      *)
Recent(a, m) == {o \in Hop \ {m} : a[o] <= NEIGHBOR_TIMEOUT}

(* What TableFollowsAnnouncements says of a node.                          *)
Follows(t, a, r) ==
  /\ \A m \in Hop : a[m] < NEIGHBOR_TIMEOUT => m \in Addresses(t) \/ m \in r
  /\ \A i \in DOMAIN t : t[i].timer = NEIGHBOR_TIMEOUT - a[t[i].addr]
  /\ \A m \in r : a[m] = 0 => Cardinality(Recent(a, m)) >= MAX_NEIGHBORS

Good(t, a, r) ==
  NeighborTable(t) /\ a \in Ages /\ r \in SUBSET Hop /\ Follows(t, a, r)

TablesInv == \A n \in Hop : Good(neighbor_table[n], age[n], refused[n])

MultihopIInv ==
  /\ MultihopTypeOK
  /\ TablesInv

LEMMA Constants ==
  /\ NEIGHBOR_TIMEOUT \in Nat /\ NEIGHBOR_TIMEOUT >= 1
  /\ MAX_NEIGHBORS \in Nat /\ MAX_NEIGHBORS >= 1
  /\ MaxCrashes \in Nat /\ Dest \in Hop /\ IsFiniteSet(Hop)
  /\ Never = NEIGHBOR_TIMEOUT + 1
  BY MultihopAssumption DEF Never

LEMMA TableFacts ==
  ASSUME NEW t, NeighborTable(t)
  PROVE  /\ DOMAIN t = 1 .. Len(t) /\ Len(t) \in Nat
         /\ \A i \in DOMAIN t :
              /\ t[i] \in example_neighbor
              /\ t[i].addr \in Hop /\ t[i].timer \in 0 .. NEIGHBOR_TIMEOUT
<1>1. DOMAIN t = 1 .. Len(t) /\ Len(t) \in Nat
      /\ \A i \in DOMAIN t : t[i] \in example_neighbor
  BY DEF NeighborTable
<1> QED  BY <1>1 DEF example_neighbor

-----------------------------------------------------------------------------
(***************************************************************************)
(* Cardinalities.                                                          *)
(***************************************************************************)
LEMMA RecentFinite ==
  ASSUME NEW a, NEW m
  PROVE  IsFiniteSet(Recent(a, m)) /\ Cardinality(Recent(a, m)) \in Nat
<1>1. IsFiniteSet(Recent(a, m))
  BY Constants, FS_Subset DEF Recent
<1> QED  BY <1>1, FS_CardinalityType

LEMMA RecentGrows ==
  ASSUME NEW a, NEW b, NEW m,
         \A o \in Hop : a[o] <= NEIGHBOR_TIMEOUT => b[o] <= NEIGHBOR_TIMEOUT
  PROVE  Cardinality(Recent(a, m)) <= Cardinality(Recent(b, m))
<1>1. Recent(a, m) \subseteq Recent(b, m)
  BY DEF Recent
<1> HIDE DEF Recent
<1> QED  BY <1>1, RecentFinite, FS_Subset

(* The neighbours of a full table without m are recent.                    *)
LEMMA FullTableIsRecent ==
  ASSUME NEW t, NEW a, NEW r, Good(t, a, r), NEW m \in Hop, m \notin Addresses(t)
  PROVE  Len(t) <= Cardinality(Recent(a, m))
<1> DEFINE I == 1 .. Len(t)
           S == Recent(a, m)
           f == [i \in I |-> t[i].addr]
<1>1. /\ DOMAIN t = I /\ Len(t) \in Nat
      /\ \A i \in I : t[i].addr \in Hop /\ t[i].timer \in 0 .. NEIGHBOR_TIMEOUT
  BY TableFacts DEF Good
<1>2. ASSUME NEW i \in I PROVE t[i].addr \in S
  <2>1. t[i].addr \in Hop \ {m}
    BY <1>1 DEF Addresses
  <2>2. t[i].timer = NEIGHBOR_TIMEOUT - a[t[i].addr]
    BY <1>1 DEF Good, Follows
  <2>3. a[t[i].addr] \in Int /\ t[i].timer >= 0
    BY <1>1, Constants DEF Good, Ages
  <2> QED  BY <2>1, <2>2, <2>3, Constants DEF Recent
<1>3. f \in Injection(I, S)
  BY <1>1, <1>2 DEF Good, NeighborTable, Injection, IsInjective
<1>4. Cardinality(I) <= Cardinality(S)
  <2>1. IsFiniteSet(S)
    BY RecentFinite
  <2> HIDE DEF f, I, S
  <2> QED  BY <1>3, <2>1, FS_Injection
<1>5. Cardinality(I) = Len(t)
  <2>1. Len(t) \in Int /\ Len(t) >= 1 - 1
    BY <1>1
  <2> QED  BY <2>1, FS_Interval
<1> QED  BY <1>4, <1>5

-----------------------------------------------------------------------------
(***************************************************************************)
(* The operations on the table of one node.                                *)
(***************************************************************************)

(* What received_announcement makes of a table.                            *)
Heard(t, m) ==
  IF m \in Addresses(t) THEN Restarted(t, m)
  ELSE IF Len(t) < MAX_NEIGHBORS
    THEN Append(t, [addr |-> m, timer |-> NEIGHBOR_TIMEOUT])
  ELSE t

LEMMA RestartedFacts ==
  ASSUME NEW t, NeighborTable(t), NEW m
  PROVE  /\ NeighborTable(Restarted(t, m)) /\ DOMAIN Restarted(t, m) = DOMAIN t
         /\ \A i \in DOMAIN t :
              /\ Restarted(t, m)[i].addr = t[i].addr
              /\ Restarted(t, m)[i].timer =
                   IF t[i].addr = m THEN NEIGHBOR_TIMEOUT ELSE t[i].timer
<1> DEFINE u == Restarted(t, m)
<1>1. DOMAIN t = 1 .. Len(t) /\ Len(t) \in Nat
  BY TableFacts
<1>2. ASSUME NEW i \in DOMAIN t
      PROVE  /\ u[i] \in example_neighbor /\ u[i].addr = t[i].addr
             /\ u[i].timer = IF t[i].addr = m THEN NEIGHBOR_TIMEOUT ELSE t[i].timer
  <2>1. t[i] \in example_neighbor
    BY TableFacts
  <2> QED  BY <2>1, Constants DEF Restarted, example_neighbor
<1>3. DOMAIN u = 1 .. Len(t)
  BY <1>1 DEF Restarted
<1>4. u \in Seq(example_neighbor) /\ Len(u) = Len(t)
  <2>1. u \in [1 .. Len(t) -> example_neighbor]
    BY <1>1, <1>2 DEF Restarted
  <2> HIDE DEF u
  <2> QED  BY <1>1, <2>1
<1> HIDE DEF u
<1>5. NeighborTable(u)
  BY <1>1, <1>2, <1>3, <1>4 DEF NeighborTable
<1> QED  BY <1>1, <1>2, <1>3, <1>5 DEF u

(* A refused neighbour keeps its reason when another one is heard.         *)
LEMMA RefusedStill ==
  ASSUME NEW t, NEW a, NEW r, Good(t, a, r), NEW m \in Hop, NEW o \in r \ {m},
         [a EXCEPT ![m] = 0][o] = 0
  PROVE  Cardinality(Recent([a EXCEPT ![m] = 0], o)) >= MAX_NEIGHBORS
<1> DEFINE b == [a EXCEPT ![m] = 0]
<1>1. b \in Ages /\ \A p \in Hop : p # m => b[p] = a[p]
  BY Constants DEF Good, Ages
<1>2. b[m] = 0
  BY DEF Good, Ages
<1> HIDE DEF b
<1>3. o \in Hop /\ a[o] = 0
  BY <1>1 DEF Good, b
<1>4. Cardinality(Recent(a, o)) >= MAX_NEIGHBORS
  BY <1>3 DEF Good, Follows
<1>5. Cardinality(Recent(a, o)) <= Cardinality(Recent(b, o))
  BY <1>1, <1>2, Constants, RecentGrows
<1>6. Cardinality(Recent(a, o)) \in Nat /\ Cardinality(Recent(b, o)) \in Nat
  BY RecentFinite
<1> QED  BY <1>4, <1>5, <1>6, Constants DEF b

LEMMA HearKnown ==
  ASSUME NEW t, NEW a, NEW r, Good(t, a, r), NEW m \in Hop, m \in Addresses(t)
  PROVE  Good(Restarted(t, m), [a EXCEPT ![m] = 0], r \ {m})
<1> DEFINE u == Restarted(t, m)
           b == [a EXCEPT ![m] = 0]
<1>1. /\ NeighborTable(u) /\ DOMAIN u = DOMAIN t
      /\ \A i \in DOMAIN t :
           /\ u[i].addr = t[i].addr
           /\ u[i].timer = IF t[i].addr = m THEN NEIGHBOR_TIMEOUT ELSE t[i].timer
  BY RestartedFacts DEF Good
<1>2. /\ a \in Ages /\ b \in Ages /\ b[m] = 0
      /\ \A o \in Hop : o # m => b[o] = a[o]
  BY Constants DEF Good, Ages
<1>3. Addresses(u) = Addresses(t)
  BY <1>1 DEF Addresses
<1> HIDE DEF u, b
<1>4. ASSUME NEW o \in Hop, b[o] < NEIGHBOR_TIMEOUT
      PROVE  o \in Addresses(u) \/ o \in r \ {m}
  BY <1>2, <1>3, <1>4 DEF Good, Follows
<1>5. ASSUME NEW i \in DOMAIN u
      PROVE  u[i].timer = NEIGHBOR_TIMEOUT - b[u[i].addr]
  <2>1. t[i].addr \in Hop /\ t[i].timer = NEIGHBOR_TIMEOUT - a[t[i].addr]
    BY <1>1, TableFacts DEF Good, Follows
  <2> QED  BY <1>1, <1>2, <2>1, Constants
<1>6. ASSUME NEW o \in r \ {m}, b[o] = 0
      PROVE  Cardinality(Recent(b, o)) >= MAX_NEIGHBORS
  BY <1>6, RefusedStill DEF b
<1>7. Follows(u, b, r \ {m})
  BY <1>4, <1>5, <1>6 DEF Follows
<1> QED  BY <1>1, <1>2, <1>7 DEF Good, u, b

LEMMA HearNew ==
  ASSUME NEW t, NEW a, NEW r, Good(t, a, r), NEW m \in Hop, m \notin Addresses(t),
         Len(t) < MAX_NEIGHBORS
  PROVE  LET u == Append(t, [addr |-> m, timer |-> NEIGHBOR_TIMEOUT])
         IN  m \in Addresses(u) /\ Good(u, [a EXCEPT ![m] = 0], r \ {m})
<1> DEFINE e == [addr |-> m, timer |-> NEIGHBOR_TIMEOUT]
           u == Append(t, e)
           b == [a EXCEPT ![m] = 0]
<1>1. e \in example_neighbor /\ e.addr = m /\ e.timer = NEIGHBOR_TIMEOUT
  BY Constants DEF example_neighbor
<1>2. /\ a \in Ages /\ b \in Ages /\ b[m] = 0
      /\ \A o \in Hop : o # m => b[o] = a[o]
  BY Constants DEF Good, Ages
<1>3. /\ DOMAIN t = 1 .. Len(t) /\ Len(t) \in Nat /\ t \in Seq(example_neighbor)
      /\ \A i \in DOMAIN t : t[i].addr \in Hop /\ t[i].addr # m
  BY TableFacts DEF Good, NeighborTable, Addresses
<1> HIDE DEF e
<1>4. /\ u \in Seq(example_neighbor) /\ Len(u) = Len(t) + 1
      /\ DOMAIN u = 1 .. Len(t) + 1
      /\ u[Len(t) + 1] = e /\ \A i \in 1 .. Len(t) : u[i] = t[i]
  BY <1>1, <1>3
<1> HIDE DEF u, b
<1>5. NeighborTable(u)
  <2>1. Len(u) <= MAX_NEIGHBORS
    BY <1>3, <1>4, Constants
  <2>2. ASSUME NEW i \in DOMAIN u, NEW j \in DOMAIN u, u[i].addr = u[j].addr
        PROVE  i = j
    <3>1. CASE i \in 1 .. Len(t) /\ j \in 1 .. Len(t)
      BY <1>3, <1>4, <2>2, <3>1 DEF Good, NeighborTable
    <3>2. CASE i \notin 1 .. Len(t) /\ j \in 1 .. Len(t)
      <4>1. i = Len(t) + 1
        BY <1>3, <1>4, <3>2
      <4> QED  BY <1>1, <1>3, <1>4, <2>2, <3>2, <4>1
    <3>3. CASE i \in 1 .. Len(t) /\ j \notin 1 .. Len(t)
      <4>1. j = Len(t) + 1
        BY <1>3, <1>4, <3>3
      <4> QED  BY <1>1, <1>3, <1>4, <2>2, <3>3, <4>1
    <3>4. CASE i \notin 1 .. Len(t) /\ j \notin 1 .. Len(t)
      BY <1>3, <1>4, <3>4
    <3> QED  BY <3>1, <3>2, <3>3, <3>4
  <2> QED  BY <1>4, <2>1, <2>2 DEF NeighborTable
<1>6. Addresses(t) \subseteq Addresses(u) /\ m \in Addresses(u)
  <2>1. ASSUME NEW i \in DOMAIN t PROVE t[i].addr \in Addresses(u)
    <3>1. i \in DOMAIN u /\ u[i] = t[i]
      BY <1>3, <1>4
    <3> QED  BY <3>1 DEF Addresses
  <2>2. Len(t) + 1 \in DOMAIN u
    BY <1>3, <1>4
  <2> QED  BY <1>1, <1>4, <2>1, <2>2 DEF Addresses
<1>7. ASSUME NEW o \in Hop, b[o] < NEIGHBOR_TIMEOUT
      PROVE  o \in Addresses(u) \/ o \in r \ {m}
  BY <1>2, <1>6, <1>7 DEF Good, Follows
<1>8. ASSUME NEW i \in DOMAIN u
      PROVE  u[i].timer = NEIGHBOR_TIMEOUT - b[u[i].addr]
  <2>1. CASE i \in 1 .. Len(t)
    <3>1. t[i].addr \in Hop /\ t[i].addr # m
          /\ t[i].timer = NEIGHBOR_TIMEOUT - a[t[i].addr]
      BY <1>3, <2>1 DEF Good, Follows
    <3> QED  BY <1>2, <1>4, <2>1, <3>1
  <2>2. CASE i = Len(t) + 1
    BY <1>1, <1>2, <1>4, <2>2, Constants
  <2> QED  BY <1>3, <1>4, <2>1, <2>2
<1>9. ASSUME NEW o \in r \ {m}, b[o] = 0
      PROVE  Cardinality(Recent(b, o)) >= MAX_NEIGHBORS
  BY <1>9, RefusedStill DEF b
<1>10. Follows(u, b, r \ {m})
  BY <1>7, <1>8, <1>9 DEF Follows
<1> QED  BY <1>2, <1>5, <1>6, <1>10 DEF Good, u, b, e

LEMMA HearFull ==
  ASSUME NEW t, NEW a, NEW r, Good(t, a, r), NEW m \in Hop, m \notin Addresses(t),
         ~(Len(t) < MAX_NEIGHBORS)
  PROVE  Good(t, [a EXCEPT ![m] = 0], r \cup {m})
<1> DEFINE b == [a EXCEPT ![m] = 0]
<1>1. /\ a \in Ages /\ b \in Ages /\ b[m] = 0
      /\ \A o \in Hop : o # m => b[o] = a[o]
  BY Constants DEF Good, Ages
<1>2. \A i \in DOMAIN t : t[i].addr \in Hop /\ t[i].addr # m
  BY TableFacts DEF Good, Addresses
<1>3. Cardinality(Recent(b, m)) >= MAX_NEIGHBORS
  <2>1. Recent(b, m) = Recent(a, m)
    BY <1>1 DEF Recent
  <2>2. Len(t) \in Nat /\ Len(t) <= Cardinality(Recent(a, m))
    BY FullTableIsRecent, TableFacts DEF Good
  <2>3. Cardinality(Recent(a, m)) \in Nat
    BY RecentFinite
  <2> QED  BY <2>1, <2>2, <2>3, Constants
<1>4. ASSUME NEW o \in r \ {m}, b[o] = 0
      PROVE  Cardinality(Recent(b, o)) >= MAX_NEIGHBORS
  BY <1>4, RefusedStill DEF b
<1> HIDE DEF b
<1>5. Follows(t, b, r \cup {m})
  BY <1>1, <1>2, <1>3, <1>4 DEF Good, Follows
<1> QED  BY <1>1, <1>5 DEF Good, b

LEMMA HearGood ==
  ASSUME NEW t, NEW a, NEW r, Good(t, a, r), NEW m \in Hop
  PROVE  Good(Heard(t, m), [a EXCEPT ![m] = 0],
              IF m \in Addresses(Heard(t, m)) THEN r \ {m} ELSE r \cup {m})
<1>1. CASE m \in Addresses(t)
  <2>1. Heard(t, m) = Restarted(t, m)
    BY <1>1 DEF Heard
  <2>2. Addresses(Restarted(t, m)) = Addresses(t)
    BY RestartedFacts DEF Good, Addresses
  <2> QED  BY <1>1, <2>1, <2>2, HearKnown
<1>2. CASE m \notin Addresses(t) /\ Len(t) < MAX_NEIGHBORS
  <2>1. Heard(t, m) = Append(t, [addr |-> m, timer |-> NEIGHBOR_TIMEOUT])
    BY <1>2 DEF Heard
  <2>2. m \in Addresses(Heard(t, m)) /\ Good(Heard(t, m), [a EXCEPT ![m] = 0], r \ {m})
    BY <1>2, <2>1, HearNew
  <2> QED  BY <2>2
<1>3. CASE m \notin Addresses(t) /\ ~(Len(t) < MAX_NEIGHBORS)
  <2>1. Heard(t, m) = t
    BY <1>3 DEF Heard
  <2> QED  BY <1>3, <2>1, HearFull
<1> QED  BY <1>1, <1>2, <1>3

LEMMA ListConcat ==
  ASSUME NEW S, NEW v \in Seq(S), NEW w \in Seq(S)
  PROVE  /\ v \o w \in Seq(S) /\ Len(v \o w) = Len(v) + Len(w)
         /\ DOMAIN (v \o w) = 1 .. Len(v) + Len(w)
         /\ \A i \in 1 .. Len(v) : (v \o w)[i] = v[i]
         /\ \A i \in 1 .. Len(w) : (v \o w)[Len(v) + i] = w[i]
  OBVIOUS

(* An entry leaves when its age is the timeout.                            *)
LEMMA RemoveGood ==
  ASSUME NEW t, NEW a, NEW r, Good(t, a, r), NEW k \in DOMAIN t, t[k].timer = 0
  PROVE  Good(RemoveAt(t, k), a, r)
<1> DEFINE u == RemoveAt(t, k)
<1>1. /\ DOMAIN t = 1 .. Len(t) /\ Len(t) \in Nat /\ t \in Seq(example_neighbor)
      /\ \A i \in DOMAIN t : t[i].addr \in Hop
  BY TableFacts DEF Good, NeighborTable
<1>2. /\ u \in Seq(example_neighbor) /\ Len(u) = Len(t) - 1
      /\ DOMAIN u = 1 .. Len(t) - 1
      /\ \A i \in 1 .. Len(t) - 1 : u[i] = IF i < k THEN t[i] ELSE t[i + 1]
  <2>1. SubSeq(t, 1, k - 1) \in Seq(example_neighbor)
        /\ SubSeq(t, k + 1, Len(t)) \in Seq(example_neighbor)
    BY <1>1
  <2>2. Len(SubSeq(t, 1, k - 1)) = k - 1 /\ Len(SubSeq(t, k + 1, Len(t))) = Len(t) - k
    BY <1>1
  <2>3. /\ \A i \in 1 .. k - 1 : SubSeq(t, 1, k - 1)[i] = t[i]
        /\ \A i \in 1 .. Len(t) - k : SubSeq(t, k + 1, Len(t))[i] = t[i + k]
    BY <1>1
  <2> DEFINE v == SubSeq(t, 1, k - 1)
             w == SubSeq(t, k + 1, Len(t))
  <2>4. u = v \o w
    BY DEF RemoveAt
  <2>5. k \in 1 .. Len(t) /\ Len(t) \in Nat
    BY <1>1
  <2> HIDE DEF u, v, w
  <2>6. v \in Seq(example_neighbor) /\ w \in Seq(example_neighbor)
        /\ Len(v) = k - 1 /\ Len(w) = Len(t) - k
    BY <2>1, <2>2 DEF v, w
  <2>7. /\ u \in Seq(example_neighbor) /\ Len(u) = Len(v) + Len(w)
        /\ DOMAIN u = 1 .. Len(v) + Len(w)
        /\ \A i \in 1 .. Len(v) : u[i] = v[i]
        /\ \A i \in 1 .. Len(w) : u[Len(v) + i] = w[i]
    <3>1. v \in Seq(example_neighbor) /\ w \in Seq(example_neighbor)
      BY <2>6
    <3>2. /\ v \o w \in Seq(example_neighbor) /\ Len(v \o w) = Len(v) + Len(w)
          /\ DOMAIN (v \o w) = 1 .. Len(v) + Len(w)
          /\ \A i \in 1 .. Len(v) : (v \o w)[i] = v[i]
          /\ \A i \in 1 .. Len(w) : (v \o w)[Len(v) + i] = w[i]
      BY <3>1, ListConcat
    <3> QED  BY <2>4, <3>2, Zenon
  <2>8. Len(v) + Len(w) = Len(t) - 1
    BY <2>5, <2>6
  <2>9. ASSUME NEW i \in 1 .. Len(t) - 1
        PROVE  u[i] = IF i < k THEN t[i] ELSE t[i + 1]
    <3>2. CASE i < k
      <4>1. i \in 1 .. Len(v)
        BY <2>5, <2>6, <3>2
      <4>2. u[i] = v[i]
        BY <2>7, <4>1
      <4> QED  BY <2>3, <2>6, <3>2, <4>1, <4>2 DEF v
    <3>3. CASE ~(i < k)
      <4> DEFINE j == i - (k - 1)
      <4>1. j \in 1 .. Len(w) /\ Len(v) + j = i /\ j + k = i + 1
        BY <2>5, <2>6, <3>3
      <4> HIDE DEF j
      <4>2. u[i] = w[j]
        BY <2>7, <4>1
      <4>3. w[j] = t[j + k]
        BY <2>3, <2>6, <4>1 DEF w
      <4> QED  BY <3>3, <4>1, <4>2, <4>3
    <3> QED  BY <3>2, <3>3
  <2> QED  BY <2>7, <2>8, <2>9
<1> HIDE DEF u
<1>3. \A i \in DOMAIN u :
        \E j \in DOMAIN t : j # k /\ u[i] = t[j] /\ j = IF i < k THEN i ELSE i + 1
  BY <1>1, <1>2
<1>4. \A j \in DOMAIN t : j # k => \E i \in DOMAIN u : u[i] = t[j]
  <2> TAKE j \in DOMAIN t
  <2>1. CASE j < k
    BY <1>1, <1>2, <2>1
  <2>2. CASE j > k
    <3>1. j - 1 \in DOMAIN u /\ ~(j - 1 < k) /\ (j - 1) + 1 = j
      BY <1>1, <1>2, <2>2
    <3>2. u[j - 1] = t[j]
      BY <1>2, <3>1
    <3> QED  BY <3>1, <3>2
  <2> QED  BY <1>1, <2>1, <2>2
<1>5. NeighborTable(u)
  <2>1. ASSUME NEW i \in DOMAIN u, NEW j \in DOMAIN u, u[i].addr = u[j].addr
        PROVE  i = j
    <3>1. (IF i < k THEN i ELSE i + 1) = (IF j < k THEN j ELSE j + 1)
      BY <1>3, <2>1 DEF Good, NeighborTable
    <3> QED  BY <1>1, <1>2, <3>1
  <2>2. Len(u) <= MAX_NEIGHBORS
    BY <1>1, <1>2, Constants DEF Good, NeighborTable
  <2> QED  BY <1>2, <2>1, <2>2 DEF NeighborTable
<1>6. ASSUME NEW m \in Hop, a[m] < NEIGHBOR_TIMEOUT
      PROVE  m \in Addresses(u) \/ m \in r
  <2>1. CASE m \in r
    BY <2>1
  <2>2. CASE m \notin r
    <3>1. PICK j \in DOMAIN t : t[j].addr = m
      BY <1>6, <2>2 DEF Good, Follows, Addresses
    <3>2. t[k].addr # m
      <4>1. t[k].timer = NEIGHBOR_TIMEOUT - a[t[k].addr]
        BY DEF Good, Follows
      <4>2. a[m] \in Int
        BY DEF Good, Ages
      <4> QED  BY <1>6, <4>1, <4>2, Constants
    <3>3. PICK i \in DOMAIN u : u[i] = t[j]
      BY <1>4, <3>1, <3>2
    <3> QED  BY <3>1, <3>3 DEF Addresses
  <2> QED  BY <2>1, <2>2
<1>7. \A i \in DOMAIN u : u[i].timer = NEIGHBOR_TIMEOUT - a[u[i].addr]
  BY <1>3 DEF Good, Follows
<1>8. Follows(u, a, r)
  BY <1>6, <1>7 DEF Good, Follows
<1> QED  BY <1>5, <1>8 DEF Good, u

Older(a) == [m \in Hop |-> IF a[m] < Never THEN a[m] + 1 ELSE Never]

LEMMA TickGood ==
  ASSUME NEW t, NEW a, NEW r, Good(t, a, r), \A i \in DOMAIN t : t[i].timer > 0
  PROVE  Good([i \in DOMAIN t |-> [t[i] EXCEPT !.timer = @ - 1]], Older(a), r)
<1> DEFINE u == [i \in DOMAIN t |-> [t[i] EXCEPT !.timer = @ - 1]]
           b == Older(a)
<1>1. /\ DOMAIN t = 1 .. Len(t) /\ Len(t) \in Nat
      /\ \A i \in DOMAIN t : /\ t[i] \in example_neighbor
                             /\ t[i].addr \in Hop
                             /\ t[i].timer \in 0 .. NEIGHBOR_TIMEOUT
  BY TableFacts DEF Good
<1>2. \A m \in Hop : a[m] \in 0 .. Never
  BY DEF Good, Ages
<1>3. ASSUME NEW i \in DOMAIN t
      PROVE  /\ u[i] \in example_neighbor /\ u[i].addr = t[i].addr
             /\ u[i].timer = t[i].timer - 1
  BY <1>1, Constants DEF example_neighbor
<1>4. DOMAIN u = DOMAIN t
  OBVIOUS
<1>5. u \in Seq(example_neighbor) /\ Len(u) = Len(t)
  <2>1. u \in [1 .. Len(t) -> example_neighbor]
    BY <1>1, <1>3
  <2> HIDE DEF u
  <2> QED  BY <1>1, <2>1
<1>6. b \in Ages /\ \A m \in Hop : b[m] = IF a[m] < Never THEN a[m] + 1 ELSE Never
  BY <1>2, Constants DEF Older, Ages
<1> HIDE DEF u, b
<1>7. NeighborTable(u)
  BY <1>3, <1>4, <1>5 DEF Good, NeighborTable
<1>8. ASSUME NEW m \in Hop, b[m] < NEIGHBOR_TIMEOUT
      PROVE  m \in Addresses(u) \/ m \in r
  <2>1. a[m] < NEIGHBOR_TIMEOUT
    BY <1>2, <1>6, <1>8, Constants
  <2>2. Addresses(t) = Addresses(u)
    BY <1>3, <1>4 DEF Addresses
  <2> QED  BY <2>1, <2>2 DEF Good, Follows
<1>9. ASSUME NEW i \in DOMAIN u
      PROVE  u[i].timer = NEIGHBOR_TIMEOUT - b[u[i].addr]
  <2> DEFINE m == t[i].addr
  <2>1. /\ m \in Hop /\ u[i].addr = m /\ u[i].timer = t[i].timer - 1
        /\ t[i].timer = NEIGHBOR_TIMEOUT - a[m] /\ t[i].timer > 0
    BY <1>1, <1>3, <1>4 DEF Good, Follows
  <2> HIDE DEF m
  <2>2. a[m] \in 0 .. Never /\ b[m] = IF a[m] < Never THEN a[m] + 1 ELSE Never
    BY <1>2, <1>6, <2>1
  <2>3. t[i].timer \in Int
    BY <1>1, <1>4
  <2> QED  BY <2>1, <2>2, <2>3, Constants
<1>10. ASSUME NEW m \in r PROVE b[m] # 0
  BY <1>2, <1>6, Constants DEF Good
<1>11. Follows(u, b, r)
  BY <1>8, <1>9, <1>10 DEF Follows
<1> QED  BY <1>6, <1>7, <1>11 DEF Good, u, b

LEMMA EmptyGood == Good(<<>>, [m \in Hop |-> Never], {})
<1> DEFINE a == [m \in Hop |-> Never]
<1>1. NeighborTable(<<>>) /\ DOMAIN <<>> = {}
  BY Constants DEF NeighborTable
<1>2. a \in Ages /\ \A m \in Hop : ~(a[m] < NEIGHBOR_TIMEOUT)
  BY Constants DEF Ages
<1>3. Follows(<<>>, a, {})
  BY <1>1, <1>2 DEF Follows
<1> QED  BY <1>1, <1>2, <1>3 DEF Good

-----------------------------------------------------------------------------
(***************************************************************************)
(* The steps.                                                              *)
(***************************************************************************)

LEMMA MultihopInvInit == MultihopInit => MultihopIInv
<1> SUFFICES ASSUME MultihopInit PROVE MultihopIInv
  OBVIOUS
<1>1. \A n \in Hop : Good(neighbor_table[n], age[n], refused[n])
  BY EmptyGood DEF MultihopInit
<1>2. 0 \in 0 .. MaxCrashes
  BY Constants
<1>3. /\ <<>> \in Seq(example_neighbor) /\ Len(<<>>) <= MAX_NEIGHBORS
      /\ [m \in Hop |-> Never] \in [Hop -> 0 .. Never]
  BY Constants
<1>4. MultihopTypeOK
  BY <1>2, <1>3 DEF MultihopInit, MultihopTypeOK
<1> QED  BY <1>1, <1>4 DEF MultihopIInv, TablesInv

LEMMA MultihopInvStep == MultihopIInv /\ [MultihopNext]_multihopVars => MultihopIInv'
<1> SUFFICES ASSUME MultihopIInv, [MultihopNext]_multihopVars
             PROVE  MultihopIInv'
  OBVIOUS
<1>1. /\ MultihopTypeOK
      /\ \A n \in Hop : Good(neighbor_table[n], age[n], refused[n])
  BY DEF MultihopIInv, TablesInv
<1>2. ASSUME neighbor_table' = [n \in Hop |-> neighbor_table'[n]],
             age' = [n \in Hop |-> age'[n]], refused' = [n \in Hop |-> refused'[n]],
             up' \in SUBSET Hop, packet' \in (Hop \X Hop) \cup {NoPacket},
             crashes' \in 0 .. MaxCrashes,
             \A n \in Hop : Good(neighbor_table'[n], age'[n], refused'[n])
      PROVE  MultihopIInv'
  <2>1. \A n \in Hop : /\ neighbor_table'[n] \in Seq(example_neighbor)
                       /\ Len(neighbor_table'[n]) <= MAX_NEIGHBORS
                       /\ age'[n] \in [Hop -> 0 .. Never]
                       /\ refused'[n] \in SUBSET Hop
    BY <1>2 DEF Good, NeighborTable, Ages
  <2>2. neighbor_table' \in [Hop -> Seq(example_neighbor)]
    BY <1>2, <2>1
  <2>3. age' \in [Hop -> [Hop -> 0 .. Never]]
    BY <1>2, <2>1
  <2>4. refused' \in [Hop -> SUBSET Hop]
    BY <1>2, <2>1
  <2>5. MultihopTypeOK'
    BY <1>2, <2>1, <2>2, <2>3, <2>4 DEF MultihopTypeOK
  <2> QED  BY <1>2, <2>5 DEF MultihopIInv, TablesInv
<1>3. ASSUME NEW m \in Hop, NEW R \in SUBSET Hop, Announce(m, R)
      PROVE  MultihopIInv'
  <2>1. ASSUME NEW n \in Hop
        PROVE  Good(neighbor_table'[n], age'[n], refused'[n])
    <3>1. CASE n \in R
      <4>1. neighbor_table'[n] = Heard(neighbor_table[n], m)
        BY <1>3, <3>1
           DEF Announce, received_announcement, HasRoom, Neighbors, Heard, Addresses
      <4>2. age'[n] = [age[n] EXCEPT ![m] = 0]
        BY <1>3, <3>1 DEF Announce
      <4>3. refused'[n] = IF m \in Addresses(neighbor_table'[n])
                            THEN refused[n] \ {m} ELSE refused[n] \cup {m}
        BY <1>3, <3>1 DEF Announce, Neighbors, Addresses
      <4> QED  BY <1>1, <4>1, <4>2, <4>3, HearGood
    <3>2. CASE n \notin R
      <4>1. neighbor_table'[n] = neighbor_table[n] /\ age'[n] = age[n]
            /\ refused'[n] = refused[n]
        BY <1>3, <3>2 DEF Announce
      <4> QED  BY <1>1, <4>1
    <3> QED  BY <3>1, <3>2
  <2> QED  BY <1>1, <1>2, <1>3, <2>1 DEF Announce, MultihopTypeOK
<1>4. ASSUME NEW n \in Hop, NEW i \in 1 .. MAX_NEIGHBORS, remove_neighbor(n, i)
      PROVE  MultihopIInv'
  <2>1. ASSUME NEW m \in Hop
        PROVE  Good(neighbor_table'[m], age'[m], refused'[m])
    <3>1. CASE m = n
      <4>1. neighbor_table'[n] = RemoveAt(neighbor_table[n], i)
            /\ age'[n] = age[n] /\ refused'[n] = refused[n]
        BY <1>1, <1>4 DEF remove_neighbor, MultihopTypeOK
      <4>2. i \in DOMAIN neighbor_table[n] /\ neighbor_table[n][i].timer = 0
        BY <1>4 DEF remove_neighbor
      <4> QED  BY <1>1, <3>1, <4>1, <4>2, RemoveGood
    <3>2. CASE m # n
      <4>1. neighbor_table'[m] = neighbor_table[m]
            /\ age'[m] = age[m] /\ refused'[m] = refused[m]
        BY <1>1, <1>4, <3>2 DEF remove_neighbor, MultihopTypeOK
      <4> QED  BY <1>1, <4>1
    <3> QED  BY <3>1, <3>2
  <2> QED  BY <1>1, <1>2, <1>4, <2>1 DEF remove_neighbor, MultihopTypeOK
<1>5. ASSUME Tick PROVE MultihopIInv'
  <2>1. ASSUME NEW n \in Hop
        PROVE  Good(neighbor_table'[n], age'[n], refused'[n])
    <3>1. /\ neighbor_table'[n] = [i \in DOMAIN neighbor_table[n] |->
                                     [neighbor_table[n][i] EXCEPT !.timer = @ - 1]]
          /\ age'[n] = Older(age[n]) /\ refused'[n] = refused[n]
          /\ \A i \in DOMAIN neighbor_table[n] : neighbor_table[n][i].timer > 0
      BY <1>5 DEF Tick, Older
    <3> QED  BY <1>1, <3>1, TickGood
  <2> QED  BY <1>1, <1>2, <1>5, <2>1 DEF Tick, MultihopTypeOK
<1>6. ASSUME NEW n \in Hop PROVE forward(n) \subseteq (Hop \X Hop) \cup {NoPacket}
  <2>1. Neighbors(n) \subseteq Hop
    BY <1>1, TableFacts DEF Neighbors, Good
  <2> QED  BY <2>1 DEF forward
<1>7. ASSUME UNCHANGED <<neighbor_table, up, crashes, age, refused>>,
             packet' \in (Hop \X Hop) \cup {NoPacket}
      PROVE  MultihopIInv'
  BY <1>1, <1>2, <1>7 DEF MultihopTypeOK
<1>8. ASSUME NEW n \in Hop, Press(n) \/ Relay(n) PROVE MultihopIInv'
  BY <1>6, <1>7, <1>8 DEF Press, Relay
<1>9. CASE recv \/ Lose
  BY <1>7, <1>9 DEF recv, Lose
<1>10. ASSUME NEW n \in Hop, Crash(n) PROVE MultihopIInv'
  <2>1. ASSUME NEW m \in Hop
        PROVE  Good(neighbor_table'[m], age'[m], refused'[m])
    <3>1. CASE m = n
      <4>1. neighbor_table'[n] = <<>> /\ age'[n] = [o \in Hop |-> Never]
            /\ refused'[n] = {}
        BY <1>1, <1>10 DEF Crash, MultihopTypeOK
      <4> QED  BY <3>1, <4>1, EmptyGood
    <3>2. CASE m # n
      <4>1. neighbor_table'[m] = neighbor_table[m]
            /\ age'[m] = age[m] /\ refused'[m] = refused[m]
        BY <1>1, <1>10, <3>2 DEF Crash, MultihopTypeOK
      <4> QED  BY <1>1, <4>1
    <3> QED  BY <3>1, <3>2
  <2>2. crashes' \in 0 .. MaxCrashes /\ up' \in SUBSET Hop
    BY <1>1, <1>10, Constants DEF Crash, MultihopTypeOK
  <2> QED  BY <1>1, <1>2, <1>10, <2>1, <2>2 DEF Crash, MultihopTypeOK
<1>11. ASSUME NEW n \in Hop, Start(n) PROVE MultihopIInv'
  BY <1>1, <1>2, <1>11 DEF Start, MultihopTypeOK
<1>12. CASE UNCHANGED multihopVars
  BY <1>1, <1>7, <1>12 DEF multihopVars, MultihopTypeOK
<1> QED  BY <1>3, <1>4, <1>5, <1>8, <1>9, <1>10, <1>11, <1>12 DEF MultihopNext

LEMMA MultihopInvHolds == MultihopSpec => []MultihopIInv
  BY MultihopInvInit, MultihopInvStep, PTL DEF MultihopSpec

(* Every variable keeps its type, and no table outgrows its pool.          *)
THEOREM MultihopTypeCorrect == MultihopSpec => []MultihopTypeOK
<1>1. MultihopIInv => MultihopTypeOK
  BY DEF MultihopIInv
<1> QED  BY <1>1, MultihopInvHolds, PTL

(* Whatever is announced, lost, expires or fails: the neighbours heard     *)
(* within the timeout are in the table, or were refused, which happens to  *)
(* one only when MAX_NEIGHBORS others are recent.                          *)
THEOREM TableTheorem == MultihopSpec => []TableFollowsAnnouncements
<1>1. ASSUME MultihopIInv PROVE TableFollowsAnnouncements
  <2>1. \A n \in Hop : Follows(neighbor_table[n], age[n], refused[n])
    BY <1>1 DEF MultihopIInv, TablesInv, Good
  <2> QED  BY <2>1 DEF TableFollowsAnnouncements, Follows, Neighbors, Addresses, Recent
<1> QED  BY <1>1, MultihopInvHolds, PTL

-----------------------------------------------------------------------------
(***************************************************************************)
(* Theorems about Rudolph, for every set of nodes, size of the file and of *)
(* the chunks.  They rest on what a node has of the file being sent: the   *)
(* part up to the offset it gets next.                                     *)
(***************************************************************************)

(* Between the first chunk and the last, red is on, and codeprop.out is    *)
(* the beginning of the file unless a call failed.                         *)
PartInv ==
  \A n \in Mote :
    source \notin {NoSource, n} /\ next[n] \notin {0, Complete} =>
      /\ n \in red
      /\ next[n] <= Len(hej[source])
      /\ n \notin failed => codeprop[n] = SubSeq(hej[source], 1, next[n])

RudolphIInv == RudolphTypeOK /\ PartInv /\ YellowFileIsWhole

-----------------------------------------------------------------------------
(***************************************************************************)
(* Files and chunks.                                                       *)
(***************************************************************************)
LEMMA Sizes ==
  /\ FILESIZE \in Nat /\ FILESIZE >= 2 /\ ChunkSize \in Nat /\ ChunkSize >= 1
  /\ MaxStarts \in Nat /\ DataSource \in Mote
  BY RudolphAssumption

LEMMA FileFacts ==
  ASSUME NEW f \in Files
  PROVE  /\ f \in Seq(Nat) /\ Len(f) \in 0 .. FILESIZE /\ f = File(Len(f))
         /\ \A i \in 1 .. Len(f) : f[i] = i - 1
<1>1. PICK k \in 0 .. FILESIZE : f = File(k)
  BY DEF Files
<1>2. f \in [1 .. k -> Nat] /\ k \in Nat
  BY <1>1, Sizes DEF File
<1>3. f \in Seq(Nat) /\ Len(f) = k
  BY <1>2
<1> QED  BY <1>1, <1>3 DEF File

LEMMA FileLength ==
  ASSUME NEW k \in 0 .. FILESIZE
  PROVE  /\ File(k) \in Files /\ Len(File(k)) = k /\ (File(k) = <<>> <=> k = 0)
<1>1. File(k) \in [1 .. k -> Int] /\ k \in Nat
  BY Sizes DEF File
<1>2. Len(File(k)) = k /\ File(k) \in Seq(Int)
  BY <1>1
<1>3. k = 0 => File(k) = <<>>
  BY <1>2
<1> QED  BY <1>2, <1>3 DEF Files

(* A beginning of a file is a file.                                        *)
LEMMA Beginning ==
  ASSUME NEW f \in Files, NEW k \in 0 .. Len(f)
  PROVE  /\ SubSeq(f, 1, k) = File(k) /\ SubSeq(f, 1, k) \in Files
         /\ Len(SubSeq(f, 1, k)) = k
<1>1. f \in Seq(Nat) /\ Len(f) \in 0 .. FILESIZE /\ \A i \in 1 .. Len(f) : f[i] = i - 1
  BY FileFacts
<1>2. /\ Len(SubSeq(f, 1, k)) = k /\ DOMAIN SubSeq(f, 1, k) = 1 .. k
      /\ \A i \in 1 .. k : SubSeq(f, 1, k)[i] = f[i]
  BY <1>1
<1>3. SubSeq(f, 1, k) = [i \in 1 .. k |-> SubSeq(f, 1, k)[i]]
  BY <1>1, <1>2
<1>4. SubSeq(f, 1, k) = File(k)
  BY <1>1, <1>2, <1>3 DEF File
<1>5. k \in 0 .. FILESIZE
  BY <1>1, Sizes
<1> QED  BY <1>2, <1>4, <1>5, FileLength

LEMMA Everything ==
  ASSUME NEW f \in Files
  PROVE  SubSeq(f, 1, Len(f)) = f
<1>1. f = File(Len(f)) /\ Len(f) \in 0 .. FILESIZE
  BY FileFacts
<1>2. Len(f) \in 0 .. Len(f)
  BY <1>1, Sizes
<1> QED  BY <1>1, <1>2, Beginning

LEMMA FileBytes == Files \subseteq Seq(Bytes)
<1> SUFFICES ASSUME NEW f \in Files PROVE f \in Seq(Bytes)
  OBVIOUS
<1>1. f \in Seq(Nat) /\ Len(f) \in 0 .. FILESIZE /\ \A i \in 1 .. Len(f) : f[i] = i - 1
  BY FileFacts
<1>2. \A i \in 1 .. Len(f) : f[i] \in Bytes
  BY <1>1, Sizes DEF Bytes
<1>3. f \in [1 .. Len(f) -> Bytes] /\ Len(f) \in Nat
  BY <1>1, <1>2
<1> QED  BY <1>3

(* A write leaves a file, with a hole if it skips something.               *)
LEMMA PutFacts ==
  ASSUME NEW file \in Seq(Bytes), NEW k \in Nat, NEW data \in Seq(Bytes)
  PROVE  /\ Put(file, k, data) \in Seq(Bytes)
         /\ k = Len(file) =>
              /\ Len(Put(file, k, data)) = k + Len(data)
              /\ \A i \in 1 .. k + Len(data) :
                   Put(file, k, data)[i] = IF i <= k THEN file[i] ELSE data[i - k]
<1> DEFINE end == k + Len(data)
           length == IF end > Len(file) THEN end ELSE Len(file)
           byte(i) == IF i \in k + 1 .. end THEN data[i - k]
                      ELSE IF i <= Len(file) THEN file[i] ELSE Hole
<1>1. Put(file, k, data) = [i \in 1 .. length |-> byte(i)]
  BY DEF Put
<1>2. length \in Nat /\ Len(file) \in Nat /\ Len(data) \in Nat
  OBVIOUS
<1>3. \A i \in 1 .. length : byte(i) \in Bytes
  <2> TAKE i \in 1 .. length
  <2>1. CASE i \in k + 1 .. end
    <3>1. i - k \in 1 .. Len(data)
      BY <1>2, <2>1
    <3> QED  BY <2>1, <3>1
  <2>2. CASE i \notin k + 1 .. end /\ i <= Len(file)
    <3>1. i \in 1 .. Len(file)
      BY <1>2, <2>2
    <3> QED  BY <2>2, <3>1
  <2>3. CASE i \notin k + 1 .. end /\ ~(i <= Len(file))
    BY <2>3 DEF Bytes
  <2> QED  BY <2>1, <2>2, <2>3
<1> HIDE DEF byte, length
<1>4. Put(file, k, data) \in Seq(Bytes) /\ Len(Put(file, k, data)) = length
  <2> DEFINE g == [i \in 1 .. length |-> byte(i)]
  <2>1. g \in [1 .. length -> Bytes]
    BY <1>3
  <2> HIDE DEF g
  <2>2. g \in Seq(Bytes) /\ Len(g) = length
    BY <1>2, <2>1
  <2> QED  BY <1>1, <2>2 DEF g
<1>5. k = Len(file) => length = k + Len(data)
  BY <1>2 DEF length
<1>6. k = Len(file) => \A i \in 1 .. length :
        Put(file, k, data)[i] = IF i <= k THEN file[i] ELSE data[i - k]
  <2> SUFFICES ASSUME k = Len(file), NEW i \in 1 .. length
               PROVE  byte(i) = IF i <= k THEN file[i] ELSE data[i - k]
    BY <1>1
  <2>1. i \in k + 1 .. end <=> ~(i <= k)
    BY <1>2, <1>5
  <2> QED  BY <2>1 DEF byte
<1> QED  BY <1>4, <1>5, <1>6

(* What a chunk appends to the beginning of the file it is from.           *)
LEMMA Appended ==
  ASSUME NEW f \in Files, NEW k \in 0 .. Len(f), NEW e \in k .. Len(f)
  PROVE  LET d == SubSeq(f, k + 1, e)
         IN  /\ d \in Seq(Bytes) /\ Len(d) = e - k
             /\ Put(SubSeq(f, 1, k), k, d) = SubSeq(f, 1, e)
<1> DEFINE g == SubSeq(f, 1, k)
           d == SubSeq(f, k + 1, e)
           h == Put(g, k, d)
<1>1. /\ f \in Seq(Nat) /\ Len(f) \in Nat /\ k \in Nat /\ e \in Nat /\ k <= e /\ e <= Len(f)
      /\ \A i \in 1 .. Len(f) : f[i] = i - 1
  BY FileFacts, Sizes
<1>2. g \in Files /\ Len(g) = k
  BY Beginning
<1>3. Len(d) = e - k /\ \A i \in 1 .. e - k : d[i] = k + i - 1
  <2>1. Len(d) = e - k
    BY <1>1
  <2>2. ASSUME NEW i \in 1 .. e - k PROVE d[i] = k + i - 1
    <3>1. d[i] = f[k + i]
      BY <1>1
    <3> QED  BY <1>1, <3>1
  <2> QED  BY <2>1, <2>2
<1>4. d \in Seq(Bytes)
  <2>1. f \in Seq(Bytes)
    BY FileBytes
  <2> QED  BY <1>1, <2>1
<1>5. g \in Seq(Bytes) /\ \A i \in 1 .. k : g[i] = i - 1
  BY <1>2, FileFacts, FileBytes
<1> HIDE DEF g, d
<1>6. /\ h \in Seq(Bytes) /\ Len(h) = e
      /\ \A i \in 1 .. e : h[i] = IF i <= k THEN g[i] ELSE d[i - k]
  <2>1. k + Len(d) = e /\ k = Len(g)
    BY <1>1, <1>2, <1>3
  <2>2. /\ h \in Seq(Bytes) /\ Len(h) = k + Len(d)
        /\ \A i \in 1 .. k + Len(d) : h[i] = IF i <= k THEN g[i] ELSE d[i - k]
    <3>1. k \in Nat /\ g \in Seq(Bytes) /\ d \in Seq(Bytes)
      BY <1>1, <1>4, <1>5
    <3> QED  BY <2>1, <3>1, PutFacts
  <2> QED  BY <2>1, <2>2
<1> HIDE DEF h
<1>7. \A i \in 1 .. e : h[i] = i - 1
  <2> TAKE i \in 1 .. e
  <2>1. CASE i <= k
    <3>1. i \in 1 .. k
      BY <1>1, <2>1
    <3> QED  BY <1>5, <1>6, <2>1, <3>1
  <2>2. CASE ~(i <= k)
    <3>1. i - k \in 1 .. e - k /\ k + (i - k) - 1 = i - 1
      BY <1>1, <2>2
    <3> QED  BY <1>3, <1>6, <2>2, <3>1
  <2> QED  BY <2>1, <2>2
<1>8. e \in 0 .. FILESIZE /\ e \in 0 .. Len(f)
  BY <1>1, FileFacts, Sizes
<1>9. /\ File(e) \in Seq(Bytes) /\ Len(File(e)) = e
      /\ \A i \in 1 .. e : File(e)[i] = i - 1
  BY <1>8, FileLength, FileFacts, FileBytes
<1>10. h = File(e)
  BY <1>6, <1>7, <1>9, SeqEqual
<1>11. SubSeq(f, 1, e) = File(e)
  BY <1>8, Beginning
<1> QED  BY <1>3, <1>4, <1>10, <1>11 DEF g, d, h

-----------------------------------------------------------------------------
(***************************************************************************)
(* The actions.                                                            *)
(***************************************************************************)

(* A chunk written where the file ends continues it up to the end of the   *)
(* chunk; the last chunk ends where the file ends.                         *)
LEMMA ChunkFacts ==
  ASSUME RudolphTypeOK, PartInv,
         NEW n \in Mote, source \notin {NoSource, n}, next[n] # Complete
  PROVE  LET f == hej[source]
             k == next[n]
             data == read_chunk(source, k)
         IN  /\ f \in Files /\ k \in 0 .. Len(f) /\ data \in Seq(Bytes)
             /\ Len(SubSeq(f, 1, k)) = k
             /\ Len(data) < ChunkSize => Put(SubSeq(f, 1, k), k, data) = f
             /\ ~(Len(data) < ChunkSize) =>
                  /\ k + ChunkSize \in 1 .. Len(f)
                  /\ k + ChunkSize \in 1 .. FILESIZE
                  /\ Put(SubSeq(f, 1, k), k, data) = SubSeq(f, 1, k + ChunkSize)
<1> DEFINE f == hej[source]
           k == next[n]
           data == read_chunk(source, k)
           e == IF k + ChunkSize < Len(f) THEN k + ChunkSize ELSE Len(f)
           file == SubSeq(f, 1, k)
<1>1. f \in Files /\ k \in 0 .. FILESIZE /\ (k # 0 => k <= Len(f))
  BY DEF RudolphTypeOK, PartInv
<1>2. Len(f) \in 0 .. FILESIZE
  BY <1>1, FileFacts
<1>3. k \in 0 .. Len(f) /\ e \in k .. Len(f)
  BY <1>1, <1>2, Sizes
<1>4. data = SubSeq(f, k + 1, e)
  BY DEF read_chunk
<1>5. Len(file) = k
  BY <1>1, <1>3, Beginning
<1> HIDE DEF f, k, data, e, file
<1>6. data \in Seq(Bytes) /\ Len(data) = e - k /\ Put(file, k, data) = SubSeq(f, 1, e)
  BY <1>1, <1>3, <1>4, Appended DEF file
<1>7. CASE Len(data) < ChunkSize
  <2>1. e = Len(f)
    BY <1>1, <1>2, <1>3, <1>6, <1>7, Sizes DEF e
  <2> QED  BY <1>1, <1>3, <1>5, <1>6, <1>7, <2>1, Everything DEF f, k, data, file
<1>8. CASE ~(Len(data) < ChunkSize)
  <2>1. e = k + ChunkSize /\ e \in 1 .. Len(f) /\ e \in 1 .. FILESIZE
    <3>1. Len(f) \in Nat /\ Len(f) <= FILESIZE /\ k \in Nat /\ e \in Int
      BY <1>2, <1>3
    <3>2. e - k >= ChunkSize
      BY <1>6, <1>8, <3>1, Sizes
    <3>3. e <= k + ChunkSize /\ e <= Len(f)
      BY <3>1, Sizes DEF e
    <3> QED  BY <3>1, <3>2, <3>3, Sizes
  <2> QED  BY <1>1, <1>3, <1>5, <1>6, <1>8, <2>1 DEF f, k, data, file
<1> QED  BY <1>7, <1>8 DEF f, k, data, file

LEMMA RudolphDeliver ==
  ASSUME RudolphIInv, NEW n \in Mote, DeliverChunk(n)
  PROVE  RudolphIInv'
<1> DEFINE f == hej[source]
           k == next[n]
           data == read_chunk(source, k)
           last == Len(data) < ChunkSize
<1>1. /\ RudolphTypeOK /\ PartInv /\ YellowFileIsWhole
      /\ source \notin {NoSource, n} /\ k # Complete /\ source \in Mote
  BY DEF RudolphIInv, DeliverChunk, RudolphTypeOK
<1>2. /\ f \in Files /\ k \in 0 .. Len(f) /\ data \in Seq(Bytes)
      /\ Len(SubSeq(f, 1, k)) = k
      /\ last => Put(SubSeq(f, 1, k), k, data) = f
      /\ ~last => /\ k + ChunkSize \in 1 .. Len(f)
                  /\ k + ChunkSize \in 1 .. FILESIZE
                  /\ Put(SubSeq(f, 1, k), k, data) = SubSeq(f, 1, k + ChunkSize)
  BY <1>1, ChunkFacts
<1>3. /\ UNCHANGED <<image, hej, source, starts>>
      /\ write_chunk(n, k = 0, last, k, data)
      /\ next' = [next EXCEPT ![n] = IF last THEN Complete ELSE k + ChunkSize]
      /\ got' = IF last THEN [got EXCEPT ![n] = f] ELSE got
  BY DEF DeliverChunk
<1> HIDE DEF f, k, data, last
<1>4. PICK opens \in BOOLEAN :
        LET file == Opened(n, k = 0, opens)
        IN  \E at \in {Len(file)} \cup (IF data = <<>> THEN {} ELSE {k}),
               count \in 0 .. Len(data) :
              /\ codeprop' = [codeprop EXCEPT ![n] = Put(file, at, SubSeq(data, 1, count))]
              /\ failed' =
                   IF (k = 0 => opens) /\ (data # <<>> => at = k) /\ count = Len(data)
                   THEN IF k = 0 THEN failed \ {n} ELSE failed
                   ELSE failed \cup {n}
  BY <1>3 DEF write_chunk
<1> DEFINE file == Opened(n, k = 0, opens)
<1>5. PICK at \in {Len(file)} \cup (IF data = <<>> THEN {} ELSE {k}), count \in 0 .. Len(data) :
        /\ codeprop' = [codeprop EXCEPT ![n] = Put(file, at, SubSeq(data, 1, count))]
        /\ failed' =
             IF (k = 0 => opens) /\ (data # <<>> => at = k) /\ count = Len(data)
             THEN IF k = 0 THEN failed \ {n} ELSE failed
             ELSE failed \cup {n}
  BY <1>4
<1>6. /\ red' = IF last THEN red \ {n} ELSE IF k = 0 THEN red \cup {n} ELSE red
      /\ yellow' = IF last THEN yellow \cup {n} ELSE yellow
  BY <1>3 DEF write_chunk
<1>7. file \in Seq(Bytes) /\ (k = 0 /\ opens => file = <<>>) /\ (k # 0 => file = codeprop[n])
  BY <1>1 DEF Opened, RudolphTypeOK
<1> HIDE DEF file
<1>8. k \in Nat /\ at \in Nat /\ Len(data) \in Nat /\ SubSeq(data, 1, count) \in Seq(Bytes)
  <2>1. k \in Nat /\ Len(file) \in Nat /\ Len(data) \in Nat
    BY <1>2, <1>7, FileFacts, Sizes
  <2> QED  BY <1>2, <2>1
<1>9. Put(file, at, SubSeq(data, 1, count)) \in Seq(Bytes)
  BY <1>7, <1>8, PutFacts
<1>10. /\ next'[n] = IF last THEN Complete ELSE k + ChunkSize
       /\ last => got'[n] = f
       /\ \A m \in Mote \ {n} : /\ codeprop'[m] = codeprop[m] /\ next'[m] = next[m]
                                /\ got'[m] = got[m]
                                /\ m \in red' <=> m \in red
                                /\ m \in yellow' <=> m \in yellow
                                /\ m \in failed' <=> m \in failed
  BY <1>1, <1>3, <1>5, <1>6 DEF RudolphTypeOK
<1>11. n \notin failed' => codeprop'[n] = IF last THEN f ELSE SubSeq(f, 1, k + ChunkSize)
  <2> SUFFICES ASSUME n \notin failed' PROVE codeprop'[n] = Put(SubSeq(f, 1, k), k, data)
    BY <1>2
  <2>1. /\ k = 0 => opens
        /\ data # <<>> => at = k
        /\ count = Len(data)
        /\ k # 0 => n \notin failed
    BY <1>5
  <2>2. file = SubSeq(f, 1, k)
    <3>1. CASE k = 0
      <4>1. 0 \in 0 .. Len(f) /\ Len(f) \in 0 .. FILESIZE
        BY <1>2, <3>1, FileFacts
      <4>2. SubSeq(f, 1, 0) = File(0) /\ File(0) = <<>>
        BY <1>2, <4>1, Beginning, FileLength, Sizes
      <4> QED  BY <1>7, <2>1, <3>1, <4>2
    <3>2. CASE k # 0
      BY <1>1, <1>7, <2>1, <3>2 DEF PartInv, f, k
    <3> QED  BY <3>1, <3>2
  <2>3. at = k
    BY <1>2, <2>1, <2>2
  <2>4. SubSeq(data, 1, count) = data
    BY <1>2, <2>1
  <2> QED  BY <1>1, <1>5, <2>2, <2>3, <2>4 DEF RudolphTypeOK
<1>12. RudolphTypeOK'
  <2>1. codeprop' \in [Mote -> Seq(Bytes)] /\ got' \in [Mote -> Files]
    BY <1>1, <1>2, <1>3, <1>5, <1>9 DEF RudolphTypeOK
  <2>2. next' \in [Mote -> (0 .. FILESIZE) \cup {Complete}]
    <3>1. (IF last THEN Complete ELSE k + ChunkSize) \in (0 .. FILESIZE) \cup {Complete}
      BY <1>2, Sizes
    <3> QED  BY <1>1, <1>3, <3>1 DEF RudolphTypeOK
  <2>3. red' \in SUBSET Mote /\ yellow' \in SUBSET Mote /\ failed' \in SUBSET Mote
    BY <1>1, <1>5, <1>6 DEF RudolphTypeOK
  <2> QED  BY <1>1, <1>3, <2>1, <2>2, <2>3 DEF RudolphTypeOK
<1>13. ~last => n \in red'
  BY <1>1, <1>6 DEF PartInv, k
<1>14. PartInv'
  <2>1. SUFFICES ASSUME NEW m \in Mote, source \notin {NoSource, m},
                        next'[m] \notin {0, Complete}
                 PROVE  /\ m \in red'
                        /\ next'[m] <= Len(f)
                        /\ m \notin failed' => codeprop'[m] = SubSeq(f, 1, next'[m])
    BY <1>3 DEF PartInv, f
  <2>2. CASE m # n
    BY <1>1, <1>10, <2>1, <2>2 DEF PartInv, f
  <2>3. CASE m = n
    <3>1. ~last /\ next'[n] = k + ChunkSize
      BY <1>10, <2>1, <2>3
    <3>2. next'[n] <= Len(f)
      <4>1. Len(f) \in Int
        BY <1>2, FileFacts, Sizes
      <4> QED  BY <1>2, <3>1, <4>1
    <3> QED  BY <1>11, <1>13, <2>3, <3>1, <3>2
  <2> QED  BY <2>2, <2>3
<1>15. YellowFileIsWhole'
  <2>1. SUFFICES ASSUME NEW m \in Mote, m \in yellow', m \notin red', m \notin failed'
                 PROVE  codeprop'[m] = got'[m]
    BY <1>12 DEF YellowFileIsWhole, RudolphTypeOK
  <2>2. CASE m # n
    BY <1>1, <1>10, <2>1, <2>2 DEF YellowFileIsWhole
  <2>3. CASE m = n
    BY <1>10, <1>11, <1>13, <2>1, <2>3
  <2> QED  BY <2>2, <2>3
<1> QED  BY <1>12, <1>14, <1>15 DEF RudolphIInv

(* A node sends anew: all get the file from the start.                     *)
LEMMA RudolphSend ==
  ASSUME RudolphIInv, NEW n \in Mote, SendFile(n),
         UNCHANGED <<image, codeprop, red, yellow, got, failed>>
  PROVE  RudolphIInv'
<1>1. RudolphTypeOK /\ PartInv /\ YellowFileIsWhole
  BY DEF RudolphIInv
<1>2. PICK file \in Files : hej' = [hej EXCEPT ![n] = file]
  BY DEF SendFile
<1>3. /\ starts' \in 0 .. MaxStarts /\ source' = n
      /\ next' = [m \in Mote |-> 0]
  BY <1>1, Sizes DEF SendFile, RudolphTypeOK
<1>4. RudolphTypeOK'
  <2>1. hej' \in [Mote -> Files]
    BY <1>1, <1>2 DEF RudolphTypeOK
  <2>2. next' \in [Mote -> (0 .. FILESIZE) \cup {Complete}]
    BY <1>3, Sizes
  <2> QED  BY <1>1, <1>3, <2>1, <2>2 DEF RudolphTypeOK
<1>5. PartInv'
  BY <1>3 DEF PartInv
<1>6. YellowFileIsWhole'
  BY <1>1 DEF YellowFileIsWhole
<1> QED  BY <1>4, <1>5, <1>6 DEF RudolphIInv

LEMMA RudolphInvInit == RudolphInit => RudolphIInv
<1> SUFFICES ASSUME RudolphInit PROVE RudolphIInv
  OBVIOUS
<1>1. <<>> \in Files /\ <<>> \in Seq(Bytes) /\ 0 \in 0 .. FILESIZE /\ 0 \in 0 .. MaxStarts
  BY FileLength, Sizes
<1>2. RudolphTypeOK
  BY <1>1 DEF RudolphInit, RudolphTypeOK
<1>3. PartInv
  BY DEF RudolphInit, PartInv
<1> QED  BY <1>2, <1>3 DEF RudolphIInv, RudolphInit, YellowFileIsWhole

LEMMA RudolphInvStep == RudolphIInv /\ [RudolphNext]_rudolphVars => RudolphIInv'
<1> SUFFICES ASSUME RudolphIInv, [RudolphNext]_rudolphVars
             PROVE  RudolphIInv'
  OBVIOUS
<1>1. ASSUME NEW n \in Mote, DeliverChunk(n) PROVE RudolphIInv'
  BY <1>1, RudolphDeliver
<1>2. ASSUME NEW n \in Mote, ButtonStarts(n) PROVE RudolphIInv'
  BY <1>2, RudolphSend DEF ButtonStarts
<1>3. CASE SourceStarts1 \/ SourceStarts2
  BY <1>3, RudolphSend, Sizes DEF SourceStarts1, SourceStarts2
<1>4. CASE ButtonStops
  <2>1. source' = NoSource
        /\ UNCHANGED <<image, hej, codeprop, next, red, yellow, starts, got, failed>>
    BY <1>4 DEF ButtonStops
  <2>2. PartInv'
    BY <2>1 DEF RudolphIInv, PartInv
  <2> QED  BY <2>1, <2>2 DEF RudolphIInv, RudolphTypeOK, YellowFileIsWhole
<1>5. ASSUME NEW n \in Mote, Restart(n) PROVE RudolphIInv'
  <2>1. RudolphTypeOK /\ PartInv /\ YellowFileIsWhole
    BY DEF RudolphIInv
  <2>2. /\ UNCHANGED <<image, hej, codeprop, got, failed>>
        /\ source' = IF source = n THEN NoSource ELSE source
        /\ starts' \in 0 .. MaxStarts
        /\ next' = [next EXCEPT ![n] = 0]
        /\ red' = red \ {n} /\ yellow' = yellow \ {n}
    BY <1>5, <2>1, Sizes DEF Restart, RudolphTypeOK
  <2>3. RudolphTypeOK'
    BY <2>1, <2>2, Sizes DEF RudolphTypeOK
  <2>4. PartInv'
    BY <2>1, <2>2 DEF PartInv, RudolphTypeOK
  <2>5. YellowFileIsWhole'
    BY <2>1, <2>2 DEF YellowFileIsWhole
  <2> QED  BY <2>3, <2>4, <2>5 DEF RudolphIInv
<1>6. CASE UNCHANGED rudolphVars
  BY <1>6 DEF rudolphVars, RudolphIInv, RudolphTypeOK, PartInv, YellowFileIsWhole
<1> QED  BY <1>1, <1>2, <1>3, <1>4, <1>5, <1>6 DEF RudolphNext

LEMMA RudolphInvHolds == RudolphSpec => []RudolphIInv
  BY RudolphInvInit, RudolphInvStep, PTL DEF RudolphSpec

(* Every variable keeps its type: what is sent is a beginning of the file, *)
(* what is stored are bytes of it and holes.                               *)
THEOREM RudolphTypeCorrect == RudolphSpec => []RudolphTypeOK
<1>1. RudolphIInv => RudolphTypeOK
  BY DEF RudolphIInv
<1> QED  BY <1>1, RudolphInvHolds, PTL

(* Where yellow is on and red is not, codeprop.out is byte by byte the     *)
(* last file the node was sent to its end, unless a call failed in that    *)
(* very transfer: however transfers were stopped, begun anew, interrupted  *)
(* by restarts and spoilt by failing calls before.                         *)
THEOREM LightsTheorem == RudolphSpec => []YellowFileIsWhole
<1>1. RudolphIInv => YellowFileIsWhole
  BY DEF RudolphIInv
<1> QED  BY <1>1, RudolphInvHolds, PTL

-----------------------------------------------------------------------------
(***************************************************************************)
(* Theorems about Rucb, for every file, chunk size and number of runs.     *)
(* They rest on how far the reading may be ahead of what arrived: by the   *)
(* one chunk being sent.                                                   *)
(***************************************************************************)

(* As long as full chunks are read their bytes are a multiple of the chunk.*)
RucbAhead ==
  /\ arrived <= bytecount /\ bytecount <= arrived + maxsize
  /\ size # NotSending => arrived = bytecount \/ arrived = bytecount - size
  /\ size = maxsize => bytecount % maxsize = 0

(* How often the end of the file was read.                                 *)
RucbEnds ==
  /\ completions = 0 <=> bytecount < RucbFileSize
  /\ size = maxsize => completions <= 1
  /\ completions = 2 => arrived = RucbFileSize /\ RucbFileSize % maxsize = 0
                        /\ size \in {0, NotSending}

RucbInv == RucbTypeOK /\ RucbAhead /\ RucbEnds

LEMMA RucbSizes ==
  /\ RucbFileSize \in Nat /\ RucbFileSize >= 1
  /\ maxsize \in Nat /\ 1 <= maxsize /\ maxsize <= RucbFileSize /\ MaxRuns \in Nat
  BY RucbAssumption

(* The remainder of a chunk more is the remainder.                         *)
LEMMA Division ==
  ASSUME NEW n \in Nat, NEW m \in Nat \ {0}
  PROVE  n = m * (n \div m) + (n % m) /\ n % m \in 0 .. m - 1 /\ n \div m \in Int
  OBVIOUS

LEMMA SmallMultiple ==
  ASSUME NEW m \in Nat \ {0}, NEW d \in Int, m * d \in 0 .. m - 1
  PROVE  m * d = 0
<1>1. d >= 1 => m * d >= m
  OBVIOUS
<1>2. d <= -1 => m * d <= -m
  OBVIOUS
<1>3. d >= 1 \/ d <= -1 \/ d = 0
  OBVIOUS
<1>4. m * 0 = 0
  OBVIOUS
<1> QED  BY <1>1, <1>2, <1>3, <1>4

LEMMA NextMultiple ==
  ASSUME NEW n \in Nat, NEW m \in Nat \ {0}, n % m = 0
  PROVE  (n + m) % m = 0
<1> DEFINE q == n \div m
           k == (n + m) \div m
           r == (n + m) % m
<1>1. n = m * q /\ q \in Int
  BY Division
<1>2. n + m \in Nat
  OBVIOUS
<1>3. n + m = m * k + r /\ r \in 0 .. m - 1 /\ k \in Int
  BY <1>2, Division
<1> HIDE DEF q, k, r
<1>4. m * (q + 1 - k) = r
  <2>1. m * (q + 1 - k) = m * q + m - m * k
    BY <1>1, <1>3
  <2>2. m * q \in Int /\ m * k \in Int
    BY <1>1, <1>3
  <2>3. m * q + m - m * k = r
    BY <1>1, <1>3, <2>2
  <2> QED  BY <2>1, <2>3
<1>5. r = 0
  BY <1>1, <1>3, <1>4, SmallMultiple
<1> QED  BY <1>5 DEF r

LEMMA RucbInvInit == RucbInit => RucbInv
<1> SUFFICES ASSUME RucbInit PROVE RucbInv
  OBVIOUS
<1>1. bytecount = 0 /\ size = -1 /\ completions = 0 /\ runs = 0 /\ arrived = 0
  BY DEF RucbInit, NotSending
<1> QED  BY <1>1, RucbSizes DEF RucbInv, RucbTypeOK, RucbAhead, RucbEnds, NotSending

(* The next chunk, after a number of bytes that is a multiple of its size. *)
LEMMA ChunkRead ==
  ASSUME NEW count \in 0 .. RucbFileSize, count % maxsize = 0,
         NEW shown \in 0 .. 1, shown = 0 <=> count < RucbFileSize,
         read_chunk_from(count, shown), arrived' = count,
         runs' \in 0 .. MaxRuns
  PROVE  RucbInv'
<1> DEFINE s == size'
           b == bytecount'
           p == completions'
<1>1. /\ s = IF count + maxsize >= RucbFileSize THEN RucbFileSize - count ELSE maxsize
      /\ b = count + s
      /\ p = IF b = RucbFileSize THEN shown + 1 ELSE shown
  BY DEF read_chunk_from, ChunkAfter, IsCompleted
<1> HIDE DEF s, b, p
<1>2. /\ s \in 0 .. maxsize /\ b \in 0 .. RucbFileSize /\ p \in 0 .. 2
      /\ count <= b /\ b <= count + maxsize
  BY <1>1, RucbSizes
<1>3. s = maxsize => b % maxsize = 0
  <2>1. count \in Nat /\ maxsize \in Nat \ {0}
    BY RucbSizes
  <2>2. (count + maxsize) % maxsize = 0
    BY <2>1, NextMultiple
  <2>3. SUFFICES ASSUME s = maxsize PROVE b % maxsize = 0
    OBVIOUS
  <2>4. b = count + maxsize
    BY <1>1, <2>3
  <2> QED  BY <2>2, <2>4
<1>4. p = 0 <=> b < RucbFileSize
  BY <1>1, <1>2, RucbSizes
<1>5. p = 2 => count = RucbFileSize /\ s = 0
  BY <1>1, <1>2, RucbSizes
<1>6. s = maxsize => p <= 1
  BY <1>1, <1>2, RucbSizes
<1>7. RucbTypeOK'
  BY <1>2 DEF RucbTypeOK, s, b, p
<1>8. RucbAhead'
  BY <1>1, <1>2, <1>3, RucbSizes DEF RucbAhead, s, b, p
<1>9. RucbEnds'
  BY <1>4, <1>5, <1>6 DEF RucbEnds, s, b, p
<1> QED  BY <1>7, <1>8, <1>9 DEF RucbInv

LEMMA RucbInvStep == RucbInv /\ [RucbNext]_rucbVars => RucbInv'
<1> SUFFICES ASSUME RucbInv, [RucbNext]_rucbVars PROVE RucbInv'
  OBVIOUS
<1>1. /\ bytecount \in 0 .. RucbFileSize /\ size \in {-1} \cup (0 .. maxsize)
      /\ completions \in 0 .. 2 /\ runs \in 0 .. MaxRuns /\ arrived \in 0 .. RucbFileSize
      /\ RucbAhead /\ RucbEnds
  BY DEF RucbInv, RucbTypeOK, NotSending
<1>2. CASE Begin
  <2>1. /\ runs' \in 0 .. MaxRuns /\ arrived' = 0 /\ read_chunk_from(0, 0)
    BY <1>1, <1>2, RucbSizes DEF Begin
  <2>2. 0 \in 0 .. RucbFileSize /\ 0 % maxsize = 0 /\ 0 \in 0 .. 1 /\ 0 < RucbFileSize
    BY RucbSizes
  <2> QED  BY <2>1, <2>2, ChunkRead
<1>3. CASE ChunkArrives
  <2>1. size # NotSending /\ arrived' = bytecount /\ UNCHANGED <<bytecount, size, completions, runs>>
    BY <1>3 DEF ChunkArrives
  <2>2. RucbTypeOK'
    BY <1>1, <2>1 DEF RucbTypeOK, NotSending
  <2>3. RucbAhead'
    BY <1>1, <2>1, RucbSizes DEF RucbAhead
  <2>4. RucbEnds'
    <3>1. completions = 2 => arrived = bytecount /\ arrived = RucbFileSize
      BY <1>1, RucbSizes DEF RucbEnds, RucbAhead
    <3> QED  BY <1>1, <2>1, <3>1 DEF RucbEnds
  <2> QED  BY <2>2, <2>3, <2>4 DEF RucbInv
<1>4. CASE ReadNext
  <2>1. /\ size = maxsize /\ arrived = bytecount /\ read_chunk_from(bytecount, completions)
        /\ UNCHANGED <<runs, arrived>>
    BY <1>4 DEF ReadNext
  <2>2. /\ bytecount % maxsize = 0 /\ completions \in 0 .. 1
        /\ completions = 0 <=> bytecount < RucbFileSize
    BY <1>1, <2>1 DEF RucbAhead, RucbEnds
  <2> QED  BY <1>1, <2>1, <2>2, ChunkRead
<1>5. CASE AckLast \/ GiveUp
  <2>1. size' = NotSending /\ UNCHANGED <<bytecount, completions, runs, arrived>>
    BY <1>5 DEF AckLast, GiveUp
  <2>2. RucbTypeOK'
    BY <1>1, <2>1 DEF RucbTypeOK, NotSending
  <2>3. RucbAhead' /\ RucbEnds'
    BY <1>1, <2>1, RucbSizes DEF RucbAhead, RucbEnds, NotSending
  <2> QED  BY <2>2, <2>3 DEF RucbInv
<1>6. CASE UNCHANGED rucbVars
  <2>1. UNCHANGED <<bytecount, size, completions, runs, arrived>>
    BY <1>6 DEF rucbVars
  <2> QED  BY <2>1 DEF RucbInv, RucbTypeOK, RucbAhead, RucbEnds
<1> QED  BY <1>2, <1>3, <1>4, <1>5, <1>6 DEF RucbNext

THEOREM RucbTypeCorrect == RucbSpec => []RucbTypeOK
<1>1. RucbInv => RucbTypeOK
  BY DEF RucbInv
<1> QED  BY <1>1, RucbInvInit, RucbInvStep, PTL DEF RucbSpec

(* The time of completion is printed one chunk early, and once more if the *)
(* file is a multiple of the chunk size.                                   *)
THEOREM CompletionTheorem == RucbSpec => []CompletionIsOneChunkEarly
<1>1. RucbInv => CompletionIsOneChunkEarly
  <2> SUFFICES ASSUME RucbInv PROVE CompletionIsOneChunkEarly
    OBVIOUS
  <2>1. /\ bytecount \in 0 .. RucbFileSize /\ completions \in 0 .. 2
        /\ arrived \in 0 .. RucbFileSize /\ RucbAhead /\ RucbEnds
    BY DEF RucbInv, RucbTypeOK
  <2>2. completions >= 1 => bytecount = RucbFileSize
    BY <2>1, RucbSizes DEF RucbEnds
  <2>3. completions >= 2 => arrived = RucbFileSize /\ RucbFileSize % maxsize = 0
    BY <2>1 DEF RucbEnds
  <2>4. arrived = RucbFileSize => completions >= 1
    BY <2>1, RucbSizes DEF RucbEnds, RucbAhead
  <2>5. completions >= 1 => arrived + maxsize >= RucbFileSize
    BY <2>1, <2>2, RucbSizes DEF RucbAhead
  <2> QED  BY <2>3, <2>4, <2>5 DEF CompletionIsOneChunkEarly
<1> QED  BY <1>1, RucbInvInit, RucbInvStep, PTL DEF RucbSpec

-----------------------------------------------------------------------------
(***************************************************************************)
(* The five programs together.                                             *)
(***************************************************************************)

(* What a program does it does alone: each of the five is itself in the    *)
(* composition, so that what is proved of it holds there.                  *)
THEOREM ProgramsTheorem ==
  RimeSpec => Spec /\ RunicastSpec /\ MultihopSpec /\ RudolphSpec /\ RucbSpec
<1>1. RimeInit => Init /\ RunicastInit /\ MultihopInit /\ RudolphInit /\ RucbInit
  BY DEF RimeInit
<1>2. [RimeNext]_<<program, programVars>> =>
        /\ [Next]_vars /\ [RunicastNext]_runicastVars /\ [MultihopNext]_multihopVars
        /\ [RudolphNext]_rudolphVars /\ [RucbNext]_rucbVars
  BY DEF RimeNext, programVars
<1> QED  BY <1>1, <1>2, PTL DEF RimeSpec, Spec, RunicastSpec, MultihopSpec, RudolphSpec, RucbSpec

(* Every variable of the five programs keeps its type.                     *)
THEOREM RimeTypeTheorem == RimeSpec => []RimeTypeOK
<1>1. Spec => []ExampleTypeOK
  BY ExampleTypeInit, ExampleTypeStep, PTL DEF Spec
<1>2. ExampleTypeOK /\ RunicastTypeOK /\ MultihopTypeOK /\ RudolphTypeOK /\ RucbTypeOK
        => RimeTypeOK
  BY DEF RimeTypeOK
<1> QED  BY <1>1, <1>2, ProgramsTheorem, RunicastTypeCorrect, MultihopTypeCorrect,
            RudolphTypeCorrect, RucbTypeCorrect, PTL
=============================================================================
