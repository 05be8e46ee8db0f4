--------------------------- MODULE ExampleCollect ---------------------------
(***************************************************************************)
(* rime/example-collect.c, the first measurement program: every node sends *)
(* one broadcast, records the broadcasts it hears until then, and reports  *)
(* the record to the sink once.                                            *)
(*                                                                         *)
(* As in CollectData a handler is one step and a timer may fire whenever   *)
(* its node waits for it.  An entry of packets[128] names its own node as  *)
(* "from" and the node it heard as "to"; here it is the heard address.     *)
(* The radio values of an entry are copied through unread and left out.    *)
(***************************************************************************)
EXTENDS Integers, Sequences, FiniteSets

CONSTANTS
  Node,
  Sink,              \* the node with address 1.0
  Links,             \* <<s, r>>: r is in radio range of s
  MAX_PACKETS,       \* the 128 of packets[128]
  ReportRoom,        \* entries that fit into packetbuf
  Stale,             \* a line printed from bytes that no report wrote
  MaxReboots         \* bound: restarts in one behaviour

ASSUME ExampleAssumption ==
  /\ IsFiniteSet(Node) /\ Sink \in Node
  /\ Links \subseteq {l \in Node \X Node : l[1] # l[2]}
  /\ MAX_PACKETS \in Nat /\ ReportRoom \in Nat /\ MaxReboots \in Nat
  /\ Stale \notin Node \X Node

VARIABLES
  pc,                \* where the process of a node waits
  outbox,            \* the nodes whose broadcast waits in the MAC layer
  packets,           \* the addresses a node has recorded
  reports,           \* reports on their way to the sink
  printed,           \* lines <<from, to>> the sink has printed
  restarted          \* history: the restarts, as a sequence of nodes

vars == <<pc, outbox, packets, reports, printed, restarted>>

Report == [originator : Node, heard : Seq(Node)]

ExampleTypeOK ==
  /\ pc \in [Node -> {"open", "settle", "jitter", "ended"}]
  /\ outbox \in SUBSET Node
  /\ packets \in [Node -> UNION {[1 .. k -> Node] : k \in 0 .. MAX_PACKETS}]
  /\ reports \in SUBSET Report
  /\ printed \in SUBSET ((Node \X Node) \cup {Stale})
  /\ restarted \in Seq(Node) /\ Len(restarted) <= MaxReboots

Init ==
  /\ pc = [n \in Node |-> "open"]
  /\ outbox = {}
  /\ packets = [n \in Node |-> <<>>]
  /\ reports = {}
  /\ printed = {}
  /\ restarted = <<>>

-----------------------------------------------------------------------------
(* After ten seconds the node broadcasts and closes the connection at      *)
(* once; the frame is still in the MAC layer then.                         *)
Broadcast(n) ==
  /\ pc[n] = "open"
  /\ pc' = [pc EXCEPT ![n] = "settle"]
  /\ outbox' = outbox \cup {n}
  /\ UNCHANGED <<packets, reports, printed, restarted>>

(* The timer "periodic" was never set, which counts as expired: the node   *)
(* sets its timer once more, to a random time below ten seconds.           *)
SetJitter(n) ==
  /\ pc[n] = "settle"
  /\ pc' = [pc EXCEPT ![n] = "jitter"]
  /\ UNCHANGED <<outbox, packets, reports, printed, restarted>>

(* What recv prints of a report.  max_packets goes in front as it is, and  *)
(* packetbuf_copyfrom cuts what follows: the lines beyond are read from    *)
(* what happens to be in the sink's packetbuf.                             *)
Lines_EndsSwapped(rep) ==
  {IF i <= ReportRoom THEN <<rep.heard[i], rep.originator>> ELSE Stale :
     i \in DOMAIN rep.heard}

Lines(rep) ==
  {IF i <= ReportRoom THEN <<rep.originator, rep.heard[i]>> ELSE Stale :
     i \in DOMAIN rep.heard}

(* The timer is what wakes the process, and it reports; collect hands the  *)
(* sink's own report to recv at once.                                      *)
Send(n) ==
  /\ pc[n] = "jitter"
  /\ pc' = [pc EXCEPT ![n] = "ended"]
  /\ LET rep == [originator |-> n, heard |-> packets[n]]
     IN  IF n = Sink
           THEN printed' = printed \cup Lines(rep) /\ UNCHANGED reports
           ELSE reports' = reports \cup {rep} /\ UNCHANGED printed
  /\ UNCHANGED <<outbox, packets, restarted>>

(* PROCESS_WAIT_EVENT returns at any event; a line typed at the serial     *)
(* port before the timer fires ends the process without a report.          *)
WakeEarly(n) ==
  /\ pc[n] = "jitter"
  /\ pc' = [pc EXCEPT ![n] = "ended"]
  /\ UNCHANGED <<outbox, packets, reports, printed, restarted>>

-----------------------------------------------------------------------------
(* broadcast_recv at r; a full record takes no more. *)
broadcast_recv_NoLimit(r, from) == Append(packets[r], from)

broadcast_recv(r, from) ==
  IF Len(packets[r]) < MAX_PACKETS THEN Append(packets[r], from) ELSE packets[r]

(* The nodes in range whose connection is open. *)
Hearers_NeverClosed(s) == {r \in Node : <<s, r>> \in Links}

Hearers(s) == {r \in Node : <<s, r>> \in Links /\ pc[r] = "open"}

(* The frame of s reaches R; the other nodes in range lose it. *)
Transmit(s, R) ==
  /\ s \in outbox
  /\ R \subseteq Hearers(s)
  /\ packets' = [r \in Node |-> IF r \in R THEN broadcast_recv(r, s) ELSE packets[r]]
  /\ outbox' = outbox \ {s}
  /\ UNCHANGED <<pc, reports, printed, restarted>>

Deliver(rep) ==
  /\ printed' = printed \cup Lines(rep)
  /\ reports' = reports \ {rep}
  /\ UNCHANGED <<pc, outbox, packets, restarted>>

LoseReport(rep) ==
  /\ reports' = reports \ {rep}
  /\ UNCHANGED <<pc, outbox, packets, printed, restarted>>

Reboot(n) ==
  /\ Len(restarted) < MaxReboots
  /\ restarted' = Append(restarted, n)
  /\ pc' = [pc EXCEPT ![n] = "open"]
  /\ outbox' = outbox \ {n}
  /\ packets' = [packets EXCEPT ![n] = <<>>]
  /\ UNCHANGED <<reports, printed>>

Next ==
  \/ \E n \in Node :
       \/ Broadcast(n)
       \/ SetJitter(n)
       \/ Send(n)
       \/ WakeEarly(n)
       \/ \E R \in SUBSET Node : Transmit(n, R)
       \/ Reboot(n)
  \/ \E rep \in reports : Deliver(rep) \/ LoseReport(rep)

Spec == Init /\ [][Next]_vars

-----------------------------------------------------------------------------
(***************************************************************************)
(* Properties.                                                             *)
(***************************************************************************)

Recorded(r) == {packets[r][i] : i \in DOMAIN packets[r]}
Steady(n) == \A i \in DOMAIN restarted : restarted[i] # n

(* A link is measured in one direction at most: a node that has sent no    *)
(* longer hears, so of two neighbours only the later one records the       *)
(* earlier one, unless one of them restarts.                               *)
PairMeasuredOnce ==
  \A r, s \in Node :
    Steady(r) /\ Steady(s) => ~(s \in Recorded(r) /\ r \in Recorded(s))

(* A line of the sink names a node and one of the nodes it is in range of. *)
(* Stale bytes are printed only if some node has more nodes around it than *)
(* fit into packetbuf, where a restarted one counts again.                 *)
PrintedIsLink ==
  \A line \in printed :
    IF line = Stale
      THEN \E r \in Node : Cardinality({s \in Node : <<s, r>> \in Links})
                            + Len(restarted) > ReportRoom
      ELSE <<line[2], line[1]>> \in Links

(* A report is neither early nor incomplete: what a node recorded in its   *)
(* life is exactly what its report says, also when frames of neighbours    *)
(* that broadcast late arrive after it.                                    *)
ReportIsComplete ==
  \A rep \in reports :
    Steady(rep.originator) => Recorded(rep.originator) =
                                {rep.heard[i] : i \in DOMAIN rep.heard}
=============================================================================
