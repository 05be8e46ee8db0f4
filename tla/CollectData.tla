---------------------------- MODULE CollectData -----------------------------
(***************************************************************************)
(* The measurement program collect_data.c on every node of a network.      *)
(*                                                                         *)
(* A Contiki process runs to completion between two waits, so an event     *)
(* handler is one step.  Three things interleave: the 5 second timer of    *)
(* every node, the frames that wait in a node's MAC layer, and the reports *)
(* that the collect protocol carries to the sink.  Timers are actions that *)
(* may be taken whenever the node waits for them; nothing is assumed of    *)
(* the relative speed of two nodes.                                        *)
(*                                                                         *)
(* Nodes in Foreign run another program that broadcasts on channel 129 (as *)
(* rime/example-broadcast.c does): their frames lack the tag and are taken *)
(* for message 0.                                                          *)
(***************************************************************************)
EXTENDS NeighborList, FiniteSets

CONSTANTS
  Sink,                \* the node with address 1.0
  Foreign,             \* nodes that run another program
  Links,               \* <<s, r>>: r is in radio range of s
  MAX_REQUESTS_SEND,   \* broadcasts between two reports
  ReportRoom,          \* entries of a report that fit into packetbuf: 7 of 8
  MaxInFlight,         \* bound: a node's reports on their way at one time
  MaxReboots           \* bound: restarts in one behaviour

ASSUME NetworkAssumption ==
  /\ Sink \in Node
  /\ Foreign \subseteq Node \ {Sink}
  /\ Links \subseteq {l \in Node \X Node : l[1] # l[2]}
  /\ MAX_REQUESTS_SEND \in Uint8 \ {0}
  /\ ReportRoom \in Nat /\ ReportRoom <= MAX_NEIGHBORS
  /\ MaxInFlight \in Nat
  /\ MaxReboots \in Nat

VARIABLES
  pc,                  \* where the process of a node waits
  current_message_id,
  max_total_packet,
  neighbor_list,
  outbox,              \* the id of the frame that waits in the MAC layer
  reports,             \* reports on their way to the sink
  printed,             \* links <<from, to>> the sink has printed
  reboots,             \* restarts so far
  missed,              \* history: missed[r][s] counts the frames of s that r
                       \* did not hear since r stored s in its table
  restarted            \* history: <<r, s>> when s restarted its numbering
                       \* while r had it in its table

code == <<current_message_id, max_total_packet, neighbor_list>>
vars == <<pc, code, outbox, reports, printed, reboots, missed, restarted>>

NoFrame == -1
(* The pairs <<r, s>> for which r has s in its table. *)
Knowing(s) == {r \in Node : s \in Senders(neighbor_list[r])} \X {s}

Hearers(s) == {r \in Node : <<s, r>> \in Links}

(* One line the sink prints: datacom_packet_lost_inf_t. *)
LinkLine == [from : Node, to : Node, total_packets : Uint8, lost_packets : Uint8]
Report == [originator : Node, lines : Seq(LinkLine)]

TypeOK ==
  /\ pc \in [Node -> {"settle", "pace", "ended", "wild", "foreign"}]
  /\ current_message_id \in [Node -> Uint8]
  /\ max_total_packet \in [Node -> Uint8]
  /\ neighbor_list \in [Node -> Seq(Entry)]
  /\ outbox \in [Node -> Uint8 \cup {NoFrame}]
  /\ reports \in SUBSET Report
  /\ printed \in SUBSET (Node \X Node)
  /\ reboots \in 0 .. MaxReboots
  /\ missed \in [Node -> [Node -> 0 .. IdSpace]]
  /\ restarted \in SUBSET (Node \X Node)

Init ==
  /\ pc = [n \in Node |-> IF n \in Foreign THEN "foreign" ELSE "settle"]
  /\ current_message_id = [n \in Node |-> 0]
  /\ max_total_packet = [n \in Node |-> 0]
  /\ neighbor_list = [n \in Node |-> <<>>]
  /\ outbox = [n \in Node |-> NoFrame]
  /\ reports = {}
  /\ printed = {}
  /\ reboots = 0
  /\ missed = [r \in Node |-> [s \in Node |-> 0]]
  /\ restarted = {}

-----------------------------------------------------------------------------
(***************************************************************************)
(* The process thread.                                                     *)
(***************************************************************************)

(* The settling time of a node other than the sink is over: it takes the   *)
(* first message id and waits for its timer.                               *)
Settle(n) ==
  /\ pc[n] = "settle" /\ n # Sink
  /\ pc' = [pc EXCEPT ![n] = "pace"]
  /\ current_message_id' =
       [current_message_id EXCEPT ![n] = (@ + 1) % IdSpace]
  /\ UNCHANGED <<max_total_packet, neighbor_list, outbox, reports, printed,
                 reboots, missed, restarted>>

(* The sink does not enter the loop: it closes the broadcast connection    *)
(* and its process ends.  The collect connection stays open.               *)
SinkSettles ==
  /\ pc[Sink] = "settle"
  /\ pc' = [pc EXCEPT ![Sink] = "ended"]
  /\ UNCHANGED <<code, outbox, reports, printed, reboots, missed, restarted>>

(* The timer of n fires: n hands a broadcast to the MAC layer, counts it,  *)
(* and takes the next id for the next round.  The MAC layer sends a frame  *)
(* within milliseconds, so the one of the round before is gone by now.     *)
Broadcast_NextIdFirst(n) ==
  /\ pc[n] = "pace" /\ outbox[n] = NoFrame
  /\ current_message_id' =
       [current_message_id EXCEPT ![n] = (@ + 1) % IdSpace]
  /\ outbox' = [outbox EXCEPT ![n] = current_message_id'[n]]
  /\ UNCHANGED <<printed, reboots>>

Broadcast(n) ==
  /\ pc[n] = "pace" /\ outbox[n] = NoFrame
  /\ outbox' = [outbox EXCEPT ![n] = current_message_id[n]]
  /\ current_message_id' =
       [current_message_id EXCEPT ![n] = (@ + 1) % IdSpace]
  /\ UNCHANGED <<printed, reboots>>

RoundIsFull_OneMore(n) == (max_total_packet[n] + 1) % IdSpace > MAX_REQUESTS_SEND

RoundIsFull(n) == (max_total_packet[n] + 1) % IdSpace >= MAX_REQUESTS_SEND

BroadcastOnly(n) ==
  /\ Broadcast(n)
  /\ ~RoundIsFull(n)
  /\ max_total_packet' = [max_total_packet EXCEPT ![n] = (@ + 1) % IdSpace]
  /\ UNCHANGED <<pc, neighbor_list, reports, missed, restarted>>

ReportOf_EndsSwapped(n) ==
  [originator |-> n,
   lines |-> [i \in DOMAIN neighbor_list[n] |->
                [from |-> n, to |-> neighbor_list[n][i].sender,
                 total_packets |-> neighbor_list[n][i].total_packets,
                 lost_packets |-> neighbor_list[n][i].lost_packets]]]

ReportOf(n) ==
  [originator |-> n,
   lines |-> [i \in DOMAIN neighbor_list[n] |->
                [from |-> neighbor_list[n][i].sender, to |-> n,
                 total_packets |-> neighbor_list[n][i].total_packets,
                 lost_packets |-> neighbor_list[n][i].lost_packets]]]

(* clean_list, with the histories that restart with the table. *)
clean_list_Skipped(n) == UNCHANGED <<neighbor_list, missed, restarted>>

clean_list(n) ==
  /\ neighbor_list' = [neighbor_list EXCEPT ![n] = <<>>]
  /\ missed' = [missed EXCEPT ![n] = [s \in Node |-> 0]]
  /\ restarted' = restarted \ ({n} \X Node)

(* A full round: the table goes to the sink and is cleared, whatever       *)
(* becomes of the report.  A table that does not fit into packetbuf is     *)
(* copied past its end: either the oversized packet is refused further     *)
(* down or the node no longer runs the program.                            *)
BroadcastAndReport(n) ==
  /\ Broadcast(n)
  /\ RoundIsFull(n)
  /\ Cardinality({rep \in reports : rep.originator = n}) < MaxInFlight
  /\ max_total_packet' = [max_total_packet EXCEPT ![n] = 0]
  /\ clean_list(n)
  /\ \/ /\ Len(neighbor_list[n]) <= ReportRoom
        /\ reports' = reports \cup {ReportOf(n)}
        /\ UNCHANGED pc
     \/ /\ Len(neighbor_list[n]) > ReportRoom
        /\ pc' \in {pc, [pc EXCEPT ![n] = "wild"]}
        /\ UNCHANGED reports

-----------------------------------------------------------------------------
(***************************************************************************)
(* The radio.                                                              *)
(***************************************************************************)

(* The broadcast connection is open from the start of the process to its   *)
(* end.                                                                    *)
Listening(r) == pc[r] \in {"settle", "pace"}

Saturate(k) == IF k < IdSpace THEN k ELSE IdSpace

(* The frame of s with this id reaches R and no other node.  Where storing *)
(* it overruns the array, the node may or may not survive.                 *)
Hear(s, R, id) ==
  /\ R \subseteq {r \in Hearers(s) : Listening(r)}
  /\ neighbor_list' =
       [r \in Node |-> IF r \in R
                         THEN broadcast_receive(neighbor_list[r], s, id)
                         ELSE neighbor_list[r]]
  /\ \E W \in SUBSET {r \in R : Overruns(neighbor_list[r], s)} :
       pc' = [n \in Node |-> IF n \in W THEN "wild" ELSE pc[n]]
  /\ missed' =
       [r \in Node |->
          [missed[r] EXCEPT ![s] =
             IF r \notin R /\ s \in Senders(neighbor_list[r])
               THEN Saturate(@ + 1) ELSE @]]
  /\ UNCHANGED <<max_total_packet, current_message_id, reports, printed,
                 reboots>>

(* The MAC layer sends the waiting frame; a node in range that is not in R *)
(* loses it.                                                               *)
Transmit(s, R) ==
  /\ outbox[s] # NoFrame
  /\ Hear(s, R, outbox[s])
  /\ outbox' = [outbox EXCEPT ![s] = NoFrame]
  /\ restarted' = IF outbox[s] = 0 THEN restarted \cup Knowing(s) ELSE restarted

ForeignBroadcast(f, R) ==
  /\ f \in Foreign
  /\ Hear(f, R, 0)
  /\ restarted' = restarted \cup Knowing(f)
  /\ UNCHANGED outbox

-----------------------------------------------------------------------------
(***************************************************************************)
(* The collect protocol, and failures.                                     *)
(***************************************************************************)

(* recv at the sink prints one line per link.  The collect connection      *)
(* outlives the sink's process, and a restarted sink opens it at once.     *)
Deliver(rep) ==
  /\ printed' = printed \cup {<<rep.lines[i].from, rep.lines[i].to>> :
                                i \in DOMAIN rep.lines}
  /\ reports' = reports \ {rep}
  /\ UNCHANGED <<pc, code, outbox, reboots, missed, restarted>>

(* collect gives up after its retransmissions. *)
LoseReport(rep) ==
  /\ reports' = reports \ {rep}
  /\ UNCHANGED <<pc, code, outbox, printed, reboots, missed, restarted>>

(* A node restarts: its statics and its MAC queue are lost.  What the sink *)
(* printed is on the serial line already.                                  *)
Reboot(n) ==
  /\ n \notin Foreign
  /\ reboots < MaxReboots
  /\ reboots' = reboots + 1
  /\ pc' = [pc EXCEPT ![n] = "settle"]
  /\ current_message_id' = [current_message_id EXCEPT ![n] = 0]
  /\ max_total_packet' = [max_total_packet EXCEPT ![n] = 0]
  /\ neighbor_list' = [neighbor_list EXCEPT ![n] = <<>>]
  /\ outbox' = [outbox EXCEPT ![n] = NoFrame]
  /\ missed' = [missed EXCEPT ![n] = [s \in Node |-> 0]]
  /\ restarted' = (restarted \cup Knowing(n)) \ ({n} \X Node)
  /\ UNCHANGED <<reports, printed>>

-----------------------------------------------------------------------------
Next ==
  \/ SinkSettles
  \/ \E n \in Node :
       \/ Settle(n)
       \/ BroadcastOnly(n)
       \/ BroadcastAndReport(n)
       \/ \E R \in SUBSET Node : Transmit(n, R) \/ ForeignBroadcast(n, R)
       \/ Reboot(n)
  \/ \E rep \in reports : Deliver(rep) \/ LoseReport(rep)

Spec == Init /\ [][Next]_vars

(***************************************************************************)
(* Fairness.  A node's timers fire and its MAC layer sends; a report does  *)
(* not stay on its way for ever.  The radio loses frames and reports, but  *)
(* not all of them: a link that is tried again and again carries a frame   *)
(* now and then, and so does the path from a node to the sink.             *)
(***************************************************************************)
Reports(l) == {rep \in reports : \E i \in DOMAIN rep.lines :
                 <<rep.lines[i].from, rep.lines[i].to>> = l}

Fairness ==
  /\ \A n \in Node :
       /\ WF_vars(Settle(n))
       /\ WF_vars(BroadcastOnly(n) \/ BroadcastAndReport(n))
       /\ WF_vars(\E R \in SUBSET Node : Transmit(n, R))
       /\ WF_vars(\E rep \in reports : /\ rep.originator = n
                                      /\ (Deliver(rep) \/ LoseReport(rep)))
  /\ \A l \in Links :
       /\ SF_vars(\E R \in SUBSET Node : l[2] \in R /\ Transmit(l[1], R))
       /\ SF_vars(\E rep \in Reports(l) : Deliver(rep))

FairSpec == Spec /\ Fairness

-----------------------------------------------------------------------------
(***************************************************************************)
(* Properties.                                                             *)
(***************************************************************************)

(* The id of the next frame s puts on the air. *)
NextFrame(s) == IF outbox[s] # NoFrame THEN outbox[s]
                ELSE IF pc[s] = "pace" THEN current_message_id[s] ELSE 1

(* The table of r has not run over the end of neighbor_list[8].            *)
WithinArray(r) == Len(neighbor_list[r]) <= MAX_NEIGHBORS

(* A table within its array never counts more packets of a neighbour as    *)
(* lost than the node really missed since it first heard that neighbour in *)
(* this round, whatever ids wrap, nodes restart or fail, frames are lost,  *)
(* and whatever overflows elsewhere or overflowed in an earlier round: the *)
(* arithmetic of broadcast_receive on uint8_t ids invents no losses.  (An  *)
(* overfull table keeps the last id of an entry and counts a gap twice.)   *)
LossSound ==
  \A r \in Node : WithinArray(r) =>
    \A i \in DOMAIN neighbor_list[r] :
      LET e == neighbor_list[r][i] IN e.lost_packets <= missed[r][e.sender]

(* r heard s, which has numbered its packets on since without a restart or *)
(* a wrap.                                                                 *)
NumbersOn(r, s) ==
  s \notin Foreign /\ pc[s] # "wild" /\ <<r, s>> \notin restarted

(* While the sender numbers on, the count of a table within its array is   *)
(* exact: what the entry counts as lost, with the ids that went by since   *)
(* the last packet heard, is what the node missed.                         *)
LossExact ==
  \A r \in Node : WithinArray(r) =>
    \A i \in DOMAIN neighbor_list[r] :
      LET e == neighbor_list[r][i]
          next == IF NextFrame(e.sender) = 0 THEN IdSpace
                  ELSE NextFrame(e.sender)
      IN  NumbersOn(r, e.sender)
            => e.lost_packets + (next - e.last_packet_id - 1)
                 = missed[r][e.sender]

(* A report never claims more packets lost than packets in total, so that  *)
(* the ratio of the two is a loss rate.                                    *)
ReportRatio ==
  \A rep \in reports : \A i \in DOMAIN rep.lines :
    rep.lines[i].lost_packets <= rep.lines[i].total_packets

(* A neighbour has one entry in a table, also in a table that overflowed.  *)
OneEntryPerSender ==
  \A r \in Node : \A i, j \in DOMAIN neighbor_list[r] :
    neighbor_list[r][i].sender = neighbor_list[r][j].sender => i = j

(* No node stores an entry past the end of neighbor_list[8]. *)
TableWithinArray == \A r \in Node : WithinArray(r)

(* Every link into a node that measures is printed at the sink some time,  *)
(* however many frames and reports are lost and whoever restarts.          *)
LinkEventuallyPrinted ==
  \A l \in {l \in Links : /\ l[1] \notin Foreign \cup {Sink}
                          /\ l[2] \notin Foreign \cup {Sink}} :
    <>(l \in printed)
=============================================================================
