------------------------- MODULE CollectDataSurvey --------------------------
(***************************************************************************)
(* CollectData implements LinkSurvey: a node's table stands for the set of *)
(* its senders, a report for the set of senders of its lines.  It does so  *)
(* in every network, overfull tables included: a packet that finds no room *)
(* is one nobody hears, a report that does not fit into packetbuf is a     *)
(* table forgotten.                                                        *)
(***************************************************************************)
EXTENDS CollectData

(* The nodes that r can hear. *)
InRange(r) == {s \in Node : <<s, r>> \in Links}

KnownBar == [n \in Node |-> Senders(neighbor_list[n])]

LinesSenders(rep) == {rep.lines[i].from : i \in DOMAIN rep.lines}
ReportBar(rep) == [originator |-> rep.originator, senders |-> LinesSenders(rep)]
InflightBar == {ReportBar(rep) : rep \in reports}

Survey == INSTANCE LinkSurvey
            WITH known <- KnownBar, inflight <- InflightBar

(* Each step of the network is a step of the survey or leaves it alone: a  *)
(* table loses a neighbour only to a report or a restart, and a report     *)
(* names exactly the neighbours heard since the one before.                *)
SurveySpec == Survey!Spec

(* A link the sink prints exists in the network and does not lead to the   *)
(* sink, through losses, restarts, wrapped ids and untagged frames.        *)
OnlyRealLinksPrinted == Survey!OnlyRealLinks

-----------------------------------------------------------------------------
(***************************************************************************)
(* The inductive invariant behind the safety properties of CollectData.    *)
(***************************************************************************)

(* A settling node has not numbered a packet; the id of a frame in the MAC *)
(* layer is the one before the id of the next round; a node of another     *)
(* program never changes state.                                            *)
NumberingInv ==
  \A n \in Node :
    /\ pc[n] = "foreign" <=> n \in Foreign
    /\ pc[n] = "settle" => current_message_id[n] = 0 /\ outbox[n] = NoFrame
    /\ pc[n] = "pace" => n # Sink
    /\ pc[n] = "pace" /\ outbox[n] # NoFrame =>
         current_message_id[n] = (outbox[n] + 1) % IdSpace
    /\ pc[n] \in {"ended", "foreign"} => outbox[n] = NoFrame

(* A table holds neighbours in range, each of them once. *)
TableInv ==
  /\ OneEntryPerSender
  /\ \A r \in Node : Senders(neighbor_list[r]) \subseteq InRange(r)
  /\ \A r \in Foreign : neighbor_list[r] = <<>>

(* In a table within its array, what an entry counts as lost are ids below *)
(* the last one heard, so that the count never wraps; its total is the     *)
(* last id, or nothing is counted.                                         *)
EntryInv ==
  \A r \in Node : WithinArray(r) =>
    \A i \in DOMAIN neighbor_list[r] :
      LET e == neighbor_list[r][i]
      IN  /\ e.lost_packets <= e.last_packet_id
          /\ \/ e.total_packets = e.last_packet_id
             \/ e.total_packets = 0 /\ e.lost_packets = 0

(* Count and gap together never exceed the packets missed.  The gap is the *)
(* number of ids between the last one heard and the next one on the air:   *)
(* the loss that the next packet heard would add.                          *)
CountInv ==
  /\ LossSound
  /\ \A r \in Node : WithinArray(r) =>
       \A i \in DOMAIN neighbor_list[r] :
         LET e == neighbor_list[r][i]
         IN  e.lost_packets + (NextFrame(e.sender) - e.last_packet_id - 1)
               <= missed[r][e.sender]
  /\ \A r, s \in Node : s \notin Senders(neighbor_list[r]) =>
       missed[r][s] = 0 /\ <<r, s>> \notin restarted

(* The exact count, with the fact that makes the gap a natural number.     *)
ExactInv ==
  /\ LossExact
  /\ \A r \in Node : WithinArray(r) =>
       \A i \in DOMAIN neighbor_list[r] :
         LET s == neighbor_list[r][i].sender
         IN  NumbersOn(r, s) /\ NextFrame(s) # 0
               => neighbor_list[r][i].last_packet_id < NextFrame(s)

(* A report on its way is one of a measuring node, about links in range.   *)
ReportInv ==
  /\ ReportRatio
  /\ \A rep \in reports :
       /\ rep.originator # Sink
       /\ \A i \in DOMAIN rep.lines :
            /\ rep.lines[i].to = rep.originator
            /\ <<rep.lines[i].from, rep.lines[i].to>> \in Links

IInv ==
  /\ TypeOK
  /\ NumberingInv
  /\ TableInv
  /\ EntryInv
  /\ CountInv
  /\ ExactInv
  /\ ReportInv

(* What holds in every network, also where tables overflow: a table does   *)
(* not count a neighbour twice, only nodes other than the sink measure,    *)
(* and a report is about links to the node that sends it.                  *)
OverfullInv ==
  /\ TypeOK
  /\ OneEntryPerSender
  /\ \A n \in Node : pc[n] = "pace" => n # Sink
  /\ \A rep \in reports : \A i \in DOMAIN rep.lines :
       rep.lines[i].to = rep.originator
=============================================================================
