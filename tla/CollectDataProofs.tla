------------------------- MODULE CollectDataProofs --------------------------
(***************************************************************************)
(* Theorems about CollectData, for every network, id space, table size and *)
(* bound.                                                                  *)
(***************************************************************************)
EXTENDS CollectDataSurvey, SetInduction

-----------------------------------------------------------------------------
(***************************************************************************)
(* What the table operators return, for every table and every id space.    *)
(***************************************************************************)

(* No two entries of a table are of one sender. *)
Distinct(list) ==
  \A i, j \in DOMAIN list : list[i].sender = list[j].sender => i = j

(* get_neighbor_by_rimeaddr finds an entry of the sender if there is one.  *)
LEMMA GetNeighbor ==
  ASSUME NEW list \in Seq(Entry), NEW addr
  PROVE  LET n == get_neighbor_by_rimeaddr(list, addr)
         IN  IF addr \in Senders(list)
               THEN n \in DOMAIN list /\ list[n].sender = addr /\ n # NotFound
               ELSE n = NotFound
<1> DEFINE n == get_neighbor_by_rimeaddr(list, addr)
<1>1. Matches(list, addr) \in SUBSET Nat /\ 0 \notin Matches(list, addr)
  BY DEF Matches
<1>2. addr \in Senders(list) <=> Matches(list, addr) # {}
  BY DEF Senders, Matches
<1>3. CASE Matches(list, addr) = {}
  BY <1>2, <1>3 DEF get_neighbor_by_rimeaddr
<1>4. CASE Matches(list, addr) # {}
  <2>1. \E i \in Matches(list, addr) : \A j \in Matches(list, addr) : i <= j
    BY <1>1, <1>4, LeastNat
  <2>2. n \in Matches(list, addr)
    BY <2>1, <1>4 DEF get_neighbor_by_rimeaddr
  <2> QED  BY <2>2, <1>1, <1>2, <1>4 DEF Matches, NotFound
<1> QED  BY <1>3, <1>4

(* The loss count of an entry is stored in a uint8_t.                      *)
LEMMA LostIsUint8 ==
  ASSUME NEW e \in Entry, NEW id \in Uint8
  PROVE  CountLost(e, id) \in Uint8
  BY TableAssumption, SMT DEF CountLost, Entry, Uint8

(* While the lost packets of an entry are ids below the last one, the      *)
(* count of a newer packet does not wrap and keeps that relation.          *)
LEMMA LostDoesNotWrap ==
  ASSUME NEW e \in Entry, NEW id \in Uint8,
         e.lost_packets <= e.last_packet_id, e.last_packet_id < id
  PROVE  /\ CountLost(e, id) = e.lost_packets + (id - e.last_packet_id - 1)
         /\ CountLost(e, id) <= id
<1> DEFINE sum == e.lost_packets + (id - e.last_packet_id - 1)
<1>1. sum \in Uint8 /\ sum <= id
  BY TableAssumption, SMT DEF Entry, Uint8
<1>2. \A x \in Uint8 : x % IdSpace = x
  BY TableAssumption, SMT DEF Uint8
<1> QED  BY <1>1, <1>2 DEF CountLost

(* A table with room takes the entry: appended for a new sender, in place  *)
(* of the old one for a known sender.                                      *)
LEMMA AddOrUpdate ==
  ASSUME NEW list \in Seq(Entry), Len(list) <= MAX_NEIGHBORS, Distinct(list),
         NEW addr \in Node, NEW total \in Uint8, NEW lost \in Uint8,
         NEW id \in Uint8, NEW new,
         new = add_or_update_neighbor(list, addr, total, lost, id)
  PROVE  /\ new \in Seq(Entry)
         /\ Distinct(new)
         /\ Senders(new) = Senders(list) \cup {addr}
         /\ \A i \in DOMAIN new : IF new[i].sender = addr
              THEN new[i] = init_neighbor(addr, total, lost, id)
              ELSE i \in DOMAIN list /\ new[i] = list[i]
         /\ DOMAIN list \subseteq DOMAIN new
<1> DEFINE n == get_neighbor_by_rimeaddr(list, addr)
           entry == init_neighbor(addr, total, lost, id)
<1>1. entry \in Entry /\ entry.sender = addr
  BY DEF init_neighbor, Entry
<1>2. ~(Len(list) > MAX_NEIGHBORS)
  BY TableAssumption
<1>3. CASE addr \notin Senders(list)
  <2>1. new = Append(list, entry)
    BY <1>2, <1>3, GetNeighbor DEF add_or_update_neighbor
  <2>2. /\ new \in Seq(Entry) /\ DOMAIN new = 1 .. Len(list) + 1
        /\ DOMAIN list = 1 .. Len(list) /\ Len(list) \in Nat
        /\ \A i \in 1 .. Len(list) : new[i] = list[i]
        /\ new[Len(list) + 1] = entry
    BY <2>1, <1>1
  <2>3. \A i \in DOMAIN list : list[i].sender # addr
    BY <1>3 DEF Senders
  <2> HIDE DEF entry
  <2> QED  BY <2>2, <2>3, <1>1, SMT DEF Distinct, Senders, entry
<1>4. CASE addr \in Senders(list)
  <2>1. n \in DOMAIN list /\ list[n].sender = addr /\ n # NotFound
    BY <1>4, GetNeighbor
  <2>2. new = [list EXCEPT ![n] = entry]
    BY <2>1, <1>2 DEF add_or_update_neighbor
  <2>3. /\ new \in Seq(Entry) /\ DOMAIN new = DOMAIN list
        /\ \A i \in DOMAIN list : new[i] = IF i = n THEN entry ELSE list[i]
    BY <2>1, <2>2, <1>1
  <2> HIDE DEF entry, n
  <2> QED  BY <2>1, <2>3, <1>1, SMT DEF Distinct, Senders, entry
<1> QED  BY <1>3, <1>4

(* A table stays a table whatever its length.                              *)
LEMMA AddOrUpdateType ==
  ASSUME NEW list \in Seq(Entry), NEW addr \in Node, NEW total \in Uint8,
         NEW lost \in Uint8, NEW id \in Uint8
  PROVE  add_or_update_neighbor(list, addr, total, lost, id) \in Seq(Entry)
<1> DEFINE n == get_neighbor_by_rimeaddr(list, addr)
           entry == init_neighbor(addr, total, lost, id)
<1>1. entry \in Entry
  BY DEF init_neighbor, Entry
<1>2. n # NotFound => n \in DOMAIN list
  BY GetNeighbor
<1> HIDE DEF entry, n
<1>3. n # NotFound => [list EXCEPT ![n] = entry] \in Seq(Entry)
  BY <1>1, <1>2
<1> QED  BY <1>1, <1>3 DEF add_or_update_neighbor, n, entry

(* Counting a packet in place changes two fields of one entry.             *)
CountedIn(list, n, lost, id) == [list EXCEPT ![n].lost_packets = lost,
                                             ![n].total_packets = id]

LEMMA CountedTable ==
  ASSUME NEW list \in Seq(Entry), NEW n \in DOMAIN list, NEW lost \in Uint8,
         NEW id \in Uint8, NEW counted, counted = CountedIn(list, n, lost, id)
  PROVE  /\ DOMAIN counted = DOMAIN list
         /\ Len(counted) = Len(list)
         /\ counted \in Seq(Entry)
         /\ \A i \in DOMAIN list : /\ i # n => counted[i] = list[i]
                                  /\ counted[i].sender = list[i].sender
<1>1. list[n] \in Entry
  OBVIOUS
<1>2. counted[n] = [list[n] EXCEPT !.lost_packets = lost, !.total_packets = id]
  BY DEF CountedIn
<1>3. counted[n] \in Entry /\ counted[n].sender = list[n].sender
  BY <1>1, <1>2 DEF Entry
<1>4. \A i \in DOMAIN list : i # n => counted[i] = list[i]
  BY DEF CountedIn
<1>5. DOMAIN counted = 1 .. Len(list) /\ DOMAIN list = 1 .. Len(list)
  BY DEF CountedIn
<1>6. ASSUME NEW i \in 1 .. Len(list) PROVE counted[i] \in Entry
  <2>1. CASE i = n
    BY <2>1, <1>3
  <2>2. CASE i # n
    <3>1. counted[i] = list[i]
      BY <2>2, <1>4, <1>5
    <3> QED  BY <3>1
  <2> QED  BY <2>1, <2>2
<1>7. counted = [i \in 1 .. Len(list) |-> counted[i]]
  BY <1>5 DEF CountedIn
<1>8. counted \in Seq(Entry)
  <2>1. \A c : /\ c = [i \in 1 .. Len(list) |-> c[i]]
               /\ \A i \in 1 .. Len(list) : c[i] \in Entry
               => c \in Seq(Entry)
    <3>1. Len(list) \in Nat
      OBVIOUS
    <3> QED  BY <3>1
  <2> QED  BY <1>6, <1>7, <2>1, Zenon
<1>9. Len(counted) = Len(list)
  BY <1>5, <1>8
<1>10. \A i \in DOMAIN list : counted[i].sender = list[i].sender
  BY <1>3, <1>4
<1> QED  BY <1>4, <1>5, <1>8, <1>9, <1>10

(* The broadcast handler keeps the table a sequence of entries.            *)
LEMMA BroadcastReceiveType ==
  ASSUME NEW list \in Seq(Entry), NEW from \in Node, NEW id \in Uint8
  PROVE  broadcast_receive(list, from, id) \in Seq(Entry)
<1> DEFINE n == get_neighbor_by_rimeaddr(list, from)
           lost == CountLost(list[n], id)
           counted == [list EXCEPT ![n].lost_packets = lost,
                                   ![n].total_packets = id]
<1>1. 0 \in Uint8
  BY TableAssumption DEF Uint8
<1>2. CASE n # NotFound /\ list[n].last_packet_id < id
  <2>1. n \in DOMAIN list /\ list[n] \in Entry
    BY <1>2, GetNeighbor
  <2>2. lost \in Uint8
    BY <2>1, LostIsUint8
  <2>5. counted \in Seq(Entry)
    <3>1. counted = CountedIn(list, n, lost, id)
      BY DEF CountedIn
    <3> HIDE DEF counted, lost, n
    <3> QED  BY <3>1, <2>1, <2>2, CountedTable
  <2>6. broadcast_receive(list, from, id)
          = add_or_update_neighbor(counted, from, id, lost, id)
    BY <1>2 DEF broadcast_receive
  <2> HIDE DEF counted, n, lost
  <2> QED  BY <2>2, <2>5, <2>6, AddOrUpdateType
<1>3. CASE ~(n # NotFound /\ list[n].last_packet_id < id)
  <2>1. broadcast_receive(list, from, id)
          = add_or_update_neighbor(list, from, 0, 0, id)
    BY <1>3 DEF broadcast_receive
  <2> QED  BY <1>1, <2>1, AddOrUpdateType
<1> QED  BY <1>2, <1>3

(* What becomes of the entry i of new when a packet id of the sender from  *)
(* is heard: it is an entry of another sender that stays as it is, it      *)
(* counts the packet and the ids it skipped on top of the older entry j,   *)
(* or its statistics start afresh.                                         *)
Kept(new, list, from, i) ==
  new[i].sender # from /\ i \in DOMAIN list /\ new[i] = list[i]

Counted(new, list, from, id, i, j) ==
  /\ list[j].sender = from
  /\ list[j].last_packet_id < id
  /\ new[i] = init_neighbor(from, id, CountLost(list[j], id), id)

Restarted(new, list, from, id, i) ==
  /\ \A j \in DOMAIN list : list[j].sender = from =>
       ~(list[j].last_packet_id < id)
  /\ new[i] = init_neighbor(from, 0, 0, id)

(* new is list after a packet id of the sender from.                       *)
Heard(new, list, from, id) ==
  /\ new \in Seq(Entry)
  /\ Distinct(new)
  /\ Senders(new) = Senders(list) \cup {from}
  /\ DOMAIN list \subseteq DOMAIN new
  /\ \A i \in DOMAIN new :
       \/ Kept(new, list, from, i)
       \/ \E j \in DOMAIN list : Counted(new, list, from, id, i, j)
       \/ Restarted(new, list, from, id, i)

(* That is what a packet does while the table has room.                    *)
LEMMA BroadcastReceive ==
  ASSUME NEW list \in Seq(Entry), Len(list) <= MAX_NEIGHBORS, Distinct(list),
         NEW from \in Node, NEW id \in Uint8, NEW new,
         new = broadcast_receive(list, from, id)
  PROVE  Heard(new, list, from, id)
<1> DEFINE n == get_neighbor_by_rimeaddr(list, from)
           lost == CountLost(list[n], id)
           counted == [list EXCEPT ![n].lost_packets = lost,
                                   ![n].total_packets = id]
<1>1. 0 \in Uint8
  BY TableAssumption DEF Uint8
<1>2. CASE n # NotFound /\ list[n].last_packet_id < id
  <2>1. n \in DOMAIN list /\ list[n].sender = from
    BY <1>2, GetNeighbor
  <2>2. list[n] \in Entry
    BY <2>1
  <2>3. lost \in Uint8
    BY <2>2, LostIsUint8
  <2>4. new = add_or_update_neighbor(counted, from, id, lost, id)
    BY <1>2 DEF broadcast_receive
  <2>5. /\ DOMAIN counted = DOMAIN list
        /\ Len(counted) = Len(list)
        /\ counted \in Seq(Entry)
        /\ \A i \in DOMAIN list : /\ i # n => counted[i] = list[i]
                                 /\ counted[i].sender = list[i].sender
    <3>1. counted = CountedIn(list, n, lost, id)
      BY DEF CountedIn
    <3> HIDE DEF counted, lost, n
    <3> QED  BY <3>1, <2>1, <2>3, CountedTable
  <2>6. Distinct(counted) /\ Senders(counted) = Senders(list)
    BY <2>5 DEF Distinct, Senders
  <2>7. \A j \in DOMAIN list : list[j].sender = from => j = n
    BY <2>1 DEF Distinct
  <2> HIDE DEF counted, lost, n
  <2>8. /\ new \in Seq(Entry) /\ Distinct(new)
        /\ Senders(new) = Senders(list) \cup {from}
        /\ DOMAIN list \subseteq DOMAIN new
        /\ \A i \in DOMAIN new : IF new[i].sender = from
             THEN new[i] = init_neighbor(from, id, lost, id)
             ELSE i \in DOMAIN list /\ new[i] = counted[i]
    <3>1. Len(counted) <= MAX_NEIGHBORS
      BY <2>5
    <3>2. counted \in Seq(Entry) /\ Distinct(counted)
      BY <2>5, <2>6
    <3>3. /\ new \in Seq(Entry) /\ Distinct(new)
          /\ Senders(new) = Senders(counted) \cup {from}
          /\ \A i \in DOMAIN new : IF new[i].sender = from
               THEN new[i] = init_neighbor(from, id, lost, id)
               ELSE i \in DOMAIN counted /\ new[i] = counted[i]
          /\ DOMAIN counted \subseteq DOMAIN new
      BY <3>1, <3>2, <2>3, <2>4, AddOrUpdate
    <3> QED  BY <3>3, <2>5, <2>6
  <2>9. \A i \in DOMAIN new : new[i].sender # from =>
          i \in DOMAIN list /\ new[i] = list[i]
    BY <2>1, <2>5, <2>8
  <2>10. \A i \in DOMAIN new : new[i].sender = from =>
           Counted(new, list, from, id, i, n)
    BY <1>2, <2>1, <2>8 DEF lost, Counted
  <2> QED  BY <2>1, <2>8, <2>9, <2>10 DEF Heard, Kept
<1>3. CASE ~(n # NotFound /\ list[n].last_packet_id < id)
  <2>1. new = add_or_update_neighbor(list, from, 0, 0, id)
    BY <1>3 DEF broadcast_receive
  <2>2. \A j \in DOMAIN list : list[j].sender = from =>
          ~(list[j].last_packet_id < id)
    <3>1. SUFFICES ASSUME NEW j \in DOMAIN list, list[j].sender = from
                   PROVE  j = n /\ n # NotFound
      BY <1>3
    <3> QED  BY <3>1, GetNeighbor DEF Senders, Distinct
  <2> HIDE DEF n
  <2> QED  BY <1>1, <2>1, <2>2, AddOrUpdate DEF Heard, Kept, Restarted
<1> QED  BY <1>2, <1>3

(* In a table of any length, an overfull one included, the senders stay    *)
(* distinct, at most the one heard is new, and no entry is dropped.        *)
LEMMA ReceiveAny ==
  ASSUME NEW list \in Seq(Entry), Distinct(list), NEW from \in Node,
         NEW id \in Uint8, NEW new, new = broadcast_receive(list, from, id)
  PROVE  /\ new \in Seq(Entry) /\ Distinct(new)
         /\ Senders(new) \in {Senders(list), Senders(list) \cup {from}}
         /\ Len(list) <= Len(new)
<1> DEFINE n == get_neighbor_by_rimeaddr(list, from)
           lost == CountLost(list[n], id)
           counted == [list EXCEPT ![n].lost_packets = lost,
                                   ![n].total_packets = id]
<1>1. new \in Seq(Entry)
  BY BroadcastReceiveType
<1>4. Len(list) \in Nat
  OBVIOUS
<1>2. CASE Len(list) <= MAX_NEIGHBORS
  <2>1. Heard(new, list, from, id)
    BY <1>2, BroadcastReceive
  <2>2. 1 .. Len(list) \subseteq 1 .. Len(new) /\ Len(list) \in Nat
        /\ Len(new) \in Nat
    BY <1>1, <2>1 DEF Heard
  <2>3. Len(list) <= Len(new)
    BY <2>2, SMT
  <2> QED  BY <1>1, <2>1, <2>3 DEF Heard
<1>3. CASE Len(list) > MAX_NEIGHBORS
  <2>1. CASE n # NotFound /\ list[n].last_packet_id < id
    <3>1. n \in DOMAIN list /\ list[n] \in Entry
      BY <2>1, GetNeighbor
    <3>2. lost \in Uint8
      BY <3>1, LostIsUint8
    <3>3. /\ DOMAIN counted = DOMAIN list
          /\ Len(counted) = Len(list)
          /\ \A i \in DOMAIN list : counted[i].sender = list[i].sender
      <4>1. counted = CountedIn(list, n, lost, id)
        BY DEF CountedIn
      <4> HIDE DEF counted, lost, n
      <4> QED  BY <4>1, <3>1, <3>2, CountedTable
    <3>4. new = add_or_update_neighbor(counted, from, id, lost, id)
      BY <2>1 DEF broadcast_receive
    <3> HIDE DEF counted, lost, n
    <3>5. new = counted
      BY <1>3, <3>3, <3>4 DEF add_or_update_neighbor
    <3> QED  BY <1>1, <1>4, <3>3, <3>5 DEF Distinct, Senders
  <2>2. CASE ~(n # NotFound /\ list[n].last_packet_id < id)
    <3>1. new = add_or_update_neighbor(list, from, 0, 0, id)
      BY <2>2 DEF broadcast_receive
    <3>2. new = list
      BY <1>3, <3>1 DEF add_or_update_neighbor
    <3> QED  BY <1>1, <1>4, <3>2
  <2> QED  BY <2>1, <2>2
<1> QED  BY <1>2, <1>3, <1>4, TableAssumption

-----------------------------------------------------------------------------
(***************************************************************************)
(* Type correctness.  It needs no assumption on the network: an overfull   *)
(* table is still a table.                                                 *)
(***************************************************************************)
LEMMA Arithmetic ==
  /\ 0 \in Uint8 /\ 1 \in Uint8
  /\ \A x \in Uint8 : (x + 1) % IdSpace \in Uint8
  /\ \A x \in Uint8 : x + 1 < IdSpace => (x + 1) % IdSpace = x + 1
  /\ \A x \in Uint8 : x + 1 >= IdSpace => (x + 1) % IdSpace = 0
  /\ \A x \in 0 .. IdSpace : Saturate(x + 1) \in 0 .. IdSpace
  /\ IdSpace \in Nat /\ 0 \in 0 .. IdSpace
  BY TableAssumption, SMT DEF Uint8, Saturate

(* What the reception of a frame leaves alone, and the types of what it    *)
(* changes.                                                                *)
LEMMA HearType ==
  ASSUME TypeOK, NEW s \in Node, NEW R \in SUBSET Node, NEW id \in Uint8,
         Hear(s, R, id)
  PROVE  /\ UNCHANGED <<max_total_packet, current_message_id, reports, printed,
                        reboots>>
         /\ pc' \in [Node -> {"settle", "pace", "ended", "wild", "foreign"}]
         /\ neighbor_list' \in [Node -> Seq(Entry)]
         /\ missed' \in [Node -> [Node -> 0 .. IdSpace]]
<1>1. ASSUME NEW r \in Node
      PROVE  broadcast_receive(neighbor_list[r], s, id) \in Seq(Entry)
  BY BroadcastReceiveType DEF TypeOK
<1>2. neighbor_list' \in [Node -> Seq(Entry)]
  BY <1>1 DEF Hear, TypeOK
<1>3. pc' \in [Node -> {"settle", "pace", "ended", "wild", "foreign"}]
  BY DEF Hear, TypeOK
<1>4. missed' \in [Node -> [Node -> 0 .. IdSpace]]
  BY Arithmetic DEF Hear, TypeOK
<1> QED  BY <1>2, <1>3, <1>4 DEF Hear

(* send_packets_to_sink makes a report out of every table.                 *)
LEMMA ReportOfType ==
  ASSUME TypeOK, NEW n \in Node
  PROVE  ReportOf(n) \in Report
<1> DEFINE lines == ReportOf(n).lines
<1>1. neighbor_list[n] \in Seq(Entry)
  BY DEF TypeOK
<1>2. DOMAIN neighbor_list[n] = 1 .. Len(neighbor_list[n])
      /\ Len(neighbor_list[n]) \in Nat
  BY <1>1
<1>3. \A i \in DOMAIN neighbor_list[n] : neighbor_list[n][i] \in Entry
  BY <1>1
<1>4. lines \in [1 .. Len(neighbor_list[n]) -> LinkLine]
  BY <1>2, <1>3 DEF ReportOf, LinkLine, Entry
<1>5. lines \in Seq(LinkLine)
  BY <1>2, <1>4
<1>6. ReportOf(n).originator = n /\ ReportOf(n) = [originator |-> n, lines |-> lines]
  BY DEF ReportOf
<1> HIDE DEF lines
<1> QED  BY <1>5, <1>6 DEF Report

(* The initial state has the types.                                        *)
LEMMA InitType == Init => TypeOK
  BY Arithmetic, NetworkAssumption DEF Init, TypeOK, Uint8, NoFrame, Report

(* Every step keeps the types.                                             *)
LEMMA NextType == TypeOK /\ [Next]_vars => TypeOK'
<1> SUFFICES ASSUME TypeOK, [Next]_vars PROVE TypeOK'
  OBVIOUS
<1> USE Arithmetic DEF TypeOK
<1>1. CASE SinkSettles
  BY <1>1, NetworkAssumption DEF SinkSettles, code
<1>2. ASSUME NEW n \in Node, Settle(n) PROVE TypeOK'
  BY <1>2 DEF Settle
<1>3. ASSUME NEW n \in Node, BroadcastOnly(n) PROVE TypeOK'
  BY <1>3 DEF BroadcastOnly, Broadcast
<1>4. ASSUME NEW n \in Node, BroadcastAndReport(n) PROVE TypeOK'
  <2>1. ReportOf(n) \in Report
    BY ReportOfType
  <2>2. reports' \in SUBSET Report
    BY <1>4, <2>1 DEF BroadcastAndReport
  <2>3. pc' \in [Node -> {"settle", "pace", "ended", "wild", "foreign"}]
    BY <1>4 DEF BroadcastAndReport
  <2>4. /\ outbox' \in [Node -> Uint8 \cup {NoFrame}]
        /\ current_message_id' \in [Node -> Uint8]
        /\ UNCHANGED <<printed, reboots>>
    BY <1>4 DEF BroadcastAndReport, Broadcast
  <2>5. /\ neighbor_list' \in [Node -> Seq(Entry)]
        /\ missed' \in [Node -> [Node -> 0 .. IdSpace]]
        /\ restarted' \in SUBSET (Node \X Node)
    BY <1>4 DEF BroadcastAndReport, clean_list
  <2>6. max_total_packet' \in [Node -> Uint8]
    BY <1>4 DEF BroadcastAndReport
  <2> QED  BY <2>2, <2>3, <2>4, <2>5, <2>6
<1>5. ASSUME NEW s \in Node, NEW R \in SUBSET Node, Transmit(s, R)
      PROVE  TypeOK'
  <2>1. outbox[s] \in Uint8 /\ Hear(s, R, outbox[s])
    BY <1>5 DEF Transmit
  <2>2. restarted' \in SUBSET (Node \X Node)
    BY <1>5 DEF Transmit, Knowing
  <2>3. outbox' \in [Node -> Uint8 \cup {NoFrame}]
    BY <1>5 DEF Transmit
  <2> QED  BY <2>1, <2>2, <2>3, HearType
<1>6. ASSUME NEW f \in Node, NEW R \in SUBSET Node, ForeignBroadcast(f, R)
      PROVE  TypeOK'
  <2>1. Hear(f, R, 0)
    BY <1>6 DEF ForeignBroadcast
  <2>2. restarted' \in SUBSET (Node \X Node)
    BY <1>6 DEF ForeignBroadcast, Knowing
  <2> QED  BY <1>6, <2>1, <2>2, HearType DEF ForeignBroadcast
<1>7. ASSUME NEW n \in Node, Reboot(n) PROVE TypeOK'
  <2>1. restarted' \in SUBSET (Node \X Node)
    BY <1>7 DEF Reboot, Knowing
  <2>2. reboots' \in 0 .. MaxReboots
    BY <1>7, NetworkAssumption DEF Reboot
  <2>3. neighbor_list' \in [Node -> Seq(Entry)]
    BY <1>7 DEF Reboot
  <2> QED  BY <1>7, <2>1, <2>2, <2>3 DEF Reboot
<1>8. ASSUME NEW rep \in reports, Deliver(rep) PROVE TypeOK'
  <2>1. \A i \in DOMAIN rep.lines : rep.lines[i] \in LinkLine
    BY DEF Report
  <2>2. printed' \in SUBSET (Node \X Node)
    BY <1>8, <2>1 DEF Deliver, LinkLine
  <2> QED  BY <1>8, <2>2 DEF Deliver, code
<1>9. ASSUME NEW rep \in reports, LoseReport(rep) PROVE TypeOK'
  BY <1>9 DEF LoseReport, code
<1>10. CASE UNCHANGED vars
  BY <1>10 DEF vars, code
<1> QED
  BY <1>1, <1>2, <1>3, <1>4, <1>5, <1>6, <1>7, <1>8, <1>9, <1>10 DEF Next

(* Every variable of the program and of the network keeps its type.        *)
THEOREM TypeCorrect == Spec => []TypeOK
  BY InitType, NextType, PTL DEF Spec

-----------------------------------------------------------------------------
(***************************************************************************)
(* What holds in every network: tables may overflow.                       *)
(***************************************************************************)

(* A frame adds at most its sender to the tables of those it reaches.      *)
LEMMA HearAny ==
  ASSUME TypeOK, OneEntryPerSender, NEW s \in Node, NEW R \in SUBSET Node,
         NEW id \in Uint8, Hear(s, R, id)
  PROVE  /\ OneEntryPerSender'
         /\ \A r \in Node \ R : neighbor_list'[r] = neighbor_list[r]
         /\ \A r \in R : Senders(neighbor_list'[r])
              \in {Senders(neighbor_list[r]), Senders(neighbor_list[r]) \cup {s}}
<1>1. /\ \A r \in Node \ R : neighbor_list'[r] = neighbor_list[r]
      /\ \A r \in R : neighbor_list'[r]
                         = broadcast_receive(neighbor_list[r], s, id)
  BY DEF Hear
<1>2. \A r \in Node : neighbor_list[r] \in Seq(Entry) /\ Distinct(neighbor_list[r])
  BY DEF TypeOK, OneEntryPerSender, Distinct
<1>3. \A r \in R :
        /\ Distinct(neighbor_list'[r])
        /\ Senders(neighbor_list'[r])
             \in {Senders(neighbor_list[r]), Senders(neighbor_list[r]) \cup {s}}
  BY <1>1, <1>2, ReceiveAny
<1>4. \A r \in Node : Distinct(neighbor_list'[r])
  BY <1>1, <1>2, <1>3
<1>5. OneEntryPerSender'
  BY <1>4 DEF OneEntryPerSender, Distinct
<1> QED  BY <1>1, <1>3, <1>5

LEMMA OverfullInit == Init => OverfullInv
<1> SUFFICES ASSUME Init PROVE OverfullInv
  OBVIOUS
<1>1. TypeOK
  BY InitType
<1>2. OneEntryPerSender
  BY DEF Init, OneEntryPerSender
<1> QED  BY <1>1, <1>2 DEF Init, OverfullInv

LEMMA OverfullStep == OverfullInv /\ [Next]_vars => OverfullInv'
<1> SUFFICES ASSUME OverfullInv, [Next]_vars PROVE OverfullInv'
  OBVIOUS
<1> DEFINE Measuring == \A n \in Node : pc[n] = "pace" => n # Sink
           Own == \A rep \in reports : \A i \in DOMAIN rep.lines :
                    rep.lines[i].to = rep.originator
<1>1. TypeOK /\ OneEntryPerSender /\ Measuring /\ Own
  BY DEF OverfullInv
<1>2. TypeOK'
  BY <1>1, NextType
<1>3. SUFFICES OneEntryPerSender' /\ Measuring' /\ Own'
  BY <1>2 DEF OverfullInv
<1>4. ASSUME UNCHANGED neighbor_list PROVE OneEntryPerSender'
  BY <1>1, <1>4 DEF OneEntryPerSender
<1>5. ASSUME NEW n \in Node, neighbor_list' = [neighbor_list EXCEPT ![n] = <<>>]
      PROVE  OneEntryPerSender'
  <2>1. \A r \in Node : neighbor_list'[r] \in {neighbor_list[r], <<>>}
    BY <1>5
  <2> QED  BY <1>1, <2>1 DEF OneEntryPerSender
<1>6. ASSUME reports' \subseteq reports PROVE Own'
  BY <1>1, <1>6
<1>7. ASSUME \A n \in Node : pc'[n] = "pace" => pc[n] = "pace" PROVE Measuring'
  BY <1>1, <1>7
<1>8. CASE SinkSettles
  BY <1>1, <1>4, <1>6, <1>8 DEF SinkSettles, code, TypeOK
<1>9. ASSUME NEW n \in Node, Settle(n)
      PROVE  OneEntryPerSender' /\ Measuring' /\ Own'
  BY <1>1, <1>4, <1>6, <1>9 DEF Settle, TypeOK
<1>10. ASSUME NEW n \in Node, BroadcastOnly(n)
       PROVE  OneEntryPerSender' /\ Measuring' /\ Own'
  BY <1>4, <1>6, <1>7, <1>10 DEF BroadcastOnly
<1>11. ASSUME NEW n \in Node, BroadcastAndReport(n)
       PROVE  OneEntryPerSender' /\ Measuring' /\ Own'
  <2>1. OneEntryPerSender'
    BY <1>5, <1>11 DEF BroadcastAndReport, clean_list
  <2>2. Measuring'
    BY <1>1, <1>11 DEF BroadcastAndReport, TypeOK
  <2>3. \A i \in DOMAIN ReportOf(n).lines :
          ReportOf(n).lines[i].to = ReportOf(n).originator
    BY DEF ReportOf
  <2>4. reports' \subseteq reports \cup {ReportOf(n)}
    BY <1>11 DEF BroadcastAndReport
  <2> QED  BY <1>1, <2>1, <2>2, <2>3, <2>4
<1>12. ASSUME NEW s \in Node, NEW R \in SUBSET Node, NEW id \in Uint8,
              Hear(s, R, id)
       PROVE  OneEntryPerSender' /\ Measuring' /\ Own'
  <2>1. OneEntryPerSender'
    BY <1>1, <1>12, HearAny
  <2>2. \A n \in Node : pc'[n] = "pace" => pc[n] = "pace"
    BY <1>12 DEF Hear
  <2> QED  BY <1>6, <1>7, <1>12, <2>1, <2>2 DEF Hear
<1>13. ASSUME NEW s \in Node, NEW R \in SUBSET Node,
              Transmit(s, R) \/ ForeignBroadcast(s, R)
       PROVE  OneEntryPerSender' /\ Measuring' /\ Own'
  <2>1. \E id \in Uint8 : Hear(s, R, id)
    BY <1>1, <1>13, Arithmetic DEF Transmit, ForeignBroadcast, TypeOK
  <2> QED  BY <1>12, <2>1
<1>14. ASSUME NEW n \in Node, Reboot(n)
       PROVE  OneEntryPerSender' /\ Measuring' /\ Own'
  BY <1>1, <1>5, <1>6, <1>14 DEF Reboot, TypeOK
<1>15. ASSUME NEW rep \in reports, Deliver(rep) \/ LoseReport(rep)
       PROVE  OneEntryPerSender' /\ Measuring' /\ Own'
  BY <1>4, <1>6, <1>7, <1>15 DEF Deliver, LoseReport, code
<1>16. CASE UNCHANGED vars
  BY <1>4, <1>6, <1>7, <1>16 DEF vars, code
<1> QED
  BY <1>8, <1>9, <1>10, <1>11, <1>13, <1>14, <1>15, <1>16 DEF Next

(* These facts hold in every network.                                      *)
LEMMA OverfullInvariance == Spec => []OverfullInv
  BY OverfullInit, OverfullStep, PTL DEF Spec

(* A neighbour has one entry in a table, also after the table overflowed.  *)
THEOREM OneEntryTheorem == Spec => []OneEntryPerSender
<1>1. OverfullInv => OneEntryPerSender
  BY DEF OverfullInv
<1> QED  BY <1>1, OverfullInvariance, PTL

-----------------------------------------------------------------------------
(***************************************************************************)
(* The inductive invariant, for every network: what it says of the entries *)
(* of a table it says of tables within their array.                        *)
(***************************************************************************)

(* A table whose senders are distinct members of S is not longer than S    *)
(* has members.                                                            *)
LEMMA TableFits ==
  ASSUME NEW list \in Seq(Entry), Distinct(list),
         NEW S, IsFiniteSet(S), Senders(list) \subseteq S
  PROVE  Len(list) <= Cardinality(S)
<1> DEFINE I == 1 .. Len(list)
           f == [i \in I |-> list[i].sender]
<1>1. DOMAIN list = I /\ Len(list) \in Nat
  OBVIOUS
<1>2. f \in Injection(I, S)
  BY <1>1 DEF Distinct, Senders, Injection, IsInjective
<1>3. Cardinality(I) <= Cardinality(S)
  <2> HIDE DEF f, I
  <2> QED  BY <1>2, FS_Injection
<1>4. Cardinality(I) = Len(list)
  BY <1>1, FS_Interval
<1> QED  BY <1>3, <1>4

(* What a frame changes: the sender's entry in the tables of those who hear *)
(* it, and some of those whose array it overran run wild.  A table within  *)
(* its array after the frame was so before it.                             *)
LEMMA HearTables ==
  ASSUME IInv, NEW s \in Node, NEW R \in SUBSET Node, NEW id \in Uint8,
         Hear(s, R, id)
  PROVE  /\ \A t \in Node : /\ pc'[t] \in {pc[t], "wild"}
                            /\ t \in Foreign => pc'[t] = pc[t]
         /\ \A r \in Node \ R : neighbor_list'[r] = neighbor_list[r]
         /\ \A r \in R :
              /\ s \in InRange(r) /\ r \notin Foreign
              /\ Senders(neighbor_list'[r]) \subseteq Senders(neighbor_list[r]) \cup {s}
         /\ \A r \in Node :
              /\ Senders(neighbor_list[r]) \subseteq Senders(neighbor_list'[r])
              /\ WithinArray(r)' =>
                   /\ WithinArray(r)
                   /\ r \in R => Heard(neighbor_list'[r], neighbor_list[r], s, id)
<1>1. TypeOK /\ TableInv /\ NumberingInv /\ OneEntryPerSender
  BY DEF IInv, TableInv
<1>2. R \subseteq {r \in Hearers(s) : Listening(r)}
  BY DEF Hear
<1>3. \A r \in R : s \in InRange(r) /\ r \notin Foreign
  BY <1>1, <1>2 DEF Hearers, InRange, Listening, NumberingInv
<1>4. \A t \in Node : /\ pc'[t] \in {pc[t], "wild"}
                      /\ t \in Foreign => pc'[t] = pc[t]
  BY <1>3 DEF Hear
<1>5. /\ \A r \in Node \ R : neighbor_list'[r] = neighbor_list[r]
      /\ \A r \in R : neighbor_list'[r]
                         = broadcast_receive(neighbor_list[r], s, id)
  BY DEF Hear
<1>6. \A r \in Node : neighbor_list[r] \in Seq(Entry) /\ Distinct(neighbor_list[r])
  BY <1>1 DEF TypeOK, OneEntryPerSender, Distinct
<1>7. ASSUME NEW r \in R
      PROVE  /\ Senders(neighbor_list[r]) \subseteq Senders(neighbor_list'[r])
             /\ Senders(neighbor_list'[r]) \subseteq Senders(neighbor_list[r]) \cup {s}
             /\ WithinArray(r)' =>
                  /\ WithinArray(r)
                  /\ Heard(neighbor_list'[r], neighbor_list[r], s, id)
  <2> DEFINE old == neighbor_list[r]
             new == neighbor_list'[r]
  <2>1. /\ old \in Seq(Entry) /\ Distinct(old)
        /\ new = broadcast_receive(old, s, id)
    BY <1>5, <1>6
  <2>2. /\ new \in Seq(Entry) /\ Len(old) <= Len(new)
        /\ Senders(new) \in {Senders(old), Senders(old) \cup {s}}
    <3> HIDE DEF old, new
    <3> QED  BY <2>1, ReceiveAny
  <2>3. Len(new) <= MAX_NEIGHBORS => Len(old) <= MAX_NEIGHBORS
    <3> HIDE DEF old, new
    <3>1. Len(old) \in Nat /\ Len(new) \in Nat /\ MAX_NEIGHBORS \in Nat
      BY <2>1, <2>2, TableAssumption
    <3> QED  BY <2>2, <3>1
  <2>4. Len(old) <= MAX_NEIGHBORS => Heard(new, old, s, id)
    <3> HIDE DEF old, new
    <3> QED  BY <2>1, BroadcastReceive
  <2> QED  BY <2>2, <2>3, <2>4 DEF WithinArray
<1>8. ASSUME NEW r \in Node \ R
      PROVE  /\ Senders(neighbor_list'[r]) = Senders(neighbor_list[r])
             /\ WithinArray(r)' => WithinArray(r)
  BY <1>5 DEF WithinArray
<1> QED  BY <1>3, <1>4, <1>5, <1>7, <1>8

(* The table invariants after a frame.                                     *)
LEMMA HearKeepsTables ==
  ASSUME IInv, NEW s \in Node, NEW R \in SUBSET Node, NEW id \in Uint8,
         Hear(s, R, id)
  PROVE  TableInv' /\ EntryInv'
<1>1. TypeOK /\ TableInv /\ EntryInv /\ OneEntryPerSender
  BY DEF IInv, TableInv
<1>2. \A r \in Node \ R : neighbor_list'[r] = neighbor_list[r]
  BY HearTables
<1>3. \A r \in R :
        /\ s \in InRange(r) /\ r \notin Foreign
        /\ Senders(neighbor_list'[r]) \subseteq Senders(neighbor_list[r]) \cup {s}
  BY HearTables
<1>4. OneEntryPerSender'
  BY <1>1, HearAny
<1>5. \A r \in Node : Senders(neighbor_list'[r]) \subseteq InRange(r)
  <2>1. \A r \in Node \ R : Senders(neighbor_list'[r]) \subseteq InRange(r)
    BY <1>1, <1>2 DEF TableInv
  <2>2. \A r \in R : Senders(neighbor_list'[r]) \subseteq InRange(r)
    BY <1>1, <1>3 DEF TableInv
  <2> QED  BY <2>1, <2>2
<1>6. \A r \in Foreign : neighbor_list'[r] = <<>>
  BY <1>1, <1>2, <1>3, NetworkAssumption DEF TableInv
<1>7. EntryInv'
  <2> SUFFICES ASSUME NEW r \in Node, WithinArray(r)',
                      NEW i \in DOMAIN neighbor_list'[r],
                      NEW e, e = neighbor_list'[r][i]
               PROVE  /\ e.lost_packets <= e.last_packet_id
                      /\ \/ e.total_packets = e.last_packet_id
                         \/ e.total_packets = 0 /\ e.lost_packets = 0
    BY DEF EntryInv
  <2> DEFINE old == neighbor_list[r]
             new == neighbor_list'[r]
  <2>0. WithinArray(r) /\ (r \in R => Heard(new, old, s, id))
    BY HearTables
  <2>1. CASE r \notin R
    BY <1>1, <1>2, <2>0, <2>1 DEF EntryInv
  <2>2. CASE r \in R /\ Kept(new, old, s, i)
    BY <1>1, <2>0, <2>2 DEF EntryInv, Kept
  <2>3. ASSUME r \in R, NEW j \in DOMAIN old, Counted(new, old, s, id, i, j)
        PROVE  /\ e.lost_packets <= e.last_packet_id
               /\ e.total_packets = e.last_packet_id
    <3>1. old[j] \in Entry /\ old[j].lost_packets <= old[j].last_packet_id
      BY <1>1, <2>0 DEF TypeOK, EntryInv
    <3>2. CountLost(old[j], id) <= id
      BY <2>3, <3>1, LostDoesNotWrap DEF Counted
    <3> QED  BY <2>3, <3>2 DEF Counted, init_neighbor
  <2>4. CASE r \in R /\ Restarted(new, old, s, id, i)
    BY <2>4 DEF Restarted, init_neighbor, Uint8
  <2> QED  BY <2>0, <2>1, <2>2, <2>3, <2>4 DEF Heard
<1> QED  BY <1>4, <1>5, <1>6, <1>7 DEF TableInv

(* After a frame of s the next one has the next id; nobody else's changes. *)
(* Of a node that runs wild nothing is expected any more.                  *)
LEMMA TransmitNumbers ==
  ASSUME IInv, NEW s \in Node, NEW R \in SUBSET Node, Transmit(s, R)
  PROVE  /\ Hear(s, R, outbox[s])
         /\ outbox[s] \in Uint8 /\ NextFrame(s) = outbox[s]
         /\ NextFrame(s)' \in Uint8 /\ NextFrame(s)' <= outbox[s] + 1
         /\ pc'[s] # "wild" =>
              /\ outbox[s] + 1 = IdSpace => NextFrame(s)' = 0
              /\ outbox[s] + 1 # IdSpace => NextFrame(s)' = outbox[s] + 1
         /\ \A t \in Node \ {s} :
              /\ NextFrame(t)' \in {NextFrame(t), 1}
              /\ pc'[t] # "wild" => NextFrame(t)' = NextFrame(t)
<1>1. TypeOK /\ NumberingInv
  BY DEF IInv
<1>2. /\ outbox[s] # NoFrame /\ Hear(s, R, outbox[s])
      /\ outbox' = [outbox EXCEPT ![s] = NoFrame]
  BY DEF Transmit
<1>3. outbox[s] \in Uint8
  BY <1>1, <1>2 DEF TypeOK
<1>4. /\ \A t \in Node : pc'[t] \in {pc[t], "wild"}
      /\ current_message_id' = current_message_id
  <2>1. \A t \in Node : pc'[t] \in {pc[t], "wild"}
    BY <1>2, <1>3, HearTables
  <2> QED  BY <1>2, <2>1 DEF Hear
<1>5. pc[s] \in {"pace", "wild"}
  BY <1>1, <1>2 DEF NumberingInv, TypeOK
<1>6. pc[s] = "pace" => current_message_id[s] = (outbox[s] + 1) % IdSpace
  BY <1>1, <1>2 DEF NumberingInv
<1>7. outbox'[s] = NoFrame /\ \A t \in Node \ {s} : outbox'[t] = outbox[t]
  BY <1>1, <1>2 DEF TypeOK
<1>8. NextFrame(s)' = IF pc'[s] = "pace" THEN current_message_id[s] ELSE 1
  BY <1>4, <1>7 DEF NextFrame
<1>9. /\ (outbox[s] + 1) % IdSpace \in Uint8
      /\ (outbox[s] + 1) % IdSpace <= outbox[s] + 1
      /\ outbox[s] + 1 = IdSpace => (outbox[s] + 1) % IdSpace = 0
      /\ outbox[s] + 1 # IdSpace => (outbox[s] + 1) % IdSpace = outbox[s] + 1
      /\ 1 \in Uint8 /\ 1 <= outbox[s] + 1
  BY <1>3, Arithmetic, TableAssumption DEF Uint8
<1>10. NextFrame(s)' \in {(outbox[s] + 1) % IdSpace, 1}
       /\ (pc'[s] # "wild" => NextFrame(s)' = (outbox[s] + 1) % IdSpace)
  BY <1>4, <1>5, <1>6, <1>8
<1>11. \A t \in Node \ {s} :
         /\ NextFrame(t)' \in {NextFrame(t), 1}
         /\ pc'[t] # "wild" => NextFrame(t)' = NextFrame(t)
  BY <1>4, <1>7 DEF NextFrame
<1>12. NextFrame(s) = outbox[s]
  BY <1>2 DEF NextFrame
<1> QED  BY <1>2, <1>3, <1>9, <1>10, <1>11, <1>12

(* What a frame does to the histories.                                     *)
LEMMA HearMissed ==
  ASSUME TypeOK, NEW s \in Node, NEW R \in SUBSET Node, NEW id \in Uint8,
         Hear(s, R, id)
  PROVE  \A r, t \in Node :
           /\ missed[r][t] \in 0 .. IdSpace
           /\ missed'[r][t] =
                IF t = s /\ r \notin R /\ s \in Senders(neighbor_list[r])
                  THEN Saturate(missed[r][s] + 1) ELSE missed[r][t]
  BY DEF Hear, TypeOK

(* A frame on the air closes the gap of those who hear it by what it counts*)
(* as lost and adds one missed packet for the others: CountInv goes on.    *)
LEMMA TransmitCounts ==
  ASSUME IInv, NEW s \in Node, NEW R \in SUBSET Node, Transmit(s, R)
  PROVE  CountInv'
<1> DEFINE x == outbox[s]
<1>1. TypeOK /\ EntryInv /\ CountInv
  BY DEF IInv
<1>2. /\ Hear(s, R, x) /\ x \in Uint8 /\ NextFrame(s) = x
      /\ NextFrame(s)' \in Uint8 /\ NextFrame(s)' <= x + 1
      /\ \A t \in Node \ {s} : NextFrame(t)' \in {NextFrame(t), 1}
  BY TransmitNumbers
<1>3. /\ \A r \in Node \ R : neighbor_list'[r] = neighbor_list[r]
      /\ \A r \in Node :
           /\ Senders(neighbor_list[r]) \subseteq Senders(neighbor_list'[r])
           /\ WithinArray(r)' =>
                /\ WithinArray(r)
                /\ r \in R => Heard(neighbor_list'[r], neighbor_list[r], s, x)
  <2> HIDE DEF x
  <2> QED  BY <1>2, HearTables
<1>4. \A r, t \in Node :
        /\ missed[r][t] \in 0 .. IdSpace
        /\ missed'[r][t] =
             IF t = s /\ r \notin R /\ s \in Senders(neighbor_list[r])
               THEN Saturate(missed[r][s] + 1) ELSE missed[r][t]
  <2>1. TypeOK /\ Hear(s, R, x) /\ x \in Uint8
    BY <1>1, <1>2
  <2> HIDE DEF x
  <2> QED  BY <2>1, HearMissed, Zenon
<1>5. ASSUME NEW r \in Node, WithinArray(r)',
             NEW i \in DOMAIN neighbor_list'[r], NEW e, e = neighbor_list'[r][i]
      PROVE  /\ e.lost_packets <= missed'[r][e.sender]
             /\ e.lost_packets + (NextFrame(e.sender)' - e.last_packet_id - 1)
                  <= missed'[r][e.sender]
  <2> DEFINE old == neighbor_list[r]
             new == neighbor_list'[r]
  <2>0. WithinArray(r) /\ (r \in R => Heard(new, old, s, x))
    BY <1>3, <1>5
  <2>1. ASSUME NEW j \in DOMAIN old
        PROVE  /\ old[j] \in Entry
               /\ old[j].sender \in Node
               /\ old[j].last_packet_id \in Uint8
               /\ old[j].lost_packets \in Uint8
               /\ old[j].lost_packets <= old[j].last_packet_id
               /\ old[j].lost_packets <= missed[r][old[j].sender]
               /\ old[j].lost_packets
                    + (NextFrame(old[j].sender) - old[j].last_packet_id - 1)
                    <= missed[r][old[j].sender]
    <3>1. old[j] \in Entry
      BY <1>1 DEF TypeOK
    <3> QED  BY <1>1, <2>0, <3>1 DEF Entry, EntryInv, CountInv, LossSound
  <2>2. CASE i \in DOMAIN old /\ e = old[i] /\ e.sender # s
    <3>1. missed'[r][e.sender] = missed[r][e.sender]
          /\ NextFrame(e.sender)' \in {NextFrame(e.sender), 1}
          /\ missed[r][e.sender] \in 0 .. IdSpace
      BY <1>2, <1>4, <2>1, <2>2
    <3>2. CASE NextFrame(e.sender)' = NextFrame(e.sender)
      BY <2>1, <2>2, <3>1, <3>2
    <3>3. CASE NextFrame(e.sender)' = 1
      <4>1. /\ e.lost_packets \in Uint8 /\ e.last_packet_id \in Uint8
            /\ e.lost_packets <= e.last_packet_id
            /\ e.lost_packets <= missed[r][e.sender]
        BY <2>1, <2>2
      <4> QED  BY <3>1, <3>3, <4>1, TableAssumption, SMT DEF Uint8
    <3> QED  BY <3>1, <3>2, <3>3
  <2>3. CASE r \notin R /\ i \in DOMAIN old /\ e = old[i] /\ e.sender = s
    <3>1. s \in Senders(old)
      BY <2>3 DEF Senders
    <3>2. missed'[r][s] = Saturate(missed[r][s] + 1)
      BY <1>4, <2>3, <3>1
    <3> QED
      BY <1>2, <1>4, <2>1, <2>3, <3>2, TableAssumption, SMT DEF Saturate, Uint8
  <2>4. ASSUME r \in R, NEW j \in DOMAIN old, Counted(new, old, s, x, i, j)
        PROVE  /\ e.lost_packets <= missed'[r][e.sender]
               /\ e.lost_packets
                    + (NextFrame(e.sender)' - e.last_packet_id - 1)
                    <= missed'[r][e.sender]
    <3>1. e = init_neighbor(s, x, CountLost(old[j], x), x)
          /\ old[j].sender = s
      BY <1>5, <2>4 DEF Counted
    <3>2. CountLost(old[j], x)
            = old[j].lost_packets + (x - old[j].last_packet_id - 1)
      BY <1>2, <2>1, <2>4, LostDoesNotWrap DEF Counted
    <3>3. missed'[r][s] = missed[r][s] /\ missed[r][s] \in 0 .. IdSpace
      BY <1>4, <2>4
    <3>4. e.sender = s /\ e.lost_packets = CountLost(old[j], x)
          /\ e.last_packet_id = x
      BY <3>1 DEF init_neighbor
    <3> QED  BY <1>2, <2>1, <3>1, <3>2, <3>3, <3>4, SMT DEF Uint8
  <2>5. CASE r \in R /\ Restarted(new, old, s, x, i)
    <3>1. e.sender = s /\ e.lost_packets = 0 /\ e.last_packet_id = x
      BY <1>5, <2>5 DEF Restarted, init_neighbor
    <3>2. missed'[r][s] \in 0 .. IdSpace
      BY <1>4, <2>5
    <3> QED  BY <1>2, <3>1, <3>2, SMT DEF Uint8
  <2> QED  BY <1>3, <1>5, <2>0, <2>2, <2>3, <2>4, <2>5 DEF Heard, Kept
<1>6. ASSUME NEW r \in Node, NEW t \in Node, t \notin Senders(neighbor_list'[r])
      PROVE  missed'[r][t] = 0 /\ <<r, t>> \notin restarted'
  <2>1. t \notin Senders(neighbor_list[r])
    BY <1>3, <1>6
  <2>2. missed[r][t] = 0 /\ <<r, t>> \notin restarted
    BY <1>1, <2>1 DEF CountInv
  <2>3. <<r, t>> \notin restarted'
    BY <2>1, <2>2 DEF Transmit, Knowing
  <2> QED  BY <1>4, <2>1, <2>2, <2>3
<1> QED  BY <1>5, <1>6 DEF CountInv, LossSound

(* The exact count after a frame: a node that misses it has one more to    *)
(* count and one more id in the gap, a node that hears it moves the gap    *)
(* into the count.                                                         *)
LEMMA TransmitExact ==
  ASSUME IInv, NEW s \in Node, NEW R \in SUBSET Node, Transmit(s, R)
  PROVE  ExactInv'
<1> DEFINE x == outbox[s]
           Next0(k) == IF k = 0 THEN IdSpace ELSE k
<1>1. TypeOK /\ EntryInv /\ CountInv /\ ExactInv /\ IdSpace \in Nat /\ IdSpace >= 2
  BY TableAssumption DEF IInv
<1>2. /\ Hear(s, R, x) /\ x \in Uint8 /\ NextFrame(s) = x
      /\ NextFrame(s)' \in Uint8
      /\ pc'[s] # "wild" =>
           /\ Next0(NextFrame(s)') = x + 1
           /\ NextFrame(s)' # 0 => NextFrame(s)' = x + 1
      /\ \A t \in Node \ {s} : pc'[t] # "wild" => NextFrame(t)' = NextFrame(t)
  BY <1>1, TransmitNumbers DEF Uint8
<1>3. /\ \A r \in Node \ R : neighbor_list'[r] = neighbor_list[r]
      /\ \A r \in Node : WithinArray(r)' =>
           /\ WithinArray(r)
           /\ r \in R => Heard(neighbor_list'[r], neighbor_list[r], s, x)
      /\ \A t \in Node : pc'[t] \in {pc[t], "wild"}
  <2> HIDE DEF x
  <2> QED  BY <1>2, HearTables
<1>4. \A r, t \in Node :
        /\ missed[r][t] \in 0 .. IdSpace
        /\ missed'[r][t] =
             IF t = s /\ r \notin R /\ s \in Senders(neighbor_list[r])
               THEN Saturate(missed[r][s] + 1) ELSE missed[r][t]
  <2>1. TypeOK /\ Hear(s, R, x) /\ x \in Uint8
    BY <1>1, <1>2
  <2> HIDE DEF x
  <2> QED  BY <2>1, HearMissed, Zenon
<1>5. /\ restarted \subseteq restarted'
      /\ x = 0 => \A r \in Node : s \in Senders(neighbor_list[r]) =>
                   <<r, s>> \in restarted'
  BY DEF Transmit, Knowing
<1>6. ASSUME NEW r \in Node, WithinArray(r)',
             NEW i \in DOMAIN neighbor_list'[r],
             NEW e, e = neighbor_list'[r][i], NumbersOn(r, e.sender)'
      PROVE  /\ e.lost_packets
                  + (Next0(NextFrame(e.sender)') - e.last_packet_id - 1)
                  = missed'[r][e.sender]
             /\ NextFrame(e.sender)' # 0 =>
                  e.last_packet_id < NextFrame(e.sender)'
  <2> DEFINE old == neighbor_list[r]
             new == neighbor_list'[r]
  <2>0. /\ WithinArray(r) /\ (r \in R => Heard(new, old, s, x))
        /\ e.sender \notin Foreign /\ pc'[e.sender] # "wild"
        /\ <<r, e.sender>> \notin restarted'
        /\ e.sender \in Node => NumbersOn(r, e.sender)
    BY <1>3, <1>5, <1>6 DEF NumbersOn
  <2>1. ASSUME NEW j \in DOMAIN old, old[j].sender = e.sender
        PROVE  /\ old[j] \in Entry
               /\ old[j].sender \in Node
               /\ old[j].last_packet_id \in Uint8
               /\ old[j].lost_packets \in Uint8
               /\ old[j].lost_packets <= old[j].last_packet_id
               /\ old[j].lost_packets
                    + (Next0(NextFrame(old[j].sender)) - old[j].last_packet_id - 1)
                    = missed[r][old[j].sender]
               /\ NextFrame(old[j].sender) # 0 =>
                    old[j].last_packet_id < NextFrame(old[j].sender)
    <3>1. old[j] \in Entry
      BY <1>1 DEF TypeOK
    <3>2. /\ old[j].sender \in Node
          /\ old[j].last_packet_id \in Uint8
          /\ old[j].lost_packets \in Uint8
      BY <3>1 DEF Entry
    <3>3. old[j].lost_packets <= old[j].last_packet_id
      BY <1>1, <2>0 DEF EntryInv
    <3>4. /\ old[j].lost_packets
               + (Next0(NextFrame(old[j].sender)) - old[j].last_packet_id - 1)
               = missed[r][old[j].sender]
          /\ NextFrame(old[j].sender) # 0 =>
               old[j].last_packet_id < NextFrame(old[j].sender)
      BY <1>1, <2>0, <2>1, <3>2 DEF ExactInv, LossExact
    <3> QED  BY <3>1, <3>2, <3>3, <3>4
  <2>2. CASE i \in DOMAIN old /\ e = old[i] /\ e.sender # s
    <3>1. e.sender \in Node
      BY <2>1, <2>2
    <3>2. NextFrame(e.sender)' = NextFrame(e.sender)
          /\ missed'[r][e.sender] = missed[r][e.sender]
      BY <1>2, <1>4, <2>0, <2>2, <3>1
    <3> QED  BY <2>1, <2>2, <3>2
  <2>3. CASE r \notin R /\ i \in DOMAIN old /\ e = old[i] /\ e.sender = s
    <3>1. s \in Senders(old)
      BY <2>3 DEF Senders
    <3>2. missed'[r][s] = Saturate(missed[r][s] + 1)
      BY <1>4, <2>3, <3>1
    <3>3. x # 0 /\ pc'[s] # "wild"
      BY <1>5, <2>0, <2>3, <3>1
    <3>4. /\ e.last_packet_id \in Uint8 /\ e.lost_packets \in Uint8
          /\ e.lost_packets <= e.last_packet_id
          /\ e.lost_packets + (x - e.last_packet_id - 1) = missed[r][s]
          /\ e.last_packet_id < x
      BY <1>2, <2>1, <2>3, <3>3
    <3>5. missed'[r][s] = e.lost_packets + ((x + 1) - e.last_packet_id - 1)
      BY <1>1, <1>2, <3>2, <3>4, SMT DEF Saturate, Uint8
    <3>6. NextFrame(s)' # 0 => e.last_packet_id < NextFrame(s)'
      BY <1>2, <3>3, <3>4 DEF Uint8
    <3> QED  BY <1>2, <2>3, <3>3, <3>5, <3>6
  <2>4. ASSUME r \in R, NEW j \in DOMAIN old, Counted(new, old, s, x, i, j)
        PROVE  /\ e.lost_packets
                    + (Next0(NextFrame(e.sender)') - e.last_packet_id - 1)
                    = missed'[r][e.sender]
               /\ NextFrame(e.sender)' # 0 =>
                    e.last_packet_id < NextFrame(e.sender)'
    <3>1. /\ e.sender = s /\ e.lost_packets = CountLost(old[j], x)
          /\ e.last_packet_id = x /\ old[j].sender = s
          /\ old[j].last_packet_id < x
      BY <1>6, <2>4 DEF Counted, init_neighbor
    <3>2. pc'[s] # "wild"
      BY <2>0, <3>1
    <3>3. /\ old[j] \in Entry
          /\ old[j].last_packet_id \in Uint8 /\ old[j].lost_packets \in Uint8
          /\ old[j].lost_packets <= old[j].last_packet_id
          /\ x # 0 => old[j].lost_packets + (x - old[j].last_packet_id - 1)
                       = missed[r][s]
      BY <1>2, <2>1, <3>1
    <3>4. CountLost(old[j], x)
            = old[j].lost_packets + (x - old[j].last_packet_id - 1)
      BY <1>2, <3>1, <3>3, LostDoesNotWrap
    <3>5. missed'[r][s] = missed[r][s] /\ missed[r][s] \in 0 .. IdSpace
      BY <1>4, <2>4
    <3>6. x # 0
      BY <1>2, <3>1, <3>3 DEF Uint8
    <3>7. e.lost_packets = missed'[r][s] /\ e.last_packet_id = x
      BY <3>1, <3>3, <3>4, <3>5, <3>6
    <3> QED  BY <1>1, <1>2, <3>1, <3>2, <3>5, <3>7, SMT DEF Uint8
  <2>5. CASE r \in R /\ Restarted(new, old, s, x, i)
    <3>1. e.sender = s /\ e.lost_packets = 0 /\ e.last_packet_id = x
      BY <1>6, <2>5 DEF Restarted, init_neighbor
    <3>2. pc'[s] # "wild" /\ <<r, s>> \notin restarted'
      BY <2>0, <3>1
    <3>3. s \notin Senders(old)
      <4>1. SUFFICES ASSUME NEW j \in DOMAIN old, old[j].sender = s PROVE FALSE
        BY DEF Senders
      <4>2. x # 0
        BY <1>5, <3>2, <4>1 DEF Senders
      <4>3. old[j].last_packet_id < x
        BY <1>2, <2>1, <3>1, <4>1, <4>2
      <4> QED  BY <2>5, <4>1, <4>3 DEF Restarted
    <3>4. missed'[r][s] = 0
      BY <1>1, <1>4, <2>5, <3>3 DEF CountInv
    <3> QED  BY <1>1, <1>2, <3>1, <3>2, <3>4, SMT DEF Uint8
  <2> QED  BY <1>3, <1>6, <2>0, <2>2, <2>3, <2>4, <2>5 DEF Heard, Kept
<1> QED  BY <1>6 DEF ExactInv, LossExact

(* The fields of an entry of a node's table.                               *)
LEMMA EntryType ==
  ASSUME TypeOK, NEW r \in Node, NEW i \in DOMAIN neighbor_list[r]
  PROVE  /\ neighbor_list[r][i] \in Entry
         /\ neighbor_list[r][i].sender \in Node
         /\ neighbor_list[r][i].lost_packets \in Uint8
         /\ neighbor_list[r][i].last_packet_id \in Uint8
<1>1. neighbor_list[r] \in Seq(Entry)
  BY DEF TypeOK
<1>2. neighbor_list[r][i] \in Entry
  BY <1>1
<1> QED  BY <1>2 DEF Entry

(* An untagged frame is taken for packet 0: it starts an entry or restarts *)
(* the statistics of one.                                                  *)
LEMMA ForeignCounts ==
  ASSUME IInv, NEW f \in Node, NEW R \in SUBSET Node,
         ForeignBroadcast(f, R)
  PROVE  CountInv' /\ ExactInv'
<1>1. TypeOK /\ NumberingInv /\ EntryInv /\ CountInv /\ ExactInv
      /\ IdSpace \in Nat /\ IdSpace >= 2
  BY TableAssumption DEF IInv
<1>2. f \in Foreign /\ Hear(f, R, 0) /\ 0 \in Uint8 /\ outbox' = outbox
      /\ current_message_id' = current_message_id
  BY Arithmetic DEF ForeignBroadcast, Hear
<1>3. /\ \A t \in Node : pc'[t] \in {pc[t], "wild"}
      /\ \A r \in Node \ R : neighbor_list'[r] = neighbor_list[r]
      /\ \A r \in Node :
           /\ Senders(neighbor_list[r]) \subseteq Senders(neighbor_list'[r])
           /\ WithinArray(r)' =>
                /\ WithinArray(r)
                /\ r \in R => Heard(neighbor_list'[r], neighbor_list[r], f, 0)
  BY <1>2, HearTables
<1>4. \A r, t \in Node :
        /\ missed[r][t] \in 0 .. IdSpace
        /\ missed'[r][t] =
             IF t = f /\ r \notin R /\ f \in Senders(neighbor_list[r])
               THEN Saturate(missed[r][f] + 1) ELSE missed[r][t]
  BY <1>1, <1>2, HearMissed, Zenon
<1>5. restarted' = restarted \cup Knowing(f)
  BY DEF ForeignBroadcast
<1>6. \A t \in Node : /\ NextFrame(t)' \in {NextFrame(t), 1}
                      /\ pc'[t] # "wild" => NextFrame(t)' = NextFrame(t)
  BY <1>2, <1>3 DEF NextFrame
<1>7. NextFrame(f) = 1
  BY <1>1, <1>2 DEF NumberingInv, NextFrame
<1>8. ASSUME NEW r \in Node, WithinArray(r)',
             NEW i \in DOMAIN neighbor_list'[r], NEW e, e = neighbor_list'[r][i]
      PROVE  \/ /\ i \in DOMAIN neighbor_list[r] /\ e = neighbor_list[r][i]
                /\ e \in Entry
                /\ e.sender # f => missed'[r][e.sender] = missed[r][e.sender]
                /\ missed[r][e.sender] <= missed'[r][e.sender]
                /\ missed'[r][e.sender] \in 0 .. IdSpace
             \/ /\ e.sender = f /\ e.lost_packets = 0 /\ e.last_packet_id = 0
                /\ missed'[r][f] \in 0 .. IdSpace
  <2> DEFINE old == neighbor_list[r]
             new == neighbor_list'[r]
  <2>1. CASE i \in DOMAIN old /\ e = old[i]
    <3>1. e \in Entry /\ e.sender \in Node
      BY <1>1, <2>1, EntryType
    <3>2. /\ e.sender # f => missed'[r][e.sender] = missed[r][e.sender]
          /\ missed'[r][e.sender] \in
               {missed[r][e.sender], Saturate(missed[r][e.sender] + 1)}
          /\ missed[r][e.sender] \in 0 .. IdSpace
      BY <1>4, <3>1
    <3> QED  BY <1>1, <2>1, <3>1, <3>2 DEF Saturate
  <2>2. CASE r \in R /\ Restarted(new, old, f, 0, i)
    <3>1. e.sender = f /\ e.lost_packets = 0 /\ e.last_packet_id = 0
      BY <1>8, <2>2 DEF Restarted, init_neighbor
    <3>2. missed'[r][f] \in 0 .. IdSpace
      BY <1>4, <2>2
    <3> QED  BY <3>1, <3>2
  <2>3. ASSUME NEW j \in DOMAIN old, Counted(new, old, f, 0, i, j) PROVE FALSE
    <3>1. old[j] \in Entry
      BY <1>1 DEF TypeOK
    <3> QED  BY <2>3, <3>1 DEF Counted, Entry, Uint8
  <2> QED  BY <1>3, <1>8, <2>1, <2>2, <2>3 DEF Heard, Kept
<1>9. ASSUME NEW r \in Node, WithinArray(r)',
             NEW i \in DOMAIN neighbor_list'[r], NEW e, e = neighbor_list'[r][i]
      PROVE  /\ e.lost_packets <= missed'[r][e.sender]
             /\ e.lost_packets + (NextFrame(e.sender)' - e.last_packet_id - 1)
                  <= missed'[r][e.sender]
  <2>1. CASE i \in DOMAIN neighbor_list[r] /\ e = neighbor_list[r][i]
    <3>1. /\ e \in Entry /\ e.sender \in Node
          /\ missed[r][e.sender] \in 0 .. IdSpace
          /\ missed'[r][e.sender] \in
               {missed[r][e.sender], Saturate(missed[r][e.sender] + 1)}
      BY <1>1, <1>4, <2>1, EntryType
    <3>2. /\ e.lost_packets \in Uint8 /\ e.last_packet_id \in Uint8
          /\ NextFrame(e.sender) \in Uint8
      BY <1>1, <3>1, Arithmetic DEF Entry, NextFrame, TypeOK
    <3>3. /\ e.lost_packets <= missed[r][e.sender]
          /\ e.lost_packets + (NextFrame(e.sender) - e.last_packet_id - 1)
               <= missed[r][e.sender]
          /\ e.lost_packets <= e.last_packet_id
      BY <1>1, <1>3, <1>9, <2>1 DEF CountInv, LossSound, EntryInv
    <3>4. missed[r][e.sender] <= missed'[r][e.sender]
          /\ missed'[r][e.sender] \in 0 .. IdSpace
      BY <1>1, <3>1 DEF Saturate
    <3>5. NextFrame(e.sender)' \in {NextFrame(e.sender), 1}
      BY <1>6, <3>1
    <3> QED  BY <3>1, <3>2, <3>3, <3>4, <3>5, SMT DEF Uint8
  <2>2. CASE /\ e.sender = f /\ e.lost_packets = 0 /\ e.last_packet_id = 0
             /\ missed'[r][f] \in 0 .. IdSpace
    BY <1>6, <1>7, <2>2
  <2> QED  BY <1>8, <1>9, <2>1, <2>2
<1>10. ASSUME NEW r \in Node, NEW t \in Node, t \notin Senders(neighbor_list'[r])
       PROVE  missed'[r][t] = 0 /\ <<r, t>> \notin restarted'
  <2>1. t \notin Senders(neighbor_list[r])
    BY <1>3, <1>10
  <2>2. missed[r][t] = 0 /\ <<r, t>> \notin restarted
    BY <1>1, <2>1 DEF CountInv
  <2>3. <<r, t>> \notin restarted'
    BY <1>5, <2>1, <2>2 DEF Knowing
  <2> QED  BY <1>4, <2>1, <2>2, <2>3
<1>11. CountInv'
  BY <1>9, <1>10 DEF CountInv, LossSound
<1>12. ExactInv'
  <2> SUFFICES ASSUME NEW r \in Node, WithinArray(r)',
                      NEW i \in DOMAIN neighbor_list'[r],
                      NEW e, e = neighbor_list'[r][i], NumbersOn(r, e.sender)'
               PROVE  /\ e.lost_packets
                           + ((IF NextFrame(e.sender)' = 0 THEN IdSpace
                               ELSE NextFrame(e.sender)') - e.last_packet_id - 1)
                           = missed'[r][e.sender]
                      /\ NextFrame(e.sender)' # 0 =>
                           e.last_packet_id < NextFrame(e.sender)'
    BY DEF ExactInv, LossExact
  <2>1. /\ i \in DOMAIN neighbor_list[r] /\ e = neighbor_list[r][i]
        /\ missed'[r][e.sender] = missed[r][e.sender]
        /\ e.sender \in Node
    BY <1>1, <1>2, <1>8, EntryType DEF NumbersOn
  <2>2. NumbersOn(r, e.sender) /\ WithinArray(r)
    BY <1>3, <1>5, <2>1 DEF NumbersOn
  <2>3. NextFrame(e.sender)' = NextFrame(e.sender)
    BY <1>6, <2>1 DEF NumbersOn
  <2> QED  BY <1>1, <2>1, <2>2, <2>3 DEF ExactInv, LossExact
<1> QED  BY <1>11, <1>12

(* Steps that leave the tables alone, and steps that clear one of them.    *)
LEMMA TablesUntouched ==
  ASSUME IInv, UNCHANGED <<neighbor_list, missed, restarted>>,
         \A t \in Node : /\ NextFrame(t)' = NextFrame(t)
                         /\ pc[t] = "wild" => pc'[t] = "wild"
  PROVE  TableInv' /\ EntryInv' /\ CountInv' /\ ExactInv'
<1>1. TypeOK /\ TableInv /\ EntryInv /\ CountInv /\ ExactInv
  BY DEF IInv
<1>2. \A r \in Node : \A i \in DOMAIN neighbor_list[r] :
        /\ NextFrame(neighbor_list[r][i].sender)'
             = NextFrame(neighbor_list[r][i].sender)
        /\ NumbersOn(r, neighbor_list[r][i].sender)'
             => NumbersOn(r, neighbor_list[r][i].sender)
  <2> TAKE r \in Node
  <2> TAKE i \in DOMAIN neighbor_list[r]
  <2>1. PICK t \in Node : t = neighbor_list[r][i].sender
    BY <1>1, EntryType
  <2>2. t = neighbor_list'[r][i].sender
    BY <2>1
  <2> QED  BY <2>1, <2>2 DEF NextFrame, NumbersOn
<1>3. TableInv'
  BY <1>1 DEF TableInv, OneEntryPerSender
<1>4. EntryInv'
  BY <1>1 DEF EntryInv, WithinArray
<1>5. CountInv'
  BY <1>1, <1>2 DEF CountInv, LossSound, WithinArray
<1>6. ExactInv'
  BY <1>1, <1>2 DEF ExactInv, LossExact, WithinArray
<1> QED  BY <1>3, <1>4, <1>5, <1>6

(* Clearing a table together with its histories keeps the invariants of    *)
(* the entries: clean_list and a restart do so.                            *)
LEMMA TableCleared ==
  ASSUME IInv, NEW n \in Node,
         neighbor_list' = [neighbor_list EXCEPT ![n] = <<>>],
         missed' = [missed EXCEPT ![n] = [s \in Node |-> 0]],
         restarted \ ({n} \X Node) \subseteq restarted',
         \A r, s \in Node : <<r, s>> \in restarted' =>
           r # n /\ (<<r, s>> \in restarted \/ s \in Senders(neighbor_list[r])),
         \A t \in Node :
           \/ /\ NextFrame(t)' = NextFrame(t)
              /\ pc[t] = "wild" => pc'[t] = "wild"
           \/ /\ NextFrame(t)' = 1
              /\ \A r \in Node \ {n} : t \in Senders(neighbor_list[r]) =>
                   <<r, t>> \in restarted'
  PROVE  TableInv' /\ EntryInv' /\ CountInv' /\ ExactInv'
<1>1. TypeOK /\ TableInv /\ EntryInv /\ CountInv /\ ExactInv
  BY DEF IInv
<1>2. /\ neighbor_list'[n] = <<>>
      /\ \A r \in Node \ {n} : /\ neighbor_list'[r] = neighbor_list[r]
                               /\ missed'[r] = missed[r]
      /\ \A s \in Node : missed'[n][s] = 0
  BY <1>1 DEF TypeOK
<1>3. DOMAIN <<>> = {} /\ Senders(<<>>) = {}
  BY DEF Senders
<1>4. TableInv'
  BY <1>1, <1>2, <1>3 DEF TableInv, OneEntryPerSender
<1>5. EntryInv'
  BY <1>1, <1>2, <1>3 DEF EntryInv, WithinArray
<1>6. ASSUME NEW r \in Node, WithinArray(r)',
             NEW i \in DOMAIN neighbor_list'[r], NEW e, e = neighbor_list'[r][i]
      PROVE  /\ r # n /\ i \in DOMAIN neighbor_list[r] /\ WithinArray(r)
             /\ e = neighbor_list[r][i]
             /\ e.sender \in Node /\ e.sender \in Senders(neighbor_list[r])
             /\ e.lost_packets \in Uint8 /\ e.last_packet_id \in Uint8
             /\ missed'[r][e.sender] = missed[r][e.sender]
             /\ missed[r][e.sender] \in 0 .. IdSpace
             /\ \/ /\ NextFrame(e.sender)' = NextFrame(e.sender)
                   /\ pc[e.sender] = "wild" => pc'[e.sender] = "wild"
                \/ NextFrame(e.sender)' = 1 /\ <<r, e.sender>> \in restarted'
             /\ <<r, e.sender>> \in restarted => <<r, e.sender>> \in restarted'
  <2>1. /\ r # n /\ i \in DOMAIN neighbor_list[r] /\ e = neighbor_list[r][i]
        /\ WithinArray(r)
    BY <1>2, <1>3, <1>6 DEF WithinArray
  <2>2. e.sender \in Node /\ e.lost_packets \in Uint8
        /\ e.last_packet_id \in Uint8
    BY <1>1, <2>1, EntryType
  <2>3. e.sender \in Senders(neighbor_list[r])
    BY <2>1 DEF Senders
  <2>4. missed'[r][e.sender] = missed[r][e.sender]
        /\ missed[r][e.sender] \in 0 .. IdSpace
    BY <1>1, <1>2, <2>1, <2>2 DEF TypeOK
  <2>5. <<r, e.sender>> \in restarted => <<r, e.sender>> \in restarted'
    BY <2>1, <2>2
  <2> QED  BY <2>1, <2>2, <2>3, <2>4, <2>5
<1>7. ASSUME NEW r \in Node, WithinArray(r)',
             NEW i \in DOMAIN neighbor_list'[r], NEW e, e = neighbor_list'[r][i]
      PROVE  /\ e.lost_packets <= missed'[r][e.sender]
             /\ e.lost_packets + (NextFrame(e.sender)' - e.last_packet_id - 1)
                  <= missed'[r][e.sender]
  <2>1. /\ e.lost_packets <= missed[r][e.sender]
        /\ e.lost_packets + (NextFrame(e.sender) - e.last_packet_id - 1)
             <= missed[r][e.sender]
    <3>1. WithinArray(r) /\ i \in DOMAIN neighbor_list[r]
          /\ e = neighbor_list[r][i]
      BY <1>2, <1>3, <1>7 DEF WithinArray
    <3> QED  BY <1>1, <3>1 DEF CountInv, LossSound
  <2>2. /\ e.lost_packets \in Uint8 /\ e.last_packet_id \in Uint8
        /\ e.sender \in Node
        /\ missed'[r][e.sender] = missed[r][e.sender]
        /\ missed[r][e.sender] \in 0 .. IdSpace
    <3>1. /\ r # n /\ i \in DOMAIN neighbor_list[r]
          /\ e = neighbor_list[r][i]
      BY <1>2, <1>3, <1>7
    <3>2. /\ e.lost_packets \in Uint8 /\ e.last_packet_id \in Uint8
          /\ e.sender \in Node
      BY <1>1, <3>1, EntryType
    <3> QED  BY <1>1, <1>2, <3>1, <3>2 DEF TypeOK
  <2>3. CASE NextFrame(e.sender)' = NextFrame(e.sender)
    BY <2>1, <2>2, <2>3
  <2>4. CASE NextFrame(e.sender)' = 1
    BY <2>1, <2>2, <2>4, TableAssumption, SMT DEF Uint8
  <2> QED  BY <2>2, <2>3, <2>4
<1>8. ASSUME NEW r \in Node, NEW t \in Node, t \notin Senders(neighbor_list'[r])
      PROVE  missed'[r][t] = 0 /\ <<r, t>> \notin restarted'
  <2>1. CASE r = n
    BY <1>2, <2>1
  <2>2. CASE r # n
    BY <1>1, <1>2, <1>8, <2>2 DEF CountInv
  <2> QED  BY <2>1, <2>2
<1>9. CountInv'
  BY <1>7, <1>8 DEF CountInv, LossSound
<1>10. ExactInv'
  <2> SUFFICES ASSUME NEW r \in Node, WithinArray(r)',
                      NEW i \in DOMAIN neighbor_list'[r],
                      NEW e, e = neighbor_list'[r][i], NumbersOn(r, e.sender)'
               PROVE  /\ e.lost_packets
                           + ((IF NextFrame(e.sender)' = 0 THEN IdSpace
                               ELSE NextFrame(e.sender)') - e.last_packet_id - 1)
                           = missed'[r][e.sender]
                      /\ NextFrame(e.sender)' # 0 =>
                           e.last_packet_id < NextFrame(e.sender)'
    BY DEF ExactInv, LossExact
  <2>1. /\ i \in DOMAIN neighbor_list[r] /\ e = neighbor_list[r][i]
        /\ missed'[r][e.sender] = missed[r][e.sender]
        /\ NextFrame(e.sender)' = NextFrame(e.sender)
        /\ NumbersOn(r, e.sender) /\ WithinArray(r)
    BY <1>6 DEF NumbersOn
  <2> QED  BY <1>1, <2>1 DEF ExactInv, LossExact
<1> QED  BY <1>4, <1>5, <1>9, <1>10

(* The inductive invariant holds at the start.                             *)
LEMMA InitInvariant == Init => IInv
<1> SUFFICES ASSUME Init PROVE IInv
  OBVIOUS
<1>1. TypeOK
  BY InitType
<1>2. \A r \in Node : neighbor_list[r] = <<>>
  BY DEF Init
<1>3. DOMAIN <<>> = {} /\ Senders(<<>>) = {}
  BY DEF Senders
<1>4. NumberingInv
  BY NetworkAssumption DEF Init, NumberingInv
<1>5. TableInv
  BY <1>2, <1>3, NetworkAssumption DEF TableInv, OneEntryPerSender
<1>6. EntryInv /\ ExactInv
  BY <1>2, <1>3 DEF EntryInv, ExactInv, LossExact
<1>7. CountInv
  BY <1>2, <1>3 DEF CountInv, LossSound, Init
<1>8. ReportInv
  BY DEF ReportInv, ReportRatio, Init
<1> QED  BY <1>1, <1>4, <1>5, <1>6, <1>7, <1>8 DEF IInv

(* A node's next frame is the same before and after it takes its number    *)
(* and before and after it is handed to the MAC layer.                     *)
LEMMA SettleFrames ==
  ASSUME IInv, NEW n \in Node, Settle(n)
  PROVE  \A t \in Node : NextFrame(t)' = NextFrame(t)
<1>1. TypeOK /\ NumberingInv
  BY DEF IInv
<1>2. /\ outbox[n] = NoFrame /\ outbox' = outbox /\ pc[n] = "settle"
      /\ pc'[n] = "pace" /\ current_message_id'[n] = (0 + 1) % IdSpace
      /\ \A t \in Node \ {n} : /\ pc'[t] = pc[t]
                               /\ current_message_id'[t] = current_message_id[t]
  BY <1>1 DEF Settle, NumberingInv, TypeOK
<1>3. (0 + 1) % IdSpace = 1
  BY TableAssumption, Arithmetic DEF Uint8
<1> QED  BY <1>2, <1>3 DEF NextFrame

(* The end of the sink's process changes no next frame.                    *)
LEMMA SinkFrames ==
  ASSUME IInv, SinkSettles
  PROVE  \A t \in Node : NextFrame(t)' = NextFrame(t)
  BY NetworkAssumption DEF IInv, SinkSettles, NextFrame, code, TypeOK

(* Handing a broadcast to the MAC layer does not change the id of the next *)
(* frame on the air: it moves from current_message_id to the outbox.       *)
LEMMA BroadcastFrames ==
  ASSUME IInv, NEW n \in Node, Broadcast(n),
         \A t \in Node \ {n} : pc'[t] = pc[t]
  PROVE  \A t \in Node : NextFrame(t)' = NextFrame(t)
<1>1. /\ pc[n] = "pace" /\ outbox[n] = NoFrame
      /\ outbox'[n] = current_message_id[n]
      /\ current_message_id[n] # NoFrame
      /\ \A t \in Node \ {n} : /\ outbox'[t] = outbox[t]
                               /\ current_message_id'[t] = current_message_id[t]
  BY DEF IInv, Broadcast, TypeOK, NoFrame, Uint8
<1> QED  BY <1>1 DEF NextFrame

(* Losing reports keeps what is known of the others.                       *)
LEMMA ReportKept ==
  ASSUME IInv, reports' \subseteq reports
  PROVE  ReportInv'
  BY DEF IInv, ReportInv, ReportRatio

(* A report made from a table within its array has what ReportInv asks.    *)
LEMMA ReportMade ==
  ASSUME IInv, NEW n \in Node, n # Sink, WithinArray(n),
         reports' = reports \cup {ReportOf(n)}
  PROVE  ReportInv'
<1>1. TypeOK /\ TableInv /\ EntryInv /\ ReportInv
  BY DEF IInv
<1> DEFINE new == ReportOf(n)
<1>2. /\ new.originator = n
      /\ DOMAIN new.lines = DOMAIN neighbor_list[n]
      /\ \A i \in DOMAIN neighbor_list[n] :
           /\ new.lines[i].from = neighbor_list[n][i].sender
           /\ new.lines[i].to = n
           /\ new.lines[i].total_packets = neighbor_list[n][i].total_packets
           /\ new.lines[i].lost_packets = neighbor_list[n][i].lost_packets
  BY DEF ReportOf
<1>3. ASSUME NEW i \in DOMAIN new.lines
      PROVE  /\ new.lines[i].lost_packets <= new.lines[i].total_packets
             /\ new.lines[i].to = n
             /\ <<new.lines[i].from, n>> \in Links
  <2> HIDE DEF new
  <2>1. i \in DOMAIN neighbor_list[n]
    BY <1>2
  <2>2. neighbor_list[n][i].sender \in InRange(n)
    BY <1>1, <2>1 DEF TableInv, Senders
  <2>3. neighbor_list[n][i].lost_packets <= neighbor_list[n][i].total_packets
    BY <1>1, <2>1 DEF EntryInv
  <2> QED  BY <1>2, <2>1, <2>2, <2>3 DEF InRange
<1> HIDE DEF new
<1>4. ReportRatio'
  BY <1>1, <1>3 DEF ReportInv, ReportRatio, new
<1> QED  BY <1>1, <1>2, <1>3, <1>4 DEF ReportInv, new

(* Every step keeps the inductive invariant.                               *)
LEMMA NextInvariant == IInv /\ [Next]_vars => IInv'
<1> SUFFICES ASSUME IInv, [Next]_vars PROVE IInv'
  OBVIOUS
<1>0. TypeOK /\ TypeOK' /\ NumberingInv /\ TableInv
  BY NextType DEF IInv
<1>1. CASE SinkSettles
  <2>1. NumberingInv'
    BY <1>0, <1>1, NetworkAssumption
       DEF SinkSettles, NumberingInv, code, TypeOK
  <2>2. TableInv' /\ EntryInv' /\ CountInv' /\ ExactInv'
    <3>1. \A t \in Node : /\ NextFrame(t)' = NextFrame(t)
                          /\ pc[t] = "wild" => pc'[t] = "wild"
      BY <1>0, <1>1, SinkFrames DEF SinkSettles, TypeOK
    <3>2. UNCHANGED <<neighbor_list, missed, restarted>>
      BY <1>1 DEF SinkSettles, code
    <3> QED  BY <3>1, <3>2, TablesUntouched
  <2>3. ReportInv'
    BY <1>1, ReportKept DEF SinkSettles
  <2> QED  BY <1>0, <2>1, <2>2, <2>3 DEF IInv
<1>2. ASSUME NEW n \in Node, Settle(n) PROVE IInv'
  <2>1. NumberingInv'
    <3>1. n \notin Foreign
      BY <1>0, <1>2 DEF Settle, NumberingInv
    <3> QED  BY <1>0, <1>2, <3>1 DEF Settle, NumberingInv, TypeOK
  <2>2. TableInv' /\ EntryInv' /\ CountInv' /\ ExactInv'
    <3>1. \A t \in Node : /\ NextFrame(t)' = NextFrame(t)
                          /\ pc[t] = "wild" => pc'[t] = "wild"
      BY <1>0, <1>2, SettleFrames DEF Settle, TypeOK
    <3>2. UNCHANGED <<neighbor_list, missed, restarted>>
      BY <1>2 DEF Settle
    <3> QED  BY <3>1, <3>2, TablesUntouched
  <2>3. ReportInv'
    BY <1>2, ReportKept DEF Settle
  <2> QED  BY <1>0, <2>1, <2>2, <2>3 DEF IInv
<1>3. ASSUME NEW n \in Node, Broadcast(n),
             pc' \in {pc, [pc EXCEPT ![n] = "wild"]}
      PROVE  /\ NumberingInv'
             /\ \A t \in Node : /\ NextFrame(t)' = NextFrame(t)
                                /\ pc[t] = "wild" => pc'[t] = "wild"
  <2>1. /\ \A t \in Node \ {n} : pc'[t] = pc[t]
        /\ pc'[n] \in {"pace", "wild"} /\ pc[n] = "pace"
    BY <1>0, <1>3 DEF Broadcast, TypeOK
  <2>2. NumberingInv'
    BY <1>0, <1>3, <2>1 DEF Broadcast, NumberingInv, TypeOK
  <2> QED  BY <1>3, <2>1, <2>2, BroadcastFrames
<1>4. ASSUME NEW n \in Node, BroadcastOnly(n) PROVE IInv'
  <2>1. Broadcast(n) /\ pc' = pc
    BY <1>4 DEF BroadcastOnly
  <2>2. TableInv' /\ EntryInv' /\ CountInv' /\ ExactInv'
    <3>1. \A t \in Node : /\ NextFrame(t)' = NextFrame(t)
                          /\ pc[t] = "wild" => pc'[t] = "wild"
      BY <1>3, <2>1
    <3>2. UNCHANGED <<neighbor_list, missed, restarted>>
      BY <1>4 DEF BroadcastOnly
    <3> QED  BY <3>1, <3>2, TablesUntouched
  <2>3. ReportInv'
    BY <1>4, ReportKept DEF BroadcastOnly
  <2> QED  BY <1>0, <1>3, <2>1, <2>2, <2>3 DEF IInv
<1>5. ASSUME NEW n \in Node, BroadcastAndReport(n) PROVE IInv'
  <2>1. /\ Broadcast(n) /\ clean_list(n)
        /\ pc' \in {pc, [pc EXCEPT ![n] = "wild"]}
    BY <1>5 DEF BroadcastAndReport
  <2>2. TableInv' /\ EntryInv' /\ CountInv' /\ ExactInv'
    <3>1. \A t \in Node : /\ NextFrame(t)' = NextFrame(t)
                          /\ pc[t] = "wild" => pc'[t] = "wild"
      BY <1>3, <2>1
    <3>2. /\ neighbor_list' = [neighbor_list EXCEPT ![n] = <<>>]
          /\ missed' = [missed EXCEPT ![n] = [s \in Node |-> 0]]
          /\ restarted' = restarted \ ({n} \X Node)
      BY <2>1 DEF clean_list
    <3> QED  BY <3>1, <3>2, TableCleared
  <2>3. ReportInv'
    <3>1. CASE Len(neighbor_list[n]) <= ReportRoom
      <4>1. WithinArray(n)
        <5>1. neighbor_list[n] \in Seq(Entry)
          BY <1>0 DEF TypeOK
        <5>2. Len(neighbor_list[n]) \in Nat
          BY <5>1
        <5> QED  BY <3>1, <5>2, NetworkAssumption, TableAssumption DEF WithinArray
      <4>2. n # Sink
        BY <1>0, <2>1 DEF Broadcast, NumberingInv
      <4>3. \/ reports' = reports \cup {ReportOf(n)}
            \/ reports' = reports
        BY <1>5 DEF BroadcastAndReport
      <4> QED  BY <4>1, <4>2, <4>3, ReportMade, ReportKept
    <3>2. CASE ~(Len(neighbor_list[n]) <= ReportRoom)
      BY <1>5, <3>2, ReportKept DEF BroadcastAndReport
    <3> QED  BY <3>1, <3>2
  <2> QED  BY <1>0, <1>3, <2>1, <2>2, <2>3 DEF IInv
<1>6. ASSUME NEW s \in Node, NEW R \in SUBSET Node, NEW id \in Uint8,
             Hear(s, R, id), outbox' = [outbox EXCEPT ![s] = NoFrame]
      PROVE  NumberingInv' /\ ReportInv'
  <2>1. /\ \A t \in Node : /\ pc'[t] \in {pc[t], "wild"}
                           /\ t \in Foreign => pc'[t] = pc[t]
        /\ current_message_id' = current_message_id
        /\ reports' = reports
    <3>1. \A t \in Node : /\ pc'[t] \in {pc[t], "wild"}
                          /\ t \in Foreign => pc'[t] = pc[t]
      BY <1>6, HearTables
    <3> QED  BY <1>6, <3>1 DEF Hear
  <2>2. NumberingInv'
    BY <1>0, <1>6, <2>1 DEF NumberingInv, TypeOK
  <2> QED  BY <2>1, <2>2, ReportKept
<1>7. ASSUME NEW s \in Node, NEW R \in SUBSET Node, Transmit(s, R) PROVE IInv'
  <2>1. outbox[s] \in Uint8 /\ Hear(s, R, outbox[s])
        /\ outbox' = [outbox EXCEPT ![s] = NoFrame]
    BY <1>7, TransmitNumbers DEF Transmit
  <2>2. NumberingInv' /\ ReportInv'
    BY <1>6, <2>1
  <2> QED
    BY <1>0, <1>7, <2>1, <2>2, HearKeepsTables, TransmitCounts, TransmitExact
       DEF IInv
<1>8. ASSUME NEW f \in Node, NEW R \in SUBSET Node, ForeignBroadcast(f, R)
      PROVE  IInv'
  <2>1. Hear(f, R, 0) /\ 0 \in Uint8 /\ outbox' = outbox
    BY <1>8, Arithmetic DEF ForeignBroadcast
  <2>2. outbox' = [outbox EXCEPT ![f] = NoFrame]
    <3>1. outbox[f] = NoFrame
      BY <1>0, <1>8 DEF ForeignBroadcast, NumberingInv
    <3> QED  BY <1>0, <2>1, <3>1 DEF TypeOK
  <2>3. NumberingInv' /\ ReportInv'
    BY <1>6, <2>1, <2>2
  <2> QED  BY <1>0, <1>8, <2>1, <2>3, HearKeepsTables, ForeignCounts DEF IInv
<1>9. ASSUME NEW n \in Node, Reboot(n) PROVE IInv'
  <2>1. NumberingInv'
    BY <1>0, <1>9 DEF Reboot, NumberingInv, TypeOK
  <2>2. TableInv' /\ EntryInv' /\ CountInv' /\ ExactInv'
    <3>1. /\ neighbor_list' = [neighbor_list EXCEPT ![n] = <<>>]
          /\ missed' = [missed EXCEPT ![n] = [s \in Node |-> 0]]
          /\ restarted' = (restarted \cup Knowing(n)) \ ({n} \X Node)
      BY <1>9 DEF Reboot
    <3>2. \A r, s \in Node : <<r, s>> \in restarted' =>
            r # n /\ (<<r, s>> \in restarted \/ s \in Senders(neighbor_list[r]))
      BY <3>1 DEF Knowing
    <3>3. \A r \in Node \ {n} : n \in Senders(neighbor_list[r]) =>
            <<r, n>> \in restarted'
      BY <3>1 DEF Knowing
    <3>4. \A t \in Node \ {n} : NextFrame(t)' = NextFrame(t) /\ pc'[t] = pc[t]
      BY <1>0, <1>9 DEF Reboot, NextFrame, TypeOK
    <3>5. NextFrame(n)' = 1
      BY <1>0, <1>9 DEF Reboot, NextFrame, TypeOK
    <3>6. \A t \in Node :
            \/ /\ NextFrame(t)' = NextFrame(t)
               /\ pc[t] = "wild" => pc'[t] = "wild"
            \/ /\ NextFrame(t)' = 1
               /\ \A r \in Node \ {n} : t \in Senders(neighbor_list[r]) =>
                    <<r, t>> \in restarted'
      BY <3>3, <3>4, <3>5
    <3>7. restarted \ ({n} \X Node) \subseteq restarted'
      BY <3>1
    <3> QED  BY <3>1, <3>2, <3>6, <3>7, TableCleared
  <2>3. ReportInv'
    BY <1>9, ReportKept DEF Reboot
  <2> QED  BY <1>0, <2>1, <2>2, <2>3 DEF IInv
<1>10. ASSUME UNCHANGED <<pc, code, outbox, missed, restarted>>,
              reports' \subseteq reports
       PROVE  IInv'
  <2>1. /\ \A t \in Node : /\ NextFrame(t)' = NextFrame(t)
                           /\ pc[t] = "wild" => pc'[t] = "wild"
        /\ UNCHANGED <<neighbor_list, missed, restarted>>
    BY <1>10 DEF NextFrame, code
  <2>2. NumberingInv'
    BY <1>0, <1>10 DEF NumberingInv, code
  <2> QED  BY <1>0, <1>10, <2>1, <2>2, TablesUntouched, ReportKept DEF IInv
<1>11. ASSUME NEW rep \in reports, Deliver(rep) \/ LoseReport(rep) PROVE IInv'
  BY <1>10, <1>11 DEF Deliver, LoseReport
<1>12. CASE UNCHANGED vars
  BY <1>10, <1>12 DEF vars
<1> QED
  BY <1>1, <1>2, <1>4, <1>5, <1>7, <1>8, <1>9, <1>11, <1>12 DEF Next

-----------------------------------------------------------------------------
(***************************************************************************)
(* The theorems.                                                           *)
(***************************************************************************)

(* The inductive invariant holds in every network, whatever overflows.     *)
THEOREM Invariance == Spec => []IInv
  BY InitInvariant, NextInvariant, PTL DEF Spec

(* The loss counts of a table within its array are sound.                  *)
THEOREM LossSoundTheorem == Spec => []LossSound
<1>1. IInv => LossSound
  BY DEF IInv, CountInv
<1> QED  BY <1>1, Invariance, PTL

(* They are exact for a sender that numbers on, between restarts and wraps.*)
THEOREM LossExactTheorem == Spec => []LossExact
<1>1. IInv => LossExact
  BY DEF IInv, ExactInv
<1> QED  BY <1>1, Invariance, PTL

(* A report never claims more packets lost than packets in total, also     *)
(* where tables overflow: those have no room in a report.                  *)
THEOREM ReportRatioTheorem == Spec => []ReportRatio
<1>1. IInv => ReportRatio
  BY DEF IInv, ReportInv
<1> QED  BY <1>1, Invariance, PTL

(* A node with no more than MAX_NEIGHBORS nodes in range does not write    *)
(* past the end of its table, whatever happens at the other nodes.         *)
THEOREM WithinArrayTheorem ==
  ASSUME NEW r \in Node, IsFiniteSet(InRange(r)),
         Cardinality(InRange(r)) <= MAX_NEIGHBORS
  PROVE  Spec => []WithinArray(r)
<1>1. ASSUME IInv PROVE WithinArray(r)
  <2> DEFINE list == neighbor_list[r]
  <2>1. /\ list \in Seq(Entry) /\ Distinct(list)
        /\ Senders(list) \subseteq InRange(r)
    BY <1>1 DEF IInv, TypeOK, TableInv, OneEntryPerSender, Distinct
  <2>2. Len(list) \in Nat /\ Cardinality(InRange(r)) \in Nat
        /\ MAX_NEIGHBORS \in Nat
    BY <2>1, FS_CardinalityType, TableAssumption
  <2>3. Len(list) <= Cardinality(InRange(r))
    <3> HIDE DEF list
    <3> QED  BY <2>1, TableFits
  <2> QED  BY <2>2, <2>3 DEF WithinArray
<1> QED  BY <1>1, Invariance, PTL

-----------------------------------------------------------------------------
(***************************************************************************)
(* The refinement.                                                         *)
(***************************************************************************)

(* The initial state maps to the survey's.                                 *)
LEMMA SurveyInit == Init => Survey!Init
<1> SUFFICES ASSUME Init PROVE Survey!Init
  OBVIOUS
<1>1. Senders(<<>>) = {}
  BY DEF Senders
<1>2. \A n \in Node : Senders(neighbor_list[n]) = {}
  BY <1>1 DEF Init
<1> QED  BY <1>2 DEF Init, Survey!Init, KnownBar, InflightBar

(* A frame is heard by those it reaches and who have room for its sender.  *)
LEMMA SurveyHear ==
  ASSUME OverfullInv, NEW s \in Node, NEW R \in SUBSET Node,
         NEW id \in Uint8, Hear(s, R, id)
  PROVE  \E H \in SUBSET Node : Survey!Hear(s, H)
<1> DEFINE H == {r \in R : Senders(neighbor_list'[r])
                            = Senders(neighbor_list[r]) \cup {s}}
<1>1. H \subseteq {r \in Node : <<s, r>> \in Links} /\ H \in SUBSET Node
  BY DEF Hear, Hearers
<1>2. /\ \A r \in Node \ R : neighbor_list'[r] = neighbor_list[r]
      /\ \A r \in R : Senders(neighbor_list'[r])
           \in {Senders(neighbor_list[r]), Senders(neighbor_list[r]) \cup {s}}
  BY HearAny DEF OverfullInv
<1>3. KnownBar' = [r \in Node |-> IF r \in H THEN KnownBar[r] \cup {s}
                                            ELSE KnownBar[r]]
  BY <1>2 DEF KnownBar
<1>4. reports' = reports /\ printed' = printed
  BY DEF Hear
<1>5. InflightBar' = InflightBar
  BY <1>4 DEF InflightBar
<1>6. Survey!Hear(s, H)
  BY <1>1, <1>3, <1>4, <1>5 DEF Survey!Hear
<1> HIDE DEF H
<1> QED  BY <1>1, <1>6

(* A full round reports the neighbours heard; a table too long to be       *)
(* reported is forgotten.                                                  *)
LEMMA SurveyReport ==
  ASSUME OverfullInv, NEW n \in Node, BroadcastAndReport(n)
  PROVE  Survey!Report(n) \/ Survey!Forget(n)
<1>1. /\ neighbor_list' = [neighbor_list EXCEPT ![n] = <<>>]
      /\ printed' = printed
      /\ n # Sink
  BY DEF OverfullInv, BroadcastAndReport, Broadcast, clean_list
<1>2. KnownBar' = [KnownBar EXCEPT ![n] = {}]
  <2>1. Senders(<<>>) = {}
    BY DEF Senders
  <2> QED  BY <1>1, <2>1 DEF KnownBar, OverfullInv, TypeOK
<1>3. CASE reports' = reports \cup {ReportOf(n)}
  <2>1. LinesSenders(ReportOf(n)) = Senders(neighbor_list[n])
    BY DEF LinesSenders, ReportOf, Senders
  <2>2. ReportBar(ReportOf(n)) = [originator |-> n, senders |-> KnownBar[n]]
    BY <2>1 DEF ReportBar, KnownBar, ReportOf
  <2>3. InflightBar' = InflightBar \cup {ReportBar(ReportOf(n))}
    BY <1>3 DEF InflightBar
  <2> QED  BY <1>1, <1>2, <2>2, <2>3 DEF Survey!Report
<1>4. CASE reports' = reports
  <2>1. InflightBar' = InflightBar
    BY <1>4 DEF InflightBar
  <2> QED  BY <1>1, <1>2, <2>1 DEF Survey!Forget
<1> QED  BY <1>3, <1>4 DEF BroadcastAndReport

(* A restart is the survey's Forget.                                       *)
LEMMA SurveyForget ==
  ASSUME TypeOK, NEW n \in Node, Reboot(n)
  PROVE  Survey!Forget(n)
<1>1. Senders(<<>>) = {}
  BY DEF Senders
<1>2. KnownBar' = [KnownBar EXCEPT ![n] = {}]
  BY <1>1 DEF Reboot, KnownBar, TypeOK
<1>3. UNCHANGED <<InflightBar, printed>>
  BY DEF Reboot, InflightBar
<1> QED  BY <1>2, <1>3 DEF Survey!Forget

(* The sink prints what a report says, and nothing else.                   *)
LEMMA SurveyArrive ==
  ASSUME OverfullInv, NEW rep \in reports, Deliver(rep)
  PROVE  Survey!Arrive(ReportBar(rep))
<1>1. \A i \in DOMAIN rep.lines : rep.lines[i].to = rep.originator
  BY DEF OverfullInv
<1>2. printed' = printed \cup {<<rep.lines[i].from, rep.lines[i].to>> :
                                 i \in DOMAIN rep.lines}
  BY DEF Deliver
<1>3. {<<rep.lines[i].from, rep.lines[i].to>> : i \in DOMAIN rep.lines}
        = LinesSenders(rep) \X {rep.originator}
  BY <1>1 DEF LinesSenders
<1>4. reports' = reports \ {rep}
  BY DEF Deliver
<1>5. \/ InflightBar' = InflightBar
      \/ InflightBar' = InflightBar \ {ReportBar(rep)}
  BY <1>4 DEF InflightBar
<1>6. KnownBar' = KnownBar
  BY DEF Deliver, KnownBar, code
<1>7. /\ ReportBar(rep).senders = LinesSenders(rep)
      /\ ReportBar(rep).originator = rep.originator
  BY DEF ReportBar
<1> QED  BY <1>2, <1>3, <1>5, <1>6, <1>7 DEF Survey!Arrive

(* A report that is lost is a report of the survey that is lost, or another*)
(* report with the same senders is still on its way.                       *)
LEMMA SurveyLose ==
  ASSUME NEW rep \in reports, LoseReport(rep)
  PROVE  Survey!Lose(ReportBar(rep)) \/ UNCHANGED Survey!vars
<1>1. reports' = reports \ {rep}
  BY DEF LoseReport
<1>2. \/ InflightBar' = InflightBar
      \/ InflightBar' = InflightBar \ {ReportBar(rep)}
  BY <1>1 DEF InflightBar
<1>3. KnownBar' = KnownBar /\ printed' = printed
  BY DEF LoseReport, KnownBar, code
<1> QED  BY <1>2, <1>3 DEF Survey!Lose, Survey!vars

(* Every step of the network is a step of the survey or leaves it alone.   *)
LEMMA SurveyNext ==
  ASSUME OverfullInv, [Next]_vars
  PROVE  [Survey!Next]_(Survey!vars)
<1>1. ASSUME UNCHANGED <<neighbor_list, reports, printed>>
      PROVE  UNCHANGED Survey!vars
  BY <1>1 DEF Survey!vars, KnownBar, InflightBar
<1>2. CASE SinkSettles
  BY <1>1, <1>2 DEF SinkSettles, code
<1>3. ASSUME NEW n \in Node, Settle(n) \/ BroadcastOnly(n)
      PROVE  UNCHANGED Survey!vars
  BY <1>1, <1>3 DEF Settle, BroadcastOnly, Broadcast
<1>4. ASSUME NEW n \in Node, BroadcastAndReport(n) PROVE Survey!Next
  BY <1>4, SurveyReport DEF Survey!Next
<1>5. ASSUME NEW s \in Node, NEW R \in SUBSET Node, Transmit(s, R)
      PROVE  Survey!Next
  <2>1. Hear(s, R, outbox[s]) /\ outbox[s] \in Uint8
    BY <1>5 DEF Transmit, OverfullInv, TypeOK
  <2> QED  BY <2>1, SurveyHear DEF Survey!Next
<1>6. ASSUME NEW f \in Node, NEW R \in SUBSET Node, ForeignBroadcast(f, R)
      PROVE  Survey!Next
  <2>1. Hear(f, R, 0) /\ 0 \in Uint8
    BY <1>6, Arithmetic DEF ForeignBroadcast
  <2> QED  BY <2>1, SurveyHear DEF Survey!Next
<1>7. ASSUME NEW n \in Node, Reboot(n) PROVE Survey!Next
  BY <1>7, SurveyForget DEF Survey!Next, OverfullInv
<1>8. ASSUME NEW rep \in reports, Deliver(rep) PROVE Survey!Next
  BY <1>8, SurveyArrive DEF Survey!Next, InflightBar
<1>9. ASSUME NEW rep \in reports, LoseReport(rep)
      PROVE  Survey!Next \/ UNCHANGED Survey!vars
  BY <1>9, SurveyLose DEF Survey!Next, InflightBar
<1>10. CASE UNCHANGED vars
  BY <1>1, <1>10 DEF vars, code
<1> QED
  BY <1>2, <1>3, <1>4, <1>5, <1>6, <1>7, <1>8, <1>9, <1>10 DEF Next

(* The program implements LinkSurvey, in every network.                    *)
THEOREM Refinement == Spec => SurveySpec
<1>1. OverfullInv /\ [Next]_vars => [Survey!Next]_(Survey!vars)
  BY SurveyNext
<1> QED
  BY <1>1, SurveyInit, OverfullInvariance, PTL DEF Spec, SurveySpec, Survey!Spec

(* In the survey, links come from what was heard, and reports from nodes   *)
(* other than the sink.                                                    *)
LEMMA SurveyLinks ==
  /\ Survey!Init => Survey!OnlyRealLinks
  /\ Survey!OnlyRealLinks /\ [Survey!Next]_(Survey!vars)
       => Survey!OnlyRealLinks'
<1> USE DEF Survey!OnlyRealLinks
<1>1. Survey!Init => Survey!OnlyRealLinks
  BY DEF Survey!Init
<1>2. ASSUME Survey!OnlyRealLinks, [Survey!Next]_(Survey!vars)
      PROVE  Survey!OnlyRealLinks'
  <2>1. ASSUME NEW s \in Node, NEW R \in SUBSET Node, Survey!Hear(s, R)
        PROVE  Survey!OnlyRealLinks'
    BY <1>2, <2>1 DEF Survey!Hear
  <2>2. ASSUME NEW n \in Node, Survey!Report(n)
        PROVE  Survey!OnlyRealLinks'
    <3>1. \A m \in Node : KnownBar'[m] \in {KnownBar[m], {}}
      BY <2>2 DEF Survey!Report, KnownBar
    <3>2. \A rep \in InflightBar' : \/ rep \in InflightBar
                                    \/ rep.originator = n
                                       /\ rep.senders = KnownBar[n]
      BY <2>2 DEF Survey!Report
    <3> QED  BY <1>2, <2>2, <3>1, <3>2 DEF Survey!Report
  <2>3. ASSUME NEW n \in Node, Survey!Forget(n)
        PROVE  Survey!OnlyRealLinks'
    <3>1. \A m \in Node : KnownBar'[m] \in {KnownBar[m], {}}
      BY <2>3 DEF Survey!Forget, KnownBar
    <3> QED  BY <1>2, <2>3, <3>1 DEF Survey!Forget
  <2>4. ASSUME NEW rep \in InflightBar, Survey!Arrive(rep)
        PROVE  Survey!OnlyRealLinks'
    BY <1>2, <2>4 DEF Survey!Arrive
  <2>5. ASSUME NEW rep \in InflightBar, Survey!Lose(rep)
        PROVE  Survey!OnlyRealLinks'
    BY <1>2, <2>5 DEF Survey!Lose
  <2>6. CASE UNCHANGED Survey!vars
    BY <1>2, <2>6 DEF Survey!vars
  <2> QED  BY <1>2, <2>1, <2>2, <2>3, <2>4, <2>5, <2>6 DEF Survey!Next
<1> QED  BY <1>1, <1>2

(* Then every link the sink prints exists, and none leads to the sink.     *)
THEOREM OnlyRealLinksTheorem == Spec => []OnlyRealLinksPrinted
<1>1. Survey!Spec => []Survey!OnlyRealLinks
  BY SurveyLinks, PTL DEF Survey!Spec
<1>2. Survey!OnlyRealLinks => OnlyRealLinksPrinted
  BY DEF OnlyRealLinksPrinted
<1> QED  BY <1>1, <1>2, Refinement, PTL DEF SurveySpec
=============================================================================
