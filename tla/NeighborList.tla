---------------------------- MODULE NeighborList ----------------------------
(***************************************************************************)
(* The neighbour table of collect_data.c and the handler that fills it.    *)
(*                                                                         *)
(* The C program keeps an array neighbor_list[8] and a count nlist_count;  *)
(* the entries at and after the count are never read, so the pair is one   *)
(* sequence here, and a position of the array is an index of the sequence  *)
(* less one.  The radio measurements (lqi, rssi, etx, etx_accumulator) are *)
(* copied through unread and are left out of the entries.                  *)
(*                                                                         *)
(* In this and the other modules an operator Name_Variant is Name with a   *)
(* plausible mistake; no specification uses it.  TLC finds the property    *)
(* PROJECT.json names for it violated when it takes the place of Name.     *)
(***************************************************************************)
EXTENDS Integers, Sequences

CONSTANTS
  Node,             \* the addresses (rimeaddr_t)
  IdSpace,          \* 2^8 for the uint8_t fields; a smaller one wraps sooner
  MAX_NEIGHBORS     \* the 8 of neighbor_list[8] and of "nlist_count > 8"

ASSUME TableAssumption == /\ IdSpace \in Nat /\ IdSpace >= 2
                          /\ MAX_NEIGHBORS \in Nat

Uint8 == 0 .. IdSpace - 1

Entry == [sender         : Node,
          total_packets  : Uint8,
          lost_packets   : Uint8,
          last_packet_id : Uint8]

init_neighbor(addr, total, lost, rmes_id) ==
  [sender |-> addr, total_packets |-> total,
   lost_packets |-> lost, last_packet_id |-> rmes_id]

NotFound == 0       \* the -1 of get_neighbor_by_rimeaddr

Matches(list, addr) == {i \in DOMAIN list : list[i].sender = addr}

(* The first index that holds addr. *)
get_neighbor_by_rimeaddr_SkipsHead(list, addr) ==
  IF Matches(list, addr) \ {1} = {}
    THEN NotFound
    ELSE CHOOSE i \in Matches(list, addr) \ {1} : TRUE

get_neighbor_by_rimeaddr(list, addr) ==
  IF Matches(list, addr) = {}
    THEN NotFound
    ELSE CHOOSE i \in Matches(list, addr) :
           \A j \in Matches(list, addr) : i <= j

(* Storing into the empty table (the first branch of the C function) is    *)
(* the append below; the limit is compared with ">", so a table that       *)
(* already holds MAX_NEIGHBORS entries still takes one more.               *)
add_or_update_neighbor(list, addr, total, lost, rmes_id) ==
  LET n == get_neighbor_by_rimeaddr(list, addr)
      entry == init_neighbor(addr, total, lost, rmes_id)
  IN  IF Len(list) > MAX_NEIGHBORS THEN list
      ELSE IF n = NotFound THEN Append(list, entry)
      ELSE [list EXCEPT ![n] = entry]

(* The packets a newer id says were missed, added in uint8_t. *)
CountLost_CountsTheHeard(entry, rmes_id) ==
  (entry.lost_packets + (rmes_id - entry.last_packet_id)) % IdSpace

CountLost(entry, rmes_id) ==
  (entry.lost_packets + (rmes_id - entry.last_packet_id - 1)) % IdSpace

(* A newer id updates the entry in place, before add_or_update_neighbor    *)
(* decides whether the table still takes updates.  An id that is not newer *)
(* restarts the entry's statistics.                                        *)
broadcast_receive_NextIdRestarts(list, from, rmes_id) ==
  LET n == get_neighbor_by_rimeaddr(list, from)
      lost == CountLost(list[n], rmes_id)
  IN  IF n # NotFound /\ list[n].last_packet_id + 1 < rmes_id
        THEN add_or_update_neighbor(list, from, rmes_id, lost, rmes_id)
        ELSE add_or_update_neighbor(list, from, 0, 0, rmes_id)

broadcast_receive_SameIdCounts(list, from, rmes_id) ==
  LET n == get_neighbor_by_rimeaddr(list, from)
      lost == CountLost(list[n], rmes_id)
  IN  IF n # NotFound /\ list[n].last_packet_id <= rmes_id
        THEN add_or_update_neighbor(list, from, rmes_id, lost, rmes_id)
        ELSE add_or_update_neighbor(list, from, 0, 0, rmes_id)

broadcast_receive(list, from, rmes_id) ==
  LET n == get_neighbor_by_rimeaddr(list, from)
      lost == CountLost(list[n], rmes_id)
      counted == [list EXCEPT ![n].lost_packets = lost,
                              ![n].total_packets = rmes_id]
  IN  IF n # NotFound /\ list[n].last_packet_id < rmes_id
        THEN add_or_update_neighbor(counted, from, rmes_id, lost, rmes_id)
        ELSE add_or_update_neighbor(list, from, 0, 0, rmes_id)

(* Storing addr would write one entry past the end of neighbor_list[8]. *)
Overruns(list, addr) ==
  /\ Len(list) = MAX_NEIGHBORS
  /\ get_neighbor_by_rimeaddr(list, addr) = NotFound

Senders(list) == {list[i].sender : i \in DOMAIN list}
=============================================================================
