------------------------------ MODULE Multihop ------------------------------
(***************************************************************************)
(* rime/example-multihop.c: a button sends a packet towards node 1.0; every *)
(* node forwards it to a random entry of its neighbour table.  The entries *)
(* come from announcements, and each has a timer that removes it.          *)
(*                                                                         *)
(* Time passes in ticks.  An announcement, a packet or a button takes no   *)
(* time, and a tick does not pass over a timer that is due.                *)
(***************************************************************************)
EXTENDS Integers, SequencesExt

CONSTANTS
  Hop,
  Dest,               \* 1.0, the final receiver of every packet
  HopLinks,           \* <<s, r>>: r may hear what s sends
  NEIGHBOR_TIMEOUT,   \* in ticks
  MAX_NEIGHBORS,
  MaxCrashes          \* bound on failures of nodes

ASSUME MultihopAssumption ==
  /\ IsFiniteSet(Hop)
  /\ Dest \in Hop
  /\ HopLinks \subseteq {l \in Hop \X Hop : l[1] # l[2]}
  /\ NEIGHBOR_TIMEOUT \in Nat \ {0}
  /\ MAX_NEIGHBORS \in Nat \ {0}
  /\ MaxCrashes \in Nat

VARIABLES
  neighbor_table,  \* of each node: its entries in the order they were added
  up,              \* the nodes that run
  packet,          \* <<n, m>>: a packet is on its way from n to m
  crashes,
  age,             \* history: ticks since n, in this life, heard m
  refused          \* history: of each node, the neighbours for which there
                   \* was no room when they were heard last

multihopVars == <<neighbor_table, up, packet, crashes, age, refused>>

NoPacket == <<>>
Never == NEIGHBOR_TIMEOUT + 1     \* an age beyond every timer

example_neighbor == [addr : Hop, timer : 0 .. NEIGHBOR_TIMEOUT]

MultihopTypeOK ==
  /\ neighbor_table \in [Hop -> Seq(example_neighbor)]
  /\ \A n \in Hop : Len(neighbor_table[n]) <= MAX_NEIGHBORS
  /\ up \in SUBSET Hop
  /\ packet \in (Hop \X Hop) \cup {NoPacket}
  /\ crashes \in 0 .. MaxCrashes
  /\ age \in [Hop -> [Hop -> 0 .. Never]]
  /\ refused \in [Hop -> SUBSET Hop]

MultihopInit ==
  /\ neighbor_table = [n \in Hop |-> <<>>]
  /\ up = Hop
  /\ packet = NoPacket
  /\ crashes = 0
  /\ age = [n \in Hop |-> [m \in Hop |-> Never]]
  /\ refused = [n \in Hop |-> {}]

Neighbors(n) == {neighbor_table[n][i].addr : i \in DOMAIN neighbor_table[n]}

-----------------------------------------------------------------------------
(***************************************************************************)
(* Announcements and timers.                                               *)
(***************************************************************************)

Restarted_NotAgain(t, m) == t

Restarted(t, m) ==
  [i \in DOMAIN t |-> IF t[i].addr = m THEN [t[i] EXCEPT !.timer = NEIGHBOR_TIMEOUT]
                                       ELSE t[i]]

HasRoom(n) == Len(neighbor_table[n]) < MAX_NEIGHBORS

(* The table of n after it heard an announcement of m: the timer of the    *)
(* entry starts again; a new entry is taken from the pool while it lasts.  *)
received_announcement(n, m) ==
  IF m \in Neighbors(n) THEN Restarted(neighbor_table[n], m)
  ELSE IF HasRoom(n)
    THEN Append(neighbor_table[n], [addr |-> m, timer |-> NEIGHBOR_TIMEOUT])
  ELSE neighbor_table[n]

(* m is announced to the nodes R; the others in range lose it. *)
Announce(m, R) ==
  /\ m \in up
  /\ R \subseteq {n \in up : <<m, n>> \in HopLinks} /\ R # {}
  /\ neighbor_table' =
       [n \in Hop |-> IF n \in R THEN received_announcement(n, m)
                                  ELSE neighbor_table[n]]
  /\ age' = [n \in Hop |-> IF n \in R THEN [age[n] EXCEPT ![m] = 0] ELSE age[n]]
  /\ refused' = [n \in Hop |-> IF n \notin R THEN refused[n]
                                ELSE IF m \in Neighbors(n)' THEN refused[n] \ {m}
                                ELSE refused[n] \cup {m}]
  /\ UNCHANGED <<up, packet, crashes>>

remove_neighbor_Restarts(n, i) ==
  /\ i \in DOMAIN neighbor_table[n]
  /\ neighbor_table[n][i].timer = 0
  /\ neighbor_table' = [neighbor_table EXCEPT ![n][i].timer = NEIGHBOR_TIMEOUT]
  /\ UNCHANGED <<up, packet, crashes, age, refused>>

(* remove_neighbor: the timer of the i-th entry calls it. *)
remove_neighbor(n, i) ==
  /\ i \in DOMAIN neighbor_table[n]
  /\ neighbor_table[n][i].timer = 0
  /\ neighbor_table' = [neighbor_table EXCEPT ![n] = RemoveAt(@, i)]
  /\ UNCHANGED <<up, packet, crashes, age, refused>>

Tick ==
  /\ \A n \in Hop : \A i \in DOMAIN neighbor_table[n] :
       neighbor_table[n][i].timer > 0
  /\ neighbor_table' =
       [n \in Hop |-> [i \in DOMAIN neighbor_table[n] |->
          [neighbor_table[n][i] EXCEPT !.timer = @ - 1]]]
  /\ age' = [n \in Hop |-> [m \in Hop |->
               IF age[n][m] < Never THEN age[n][m] + 1 ELSE Never]]
  /\ UNCHANGED <<up, packet, crashes, refused>>

-----------------------------------------------------------------------------
(***************************************************************************)
(* Packets.                                                                *)
(***************************************************************************)

(* forward picks a random entry; without one the packet is dropped.        *)
forward_Stuck(n) == {<<n, neighbor_table[n][1].addr>> : i \in DOMAIN neighbor_table[n]}

forward(n) == IF neighbor_table[n] = <<>> THEN {NoPacket}
                                          ELSE {<<n, m>> : m \in Neighbors(n)}

(* The button of n.  One packet is followed at a time.                     *)
Press(n) ==
  /\ n \in up /\ packet = NoPacket
  /\ packet' \in forward(n)
  /\ UNCHANGED <<neighbor_table, up, crashes, age, refused>>

(* The packet reaches the node it was sent to: its final receiver, where   *)
(* recv prints it, or one that forwards it.                                *)
Arrives(n) == packet # NoPacket /\ packet \in HopLinks /\ packet[2] = n /\ n \in up

recv ==
  /\ Arrives(Dest)
  /\ packet' = NoPacket
  /\ UNCHANGED <<neighbor_table, up, crashes, age, refused>>

Relay(n) ==
  /\ n # Dest /\ Arrives(n)
  /\ packet' \in forward(n)
  /\ UNCHANGED <<neighbor_table, up, crashes, age, refused>>

(* Also the end of a packet to a node that is out of range or down: it was *)
(* announced, but there is no link back, or it stopped since.              *)
Lose ==
  /\ packet # NoPacket
  /\ packet' = NoPacket
  /\ UNCHANGED <<neighbor_table, up, crashes, age, refused>>

-----------------------------------------------------------------------------
Crash(n) ==
  /\ n \in up /\ crashes < MaxCrashes
  /\ crashes' = crashes + 1
  /\ up' = up \ {n}
  /\ neighbor_table' = [neighbor_table EXCEPT ![n] = <<>>]
  /\ age' = [age EXCEPT ![n] = [m \in Hop |-> Never]]
  /\ refused' = [refused EXCEPT ![n] = {}]
  /\ UNCHANGED packet

Start(n) ==
  /\ n \notin up
  /\ up' = up \cup {n}
  /\ UNCHANGED <<neighbor_table, packet, crashes, age, refused>>

MultihopNext ==
  \/ Tick
  \/ recv
  \/ Lose
  \/ \E n \in Hop :
       \/ \E R \in SUBSET Hop : Announce(n, R)
       \/ \E i \in 1 .. MAX_NEIGHBORS : remove_neighbor(n, i)
       \/ Press(n)
       \/ Relay(n)
       \/ Crash(n)
       \/ Start(n)

MultihopSpec == MultihopInit /\ [][MultihopNext]_multihopVars

(* Time passes, timers fire, and a packet does not stay on the air. *)
MultihopFairness ==
  /\ WF_multihopVars(Tick)
  /\ \A n \in Hop :
       WF_multihopVars(\E i \in 1 .. MAX_NEIGHBORS : remove_neighbor(n, i))
  /\ WF_multihopVars(recv \/ Lose \/ \E n \in Hop : Relay(n))

(* The nodes a packet can be forwarded by. *)
Carriers == {l[2] : l \in HopLinks} \ {Dest}

(* The choice of forward is random: no neighbour that is in the table      *)
(* again and again is passed over for ever.                                *)
RandomChoice ==
  \A l \in HopLinks : l[1] \in Carriers => SF_multihopVars(Relay(l[1]) /\ packet' = l)

-----------------------------------------------------------------------------
(***************************************************************************)
(* Properties.                                                             *)
(***************************************************************************)

(* Every neighbour heard within the timeout is in the table, unless there  *)
(* was no room when it was heard last: it is refused only while            *)
(* MAX_NEIGHBORS others are recent.  The timer of an entry runs from the   *)
(* last announcement, not from the first.                                  *)
TableFollowsAnnouncements ==
  \A n \in Hop :
    /\ {m \in Hop : age[n][m] < NEIGHBOR_TIMEOUT} \subseteq Neighbors(n) \cup refused[n]
    /\ \A i \in DOMAIN neighbor_table[n] :
         neighbor_table[n][i].timer = NEIGHBOR_TIMEOUT - age[n][neighbor_table[n][i].addr]
    /\ \A m \in refused[n] : age[n][m] = 0 =>
         Cardinality({o \in Hop \ {m} : age[n][o] <= NEIGHBOR_TIMEOUT}) >= MAX_NEIGHBORS

(* Tables forget the nodes that went down: again and again there comes a   *)
(* moment at which every entry is about a running node.                    *)
DownIsForgotten ==
  MultihopFairness => []<>(\A n \in Hop : Neighbors(n) \subseteq up)

(* The next hops of a tree from the carriers towards the final receiver.   *)
Routes ==
  {route \in [Carriers -> Hop] :
     /\ \A n \in Carriers : <<n, route[n]>> \in HopLinks
     /\ \A S \in SUBSET Carriers : S # {} => \E n \in S : route[n] \notin S}

(* Where the next hops of some tree stay in the tables, the random walk of *)
(* a packet does not go on for ever, whatever else the tables hold.        *)
PacketsComeToAnEnd ==
  \A route \in Routes :
    MultihopFairness /\ RandomChoice
      /\ <>[](\A n \in Carriers : route[n] \in Neighbors(n))
      => []<>(packet = NoPacket)
=============================================================================
