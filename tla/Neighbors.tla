----------------------------- MODULE Neighbors ------------------------------
(***************************************************************************)
(* rime/example-neighbors.c on every node of a network: one process        *)
(* broadcasts a sequence number, another one pings a random entry of the   *)
(* neighbour table, and two handlers maintain the table, with a moving     *)
(* average of the gaps between sequence numbers, and answer pings.         *)
(*                                                                         *)
(* A handler runs to completion, so it is one step; a timer may fire       *)
(* whenever its process waits for it.  The list and its memory pool hold   *)
(* the same entries and are one sequence.  The radio values of an entry    *)
(* are copied through unread and left out.                                 *)
(***************************************************************************)
EXTENDS Integers, Sequences, FiniteSets

CONSTANTS
  Node,
  Links,                \* <<s, r>>: r is in radio range of s
  IdSpace,              \* 2^8 for uint8_t; a smaller one wraps sooner
  MAX_NEIGHBORS,        \* 16
  SEQNO_EWMA_UNITY,     \* 0x100
  SEQNO_EWMA_ALPHA,     \* 0x040
  MaxReboots            \* bound: restarts in one behaviour

ASSUME NeighborsAssumption ==
  /\ Links \subseteq {l \in Node \X Node : l[1] # l[2]}
  /\ IdSpace \in Nat /\ IdSpace >= 2
  /\ MAX_NEIGHBORS \in Nat \ {0}
  /\ SEQNO_EWMA_UNITY \in Nat \ {0}
  /\ SEQNO_EWMA_ALPHA \in 1 .. SEQNO_EWMA_UNITY
  /\ MaxReboots \in Nat

VARIABLES
  seqno,                \* the next sequence number of a node
  neighbors_list,
  unicasts,             \* pings and pongs on their way
  reboots,              \* restarts so far
  missed,               \* history: missed[r][s] counts, modulo IdSpace, the
                        \* frames of s since the last one r heard
  gaps,                 \* history: gaps[r][s] are the gaps r has seen of s
                        \* since it has s in its table
  restarted             \* history: <<r, s>> when s restarted its numbering
                        \* while r had it in its table

histories == <<missed, gaps, restarted>>
vars == <<seqno, neighbors_list, unicasts, reboots, histories>>

Uint8 == 0 .. IdSpace - 1

(* An entry of the table, and a message of an exchange. *)
Neighbor == [addr : Node, last_seqno : Uint8, avg_seqno_gap : Nat]
Unicast == [type : {"ping", "pong"}, from : Node, to : Node]

NeighborsTypeOK ==
  /\ seqno \in [Node -> Uint8]
  /\ neighbors_list \in [Node -> Seq(Neighbor)]
  /\ \A r \in Node : Len(neighbors_list[r]) <= MAX_NEIGHBORS
  /\ unicasts \in SUBSET Unicast
  /\ reboots \in 0 .. MaxReboots
  /\ missed \in [Node -> [Node -> Uint8]]
  /\ gaps \in [Node -> [Node -> SUBSET Uint8]]
  /\ restarted \in SUBSET (Node \X Node)

Init ==
  /\ seqno = [n \in Node |-> 0]
  /\ neighbors_list = [n \in Node |-> <<>>]
  /\ unicasts = {}
  /\ reboots = 0
  /\ missed = [r \in Node |-> [s \in Node |-> 0]]
  /\ gaps = [r \in Node |-> [s \in Node |-> {}]]
  /\ restarted = {}

-----------------------------------------------------------------------------
(***************************************************************************)
(* Broadcasts.                                                             *)
(***************************************************************************)

Known(r) == {neighbors_list[r][i].addr : i \in DOMAIN neighbors_list[r]}

SeqnoGap(n, m) == (m - n.last_seqno) % IdSpace

(* In 32 bits: the largest product is 255 * 2^8 * 2^6, below 2^32.         *)
Average_OldOnTop(avg, gap) ==
  gap * SEQNO_EWMA_ALPHA + (avg * (SEQNO_EWMA_UNITY + SEQNO_EWMA_ALPHA)) \div SEQNO_EWMA_UNITY

Average(avg, gap) ==
  (gap * SEQNO_EWMA_UNITY * SEQNO_EWMA_ALPHA) \div SEQNO_EWMA_UNITY
    + (avg * (SEQNO_EWMA_UNITY - SEQNO_EWMA_ALPHA)) \div SEQNO_EWMA_UNITY

(* An entry when the frame with number m is heard. *)
Updated_NextSeqno(n, m) ==
  [n EXCEPT !.last_seqno = (m + 1) % IdSpace,
            !.avg_seqno_gap = Average(@, SeqnoGap(n, m))]

Updated(n, m) ==
  [n EXCEPT !.last_seqno = m, !.avg_seqno_gap = Average(@, SeqnoGap(n, m))]

NewNeighbor(from, m) ==
  [addr |-> from, last_seqno |-> (m - 1) % IdSpace, avg_seqno_gap |-> SEQNO_EWMA_UNITY]

(* A node that does not find the sender takes a new entry from the pool,   *)
(* and gives up when the pool is empty.                                    *)
Hears_NoPool(r, s) == TRUE

Hears(r, s) == s \in Known(r) \/ Len(neighbors_list[r]) < MAX_NEIGHBORS

(* list_add puts a new entry at the end; an address has one entry. *)
WithEntry(list, s, m) ==
  IF \E i \in DOMAIN list : list[i].addr = s THEN list
  ELSE Append(list, NewNeighbor(s, m))

broadcast_recv(list, s, m) ==
  LET found == WithEntry(list, s, m)
  IN  [i \in DOMAIN found |->
         IF found[i].addr = s THEN Updated(found[i], m) ELSE found[i]]

(* The gaps that the averages of s take in; 1 for a new entry.             *)
GapsSeen(list, s, m) ==
  LET found == WithEntry(list, s, m)
  IN  {SeqnoGap(found[i], m) : i \in {j \in DOMAIN found : found[j].addr = s}}

InRange(s) == {r \in Node : <<s, r>> \in Links}

(* The timer of the broadcast process of s fires, and its frame reaches R; *)
(* the other nodes in range lose it.  The frame spends milliseconds in the *)
(* MAC layer; what happens meanwhile neither reads nor changes its number, *)
(* so the two are one step.                                                *)
Broadcast(s, R) ==
  /\ seqno' = [seqno EXCEPT ![s] = (@ + 1) % IdSpace]
  /\ LET hearing == {r \in R : Hears(r, s)}
     IN  /\ neighbors_list' =
              [r \in Node |-> IF r \in hearing
                                THEN broadcast_recv(neighbors_list[r], s, seqno[s])
                                ELSE neighbors_list[r]]
         /\ missed' =
              [r \in Node |-> [missed[r] EXCEPT ![s] =
                 IF r \in hearing THEN 0
                 ELSE IF s \in Known(r) THEN (@ + 1) % IdSpace ELSE @]]
         /\ gaps' =
              [r \in Node |-> [gaps[r] EXCEPT ![s] =
                 IF r \in hearing THEN @ \cup GapsSeen(neighbors_list[r], s, seqno[s]) ELSE @]]
         /\ restarted' = restarted \ (hearing \X {s})
  /\ UNCHANGED <<unicasts, reboots>>

-----------------------------------------------------------------------------
(***************************************************************************)
(* Unicasts.                                                               *)
(***************************************************************************)

(* The messages of the exchange that n started. *)
Exchange(n) == {u \in unicasts : \/ u.type = "ping" /\ u.from = n
                                 \/ u.type = "pong" /\ u.to = n}

(* The timer of the unicast process fires and the table is not empty; the  *)
(* exchange before is over, as the timer fires every 8 to 16 seconds.      *)
Ping(n, i) ==
  /\ i \in DOMAIN neighbors_list[n]
  /\ Exchange(n) = {}
  /\ unicasts' = unicasts \cup
       {[type |-> "ping", from |-> n, to |-> neighbors_list[n][i].addr]}
  /\ UNCHANGED <<seqno, neighbors_list, reboots, histories>>

(* What recv_uc sends when u arrives. *)
recv_uc_Always(u) == {[type |-> "pong", from |-> u.to, to |-> u.from]}

recv_uc(u) ==
  IF u.type = "ping" THEN {[type |-> "pong", from |-> u.to, to |-> u.from]} ELSE {}

Arrive(u) ==
  /\ <<u.from, u.to>> \in Links
  /\ unicasts' = (unicasts \ {u}) \cup recv_uc(u)
  /\ UNCHANGED <<seqno, neighbors_list, reboots, histories>>

Lose(u) ==
  /\ unicasts' = unicasts \ {u}
  /\ UNCHANGED <<seqno, neighbors_list, reboots, histories>>

-----------------------------------------------------------------------------
(* A node restarts: its statics and its MAC queue are lost.                *)
Reboot(n) ==
  /\ reboots < MaxReboots
  /\ reboots' = reboots + 1
  /\ seqno' = [seqno EXCEPT ![n] = 0]
  /\ neighbors_list' = [neighbors_list EXCEPT ![n] = <<>>]
  /\ unicasts' = {u \in unicasts : u.from # n}
  /\ missed' = [missed EXCEPT ![n] = [s \in Node |-> 0]]
  /\ gaps' = [gaps EXCEPT ![n] = [s \in Node |-> {}]]
  /\ restarted' = (restarted \ ({n} \X Node))
                    \cup ({r \in Node \ {n} : n \in Known(r)} \X {n})

Next ==
  \/ \E n \in Node :
       \/ \E R \in SUBSET InRange(n) : Broadcast(n, R)
       \/ \E i \in DOMAIN neighbors_list[n] : Ping(n, i)
       \/ Reboot(n)
  \/ \E u \in unicasts : Arrive(u) \/ Lose(u)

Spec == Init /\ [][Next]_vars

-----------------------------------------------------------------------------
(***************************************************************************)
(* Properties.                                                             *)
(***************************************************************************)

(* The gap that the next frame will show is one more than the frames lost  *)
(* since the last one heard, modulo 256, unless the sender has restarted   *)
(* in between: over every wrap of the numbers the subtraction counts what  *)
(* the radio lost.                                                         *)
GapCountsMissed ==
  \A r \in Node : \A i \in DOMAIN neighbors_list[r] :
    LET n == neighbors_list[r][i]
    IN  <<r, n.addr>> \notin restarted =>
          SeqnoGap(n, seqno[n.addr]) = (missed[r][n.addr] + 1) % IdSpace

(* The average lies between the smallest and the largest gap seen of a     *)
(* neighbour, in spite of the two divisions that round down: it falls      *)
(* short of the smallest by less than UNITY / ALPHA, 4 of the 256 units    *)
(* that stand for a gap of one.                                            *)
AverageWithinGaps ==
  \A r \in Node : \A i \in DOMAIN neighbors_list[r] :
    LET n == neighbors_list[r][i]
        seen == gaps[r][n.addr]
    IN  /\ \E g \in seen : n.avg_seqno_gap <= g * SEQNO_EWMA_UNITY
        /\ \E g \in seen :
             (g * SEQNO_EWMA_UNITY - n.avg_seqno_gap) * SEQNO_EWMA_ALPHA
               < SEQNO_EWMA_UNITY

(* An exchange is one ping and then one pong, never more: a pong is not    *)
(* answered, so that two nodes that ping each other do not start a loop,   *)
(* and a ping is addressed to a node that was heard.                       *)
ExchangesDieOut ==
  \A n \in Node :
    /\ Cardinality(Exchange(n)) <= 1
    /\ \A u \in Exchange(n) : u.type = "ping" => <<u.to, n>> \in Links
=============================================================================
