-------------------------- MODULE NeighborsProofs ---------------------------
(***************************************************************************)
(* Proofs about Neighbors: the type invariant, the bounds of the moving    *)
(* average, the gaps and the exchanges, for every width of the numbers,    *)
(* every weight ALPHA and every network.                                   *)
(***************************************************************************)
EXTENDS Neighbors, FiniteSetTheorems, TLAPS

U == SEQNO_EWMA_UNITY
A == SEQNO_EWMA_ALPHA

-----------------------------------------------------------------------------
(***************************************************************************)
(* Arithmetic.                                                             *)
(***************************************************************************)

(* What a division that rounds down yields. *)
LEMMA Division ==
  ASSUME NEW a \in Nat, NEW b \in Nat \ {0}
  PROVE  /\ a \div b \in Nat
         /\ b * (a \div b) <= a
         /\ a < b * (a \div b) + b
OBVIOUS

(* A positive factor may be cancelled. *)
LEMMA Cancel ==
  ASSUME NEW x \in Int, NEW y \in Int, NEW b \in Nat \ {0}
  PROVE  /\ b * x <= b * y => x <= y
         /\ b * x < b * y => x < y
OBVIOUS

(* The first product of the average is divided without a rest. *)
LEMMA Exact ==
  ASSUME NEW gap \in Nat
  PROVE  (gap * U * A) \div U = gap * A
<1> DEFINE x == gap * A
           q == (gap * U * A) \div U
<1>1. U \in Nat \ {0} /\ A \in Nat
  BY NeighborsAssumption DEF U, A
<1>2. x \in Nat /\ gap * U * A = U * x /\ gap * U * A \in Nat
  BY <1>1
<1> HIDE DEF x
<1>3. q \in Nat /\ U * q <= U * x /\ U * x < U * q + U
  BY <1>1, <1>2, Division
<1>4. U * x < U * (q + 1)
  BY <1>1, <1>2, <1>3
<1>5. q <= x /\ x < q + 1
  BY <1>1, <1>2, <1>3, <1>4, Cancel
<1> QED  BY <1>2, <1>3, <1>5 DEF x

(* The average stays below any bound of the gaps, and falls short of a     *)
(* lower bound of the gaps by less than UNITY / ALPHA.                     *)
LEMMA AverageBounds ==
  ASSUME NEW avg \in Nat, NEW gap \in Nat, NEW lo \in Nat, NEW hi \in Nat,
         lo <= gap, gap <= hi,
         avg <= hi * U,
         (lo * U - avg) * A < U
  PROVE  /\ Average(avg, gap) \in Nat
         /\ Average(avg, gap) <= hi * U
         /\ (lo * U - Average(avg, gap)) * A < U
<1> DEFINE B == U - A
           q == (avg * B) \div U
           new == Average(avg, gap)
<1>1. U \in Nat \ {0} /\ A \in Nat \ {0} /\ B \in Nat /\ U = A + B
  BY NeighborsAssumption DEF U, A
<1> HIDE DEF B
<1>2. /\ new = gap * A + q
      /\ q \in Nat
      /\ U * q <= avg * B
      /\ avg * B < U * q + U
  <2>1. avg * B \in Nat
    BY <1>1
  <2>2. q \in Nat /\ U * q <= avg * B /\ avg * B < U * q + U
    BY <1>1, <2>1, Division
  <2>3. new = gap * A + q
    BY Exact DEF Average, B, U, A
  <2> QED  BY <2>2, <2>3
<1> HIDE DEF q, new
<1>3. new \in Nat
  BY <1>1, <1>2
<1>4. new <= hi * U
  <2>1. avg * B <= (hi * U) * B
    BY <1>1
  <2>2. gap * A <= hi * A
    BY <1>1
  <2>3. U * (gap * A) <= U * (hi * A)
    BY <2>2, <1>1
  <2>4. U * new = U * (gap * A) + U * q
    BY <1>1, <1>2
  <2>5. U * (hi * A) + (hi * U) * B = U * (hi * U)
    BY <1>1
  <2>6. U * new <= U * (hi * U)
    BY <1>1, <1>2, <1>3, <2>1, <2>3, <2>4, <2>5
  <2> QED  BY <2>6, <1>1, <1>3, Cancel
<1>5. (lo * U - new) * A < U
  <2> DEFINE d == lo * U - avg
             e == lo * B - q
  <2>1. d \in Int /\ e \in Int /\ avg = lo * U - d
    BY <1>1, <1>2
  <2>2. lo * U - new <= e
    <3>1. lo * A <= gap * A
      BY <1>1
    <3>2. lo * U = lo * A + lo * B
      BY <1>1
    <3> QED  BY <3>1, <3>2, <1>1, <1>2
  <2>3. U * e < d * B + U
    <3>1. avg * B = U * (lo * B) - d * B
      BY <1>1, <2>1
    <3>2. U * e = U * (lo * B) - U * q
      BY <1>1, <1>2
    <3> QED  BY <3>1, <3>2, <1>1, <1>2, <2>1
  <2>4. d * A < U
    OBVIOUS
  <2> HIDE DEF d, e
  <2>5. e * A < U
    <3>1. CASE d <= 0
      <4>1. d * B <= 0
        BY <3>1, <2>1, <1>1
      <4>2. U * e < U * 1
        BY <4>1, <2>3, <2>1, <1>1
      <4>3. e < 1
        BY <4>2, <2>1, <1>1, Cancel
      <4>4. e * A <= 0
        BY <4>3, <2>1, <1>1
      <4> QED  BY <4>4, <2>1, <1>1
    <3>2. CASE d > 0
      <4>1. d * B = d * U - d * A /\ d * A > 0
        BY <3>2, <2>1, <1>1
      <4>2. U * e < U * (d + 1)
        BY <4>1, <2>3, <2>1, <1>1
      <4>3. e < d + 1
        BY <4>2, <2>1, <1>1, Cancel
      <4>4. e * A <= d * A
        BY <4>3, <2>1, <1>1
      <4> QED  BY <4>4, <2>4, <2>1, <1>1
    <3> QED  BY <3>1, <3>2, <2>1
  <2>6. (lo * U - new) * A <= e * A
    BY <2>2, <2>1, <1>1, <1>3
  <2> QED  BY <2>5, <2>6, <2>1, <1>1, <1>3
<1> QED  BY <1>3, <1>4, <1>5 DEF new

(* Subtraction in uint8_t. *)
LEMMA Modulo ==
  ASSUME NEW x \in Int
  PROVE  /\ x % IdSpace \in Uint8
         /\ x \in Uint8 => x % IdSpace = x
         /\ x + IdSpace \in Uint8 => x % IdSpace = x + IdSpace
  BY NeighborsAssumption, SMT DEF Uint8

(* A new entry has seen a gap of one. *)
LEMMA FirstGap ==
  ASSUME NEW s \in Node, NEW m \in Uint8
  PROVE  /\ NewNeighbor(s, m) \in Neighbor
         /\ NewNeighbor(s, m).addr = s
         /\ NewNeighbor(s, m).avg_seqno_gap = U
         /\ SeqnoGap(NewNeighbor(s, m), m) = 1
<1>1. m \in Nat /\ m < IdSpace /\ IdSpace \in Nat /\ IdSpace >= 2
  BY NeighborsAssumption DEF Uint8
<1>2. (m - 1) % IdSpace \in Uint8
  BY <1>1, Modulo DEF Uint8
<1>3. (m - ((m - 1) % IdSpace)) % IdSpace = 1
  <2>1. CASE m = 0
    <3>1. (m - 1) % IdSpace = IdSpace - 1
      BY <2>1, <1>1, Modulo DEF Uint8
    <3>2. (1 - IdSpace) % IdSpace = 1
      BY <1>1, Modulo DEF Uint8
    <3> QED  BY <3>1, <3>2, <2>1, <1>1
  <2>2. CASE m # 0
    <3>1. (m - 1) % IdSpace = m - 1
      BY <2>2, <1>1, Modulo DEF Uint8
    <3>2. 1 % IdSpace = 1
      BY <1>1, Modulo DEF Uint8
    <3> QED  BY <3>1, <3>2, <1>1
  <2> QED  BY <2>1, <2>2
<1>4. U \in Nat
  BY NeighborsAssumption DEF U
<1> QED  BY <1>2, <1>3, <1>4 DEF NewNeighbor, Neighbor, SeqnoGap, U

-----------------------------------------------------------------------------
(***************************************************************************)
(* The handler.                                                            *)
(***************************************************************************)

(* Hearing a frame keeps the type and the size of a table with room.       *)
LEMMA TableType ==
  ASSUME NEW list \in Seq(Neighbor), NEW s \in Node, NEW m \in Uint8
  PROVE  /\ WithEntry(list, s, m) \in Seq(Neighbor)
         /\ broadcast_recv(list, s, m) \in Seq(Neighbor)
         /\ Len(broadcast_recv(list, s, m)) = Len(WithEntry(list, s, m))
         /\ Len(WithEntry(list, s, m)) =
              IF \E i \in DOMAIN list : list[i].addr = s THEN Len(list)
                                                         ELSE Len(list) + 1
<1> DEFINE found == WithEntry(list, s, m)
           new == broadcast_recv(list, s, m)
<1>1. NewNeighbor(s, m) \in Neighbor
  BY FirstGap
<1>2. /\ found \in Seq(Neighbor)
      /\ Len(found) = IF \E i \in DOMAIN list : list[i].addr = s THEN Len(list)
                                                                ELSE Len(list) + 1
  BY <1>1 DEF WithEntry
<1>3. ASSUME NEW n \in Neighbor PROVE Updated(n, m) \in Neighbor
  <2>1. n.avg_seqno_gap \in Nat /\ n.last_seqno \in Uint8
    BY DEF Neighbor
  <2>2. SeqnoGap(n, m) \in Uint8
    BY <2>1, Modulo DEF SeqnoGap, Uint8
  <2>3. SeqnoGap(n, m) \in Nat
    BY <2>2 DEF Uint8
  <2>4. Average(n.avg_seqno_gap, SeqnoGap(n, m)) \in Nat
    <3>1. /\ SeqnoGap(n, m) * U * A \in Nat
          /\ n.avg_seqno_gap * (U - A) \in Nat
          /\ U \in Nat \ {0}
      BY <2>1, <2>3, NeighborsAssumption DEF U, A
    <3> QED  BY <3>1, Division DEF Average, U, A
  <2> QED  BY <2>4 DEF Updated, Neighbor
<1>4. /\ new = [i \in 1 .. Len(found) |->
                  IF found[i].addr = s THEN Updated(found[i], m) ELSE found[i]]
      /\ \A i \in 1 .. Len(found) : found[i] \in Neighbor
  BY <1>2 DEF broadcast_recv
<1> HIDE DEF found, new
<1>5. \A i \in 1 .. Len(found) :
        (IF found[i].addr = s THEN Updated(found[i], m) ELSE found[i]) \in Neighbor
  BY <1>3, <1>4
<1>6. new \in Seq(Neighbor) /\ Len(new) = Len(found)
  BY <1>2, <1>4, <1>5
<1> QED  BY <1>2, <1>6 DEF found, new

(* What AverageWithinGaps says of one entry and the gaps seen of it. *)
Within(avg, seen) ==
  /\ \E g \in seen : avg <= g * U
  /\ \E g \in seen : (g * U - avg) * A < U

(* Hearing a frame keeps the average of an entry within the gaps, the one  *)
(* it shows included.                                                      *)
LEMMA WithinKept ==
  ASSUME NEW n \in Neighbor, NEW m \in Uint8, NEW seen \in SUBSET Uint8,
         \/ Within(n.avg_seqno_gap, seen)
         \/ n.avg_seqno_gap = U /\ SeqnoGap(n, m) = 1
  PROVE  Within(Updated(n, m).avg_seqno_gap, seen \cup {SeqnoGap(n, m)})
<1> DEFINE avg == n.avg_seqno_gap
           gap == SeqnoGap(n, m)
           new == Average(avg, gap)
<1>1. /\ avg \in Nat /\ n.last_seqno \in Uint8
      /\ U \in Nat \ {0} /\ A \in Nat \ {0}
  BY NeighborsAssumption DEF Neighbor, U, A
<1>2. gap \in Nat
  BY <1>1, Modulo DEF SeqnoGap, Uint8
<1>3. Updated(n, m).avg_seqno_gap = new
  BY DEF Updated, Neighbor
<1>4. seen \subseteq Nat
  BY DEF Uint8
<1> HIDE DEF gap, avg
<1>5. PICK hi \in seen \cup {gap} : gap <= hi /\ avg <= hi * U
  <2>1. CASE Within(avg, seen)
    <3>1. PICK g \in seen : avg <= g * U
      BY <2>1 DEF Within
    <3>2. CASE gap <= g
      BY <3>1, <3>2
    <3>3. CASE ~(gap <= g)
      <4>1. g * U <= gap * U
        BY <3>3, <1>1, <1>2, <1>4
      <4> QED  BY <4>1, <3>1, <1>1, <1>2, <1>4
    <3> QED  BY <3>2, <3>3
  <2>2. CASE avg = U /\ gap = 1
    BY <2>2, <1>1
  <2> QED  BY <2>1, <2>2 DEF avg, gap
<1>6. PICK lo \in seen \cup {gap} : lo <= gap /\ (lo * U - avg) * A < U
  <2>1. CASE Within(avg, seen)
    <3>1. PICK g \in seen : (g * U - avg) * A < U
      BY <2>1 DEF Within
    <3>2. CASE g <= gap
      BY <3>1, <3>2
    <3>3. CASE ~(g <= gap)
      <4>1. gap * U - avg <= g * U - avg
        BY <3>3, <1>1, <1>2, <1>4
      <4>2. (gap * U - avg) * A <= (g * U - avg) * A
        BY <4>1, <1>1, <1>2, <1>4
      <4> QED  BY <4>2, <3>1, <1>1, <1>2, <1>4
    <3> QED  BY <3>2, <3>3
  <2>2. CASE avg = U /\ gap = 1
    <3>1. (1 * U - U) * A = 0
      BY <1>1
    <3> QED  BY <2>2, <3>1, <1>1
  <2> QED  BY <2>1, <2>2 DEF avg, gap
<1>7. hi \in Nat /\ lo \in Nat
  BY <1>2, <1>4
<1>8. new <= hi * U /\ (lo * U - new) * A < U
  BY <1>1, <1>2, <1>5, <1>6, <1>7, AverageBounds
<1>9. Within(new, seen \cup {gap})
  BY <1>8 DEF Within
<1> QED  BY <1>3, <1>9 DEF gap

-----------------------------------------------------------------------------
(***************************************************************************)
(* The network.                                                            *)
(***************************************************************************)

IInv == NeighborsTypeOK /\ AverageWithinGaps

(* The invariant holds initially. *)
LEMMA InitIInv == Init => IInv
<1> SUFFICES ASSUME Init PROVE IInv
  OBVIOUS
<1>1. NeighborsTypeOK
  BY NeighborsAssumption DEF Init, NeighborsTypeOK, Uint8
<1>2. AverageWithinGaps
  BY DEF Init, AverageWithinGaps
<1> QED  BY <1>1, <1>2 DEF IInv

(* The types after a broadcast. *)
LEMMA BroadcastTypes ==
  ASSUME NeighborsTypeOK, NEW s \in Node, NEW R \in SUBSET InRange(s),
         Broadcast(s, R)
  PROVE  NeighborsTypeOK'
<1> DEFINE hearing == {r \in R : Hears(r, s)}
<1>1. seqno[s] \in Uint8 /\ R \subseteq Node
  BY DEF NeighborsTypeOK, InRange
<1>2. seqno' \in [Node -> Uint8]
  <2>1. \A x \in Uint8 : (x + 1) % IdSpace \in Uint8
    BY Modulo DEF Uint8
  <2> QED  BY <2>1 DEF Broadcast, NeighborsTypeOK
<1>3. /\ neighbors_list' \in [Node -> Seq(Neighbor)]
      /\ \A r \in Node : Len(neighbors_list[r])' <= MAX_NEIGHBORS
  <2>1. ASSUME NEW r \in Node
        PROVE  /\ neighbors_list'[r] \in Seq(Neighbor)
               /\ Len(neighbors_list'[r]) <= MAX_NEIGHBORS
    <3>1. /\ neighbors_list[r] \in Seq(Neighbor)
          /\ Len(neighbors_list[r]) <= MAX_NEIGHBORS
      BY DEF NeighborsTypeOK
    <3>2. CASE r \in hearing
      <4>1. neighbors_list'[r] = broadcast_recv(neighbors_list[r], s, seqno[s])
        BY <3>2 DEF Broadcast
      <4>2. \/ \E i \in DOMAIN neighbors_list[r] : neighbors_list[r][i].addr = s
            \/ Len(neighbors_list[r]) < MAX_NEIGHBORS
        BY <3>2 DEF Hears, Known
      <4> DEFINE list == neighbors_list[r]
      <4> DEFINE m == seqno[s]
      <4>3. list \in Seq(Neighbor) /\ m \in Uint8
        BY <3>1, <1>1
      <4> HIDE DEF list, m
      <4>5. /\ broadcast_recv(list, s, m) \in Seq(Neighbor)
            /\ Len(broadcast_recv(list, s, m)) =
                 IF \E i \in DOMAIN list : list[i].addr = s THEN Len(list)
                                                           ELSE Len(list) + 1
        <5>1. Len(broadcast_recv(list, s, m)) = Len(WithEntry(list, s, m))
          BY <4>3, TableType
        <5>2. Len(WithEntry(list, s, m)) =
                IF \E i \in DOMAIN list : list[i].addr = s THEN Len(list)
                                                          ELSE Len(list) + 1
          BY <4>3, TableType
        <5>3. broadcast_recv(list, s, m) \in Seq(Neighbor)
          BY <4>3, TableType
        <5> QED  BY <5>1, <5>2, <5>3
      <4>4. Len(list) \in Nat /\ MAX_NEIGHBORS \in Nat
        BY <3>1, NeighborsAssumption DEF list
      <4>6. Len(broadcast_recv(list, s, m)) <= MAX_NEIGHBORS
        BY <4>2, <4>5, <4>4, <3>1 DEF list
      <4> QED  BY <4>1, <4>5, <4>6 DEF list, m
    <3>3. CASE r \notin hearing
      <4>1. neighbors_list'[r] = neighbors_list[r]
        BY <3>3 DEF Broadcast
      <4> QED  BY <4>1, <3>1
    <3> QED  BY <3>2, <3>3
  <2>2. neighbors_list' = [r \in Node |-> neighbors_list'[r]]
    BY DEF Broadcast
  <2> QED  BY <2>1, <2>2
<1>4. missed' \in [Node -> [Node -> Uint8]]
  <2>1. 0 \in Uint8 /\ \A x \in Uint8 : (x + 1) % IdSpace \in Uint8
    BY Modulo, NeighborsAssumption DEF Uint8
  <2> QED  BY <2>1 DEF Broadcast, NeighborsTypeOK
<1>5. gaps' \in [Node -> [Node -> SUBSET Uint8]]
  <2>1. ASSUME NEW r \in Node
        PROVE  GapsSeen(neighbors_list[r], s, seqno[s]) \in SUBSET Uint8
    <3> DEFINE found == WithEntry(neighbors_list[r], s, seqno[s])
    <3>1. found \in Seq(Neighbor)
      BY <1>1, TableType DEF NeighborsTypeOK
    <3> HIDE DEF found
    <3>2. \A i \in DOMAIN found : found[i].last_seqno \in Uint8
      <4>1. \A i \in DOMAIN found : found[i] \in Neighbor
        BY <3>1
      <4> QED  BY <4>1 DEF Neighbor
    <3>3. \A i \in DOMAIN found : SeqnoGap(found[i], seqno[s]) \in Uint8
      BY <3>2, <1>1, Modulo DEF SeqnoGap, Uint8
    <3> QED  BY <3>3 DEF GapsSeen, found
  <2>2. \A r \in Node : gaps[r] \in [Node -> SUBSET Uint8]
    BY DEF NeighborsTypeOK
  <2> QED  BY <2>1, <2>2 DEF Broadcast
<1>6. restarted' \in SUBSET (Node \X Node)
  BY DEF Broadcast, NeighborsTypeOK
<1> QED
  BY <1>2, <1>3, <1>4, <1>5, <1>6 DEF Broadcast, NeighborsTypeOK

(* A broadcast keeps the averages within the gaps. *)
LEMMA BroadcastAverages ==
  ASSUME IInv, NEW s \in Node, NEW R \in SUBSET InRange(s), Broadcast(s, R)
  PROVE  AverageWithinGaps'
<1> DEFINE hearing == {r \in R : Hears(r, s)}
<1> SUFFICES ASSUME NEW r \in Node, NEW i \in DOMAIN neighbors_list'[r]
             PROVE  Within(neighbors_list'[r][i].avg_seqno_gap,
                           gaps'[r][neighbors_list'[r][i].addr])
  BY DEF AverageWithinGaps, Within, U, A
<1>1. /\ neighbors_list[r] \in Seq(Neighbor)
      /\ gaps[r] \in [Node -> SUBSET Uint8]
      /\ seqno[s] \in Uint8
  BY DEF IInv, NeighborsTypeOK
<1>2. \A j \in DOMAIN neighbors_list[r] :
        Within(neighbors_list[r][j].avg_seqno_gap, gaps[r][neighbors_list[r][j].addr])
  BY DEF IInv, AverageWithinGaps, Within, U, A
<1>3. CASE r \in hearing
  <2> DEFINE found == WithEntry(neighbors_list[r], s, seqno[s])
             seen == GapsSeen(neighbors_list[r], s, seqno[s])
  <2>1. /\ neighbors_list'[r] = broadcast_recv(neighbors_list[r], s, seqno[s])
        /\ gaps'[r] = [gaps[r] EXCEPT ![s] = @ \cup seen]
    BY <1>3 DEF Broadcast
  <2>2. found \in Seq(Neighbor)
    BY <1>1, TableType
  <2>3. /\ i \in DOMAIN found
        /\ neighbors_list'[r][i] =
             IF found[i].addr = s THEN Updated(found[i], seqno[s]) ELSE found[i]
    BY <2>1, <2>2 DEF broadcast_recv
  <2>4. \/ i \in DOMAIN neighbors_list[r] /\ found[i] = neighbors_list[r][i]
        \/ found[i] = NewNeighbor(s, seqno[s])
    BY <1>1, <2>3 DEF WithEntry
  <2>5. found[i] \in Neighbor
    BY <2>2, <2>3
  <2>6. CASE found[i].addr = s
    <3>1. SeqnoGap(found[i], seqno[s]) \in seen
      BY <2>3, <2>6 DEF GapsSeen
    <3>2. \/ Within(found[i].avg_seqno_gap, gaps[r][s])
          \/ found[i].avg_seqno_gap = U /\ SeqnoGap(found[i], seqno[s]) = 1
      BY <2>4, <2>6, <1>1, <1>2, FirstGap
    <3>3. Within(Updated(found[i], seqno[s]).avg_seqno_gap,
                 gaps[r][s] \cup {SeqnoGap(found[i], seqno[s])})
      BY <3>2, <2>5, <1>1, WithinKept
    <3>4. gaps'[r][s] = gaps[r][s] \cup seen
      BY <2>1, <1>1
    <3>5. Within(Updated(found[i], seqno[s]).avg_seqno_gap, gaps'[r][s])
      BY <3>1, <3>3, <3>4 DEF Within
    <3>6. Updated(found[i], seqno[s]).addr = s
      BY <2>5, <2>6 DEF Updated, Neighbor
    <3> QED  BY <3>5, <3>6, <2>3, <2>6
  <2>7. CASE found[i].addr # s
    <3>1. i \in DOMAIN neighbors_list[r] /\ found[i] = neighbors_list[r][i]
      BY <2>4, <2>7, <1>1, FirstGap
    <3>2. gaps'[r][found[i].addr] = gaps[r][found[i].addr]
      BY <2>1, <2>5, <2>7, <1>1 DEF Neighbor
    <3> QED  BY <3>1, <3>2, <2>3, <2>7, <1>2
  <2> QED  BY <2>6, <2>7
<1>4. CASE r \notin hearing
  <2>1. neighbors_list'[r] = neighbors_list[r] /\ gaps'[r] = gaps[r]
    BY <1>4, <1>1 DEF Broadcast
  <2> QED  BY <2>1, <1>2
<1> QED  BY <1>3, <1>4

(* The invariant is inductive: only a broadcast adds to tables, averages   *)
(* and gaps, and only a restart takes away from them.                      *)
LEMMA NextIInv == IInv /\ [Next]_vars => IInv'
<1> SUFFICES ASSUME IInv, [Next]_vars PROVE IInv'
  OBVIOUS
<1> USE DEF IInv
<1>1. ASSUME NEW n \in Node, NEW R \in SUBSET InRange(n), Broadcast(n, R)
      PROVE  IInv'
  BY <1>1, BroadcastTypes, BroadcastAverages
<1>2. ASSUME NEW n \in Node, NEW i \in DOMAIN neighbors_list[n], Ping(n, i)
      PROVE  IInv'
  <2>1. unicasts' \in SUBSET Unicast
    <3>1. neighbors_list[n][i] \in Neighbor
      BY DEF NeighborsTypeOK
    <3>2. [type |-> "ping", from |-> n, to |-> neighbors_list[n][i].addr] \in Unicast
      BY <3>1 DEF Neighbor, Unicast
    <3> QED  BY <1>2, <3>2 DEF Ping, NeighborsTypeOK
  <2>2. NeighborsTypeOK'
    BY <1>2, <2>1 DEF Ping, NeighborsTypeOK, histories
  <2>3. AverageWithinGaps'
    BY <1>2 DEF Ping, AverageWithinGaps, histories
  <2> QED  BY <2>2, <2>3
<1>3. ASSUME NEW n \in Node, Reboot(n)
      PROVE  IInv'
  <2>1. reboots' \in 0 .. MaxReboots
    BY <1>3, NeighborsAssumption DEF Reboot, NeighborsTypeOK
  <2>2. /\ seqno' \in [Node -> Uint8]
        /\ missed' \in [Node -> [Node -> Uint8]]
    <3>1. 0 \in Uint8
      BY NeighborsAssumption DEF Uint8
    <3> QED  BY <1>3, <3>1 DEF Reboot, NeighborsTypeOK
  <2>3. /\ neighbors_list' \in [Node -> Seq(Neighbor)]
        /\ \A r \in Node : Len(neighbors_list'[r]) <= MAX_NEIGHBORS
    BY <1>3, NeighborsAssumption DEF Reboot, NeighborsTypeOK
  <2>4. /\ gaps' \in [Node -> [Node -> SUBSET Uint8]]
        /\ restarted' \in SUBSET (Node \X Node)
        /\ unicasts' \in SUBSET Unicast
    BY <1>3 DEF Reboot, NeighborsTypeOK
  <2>5. NeighborsTypeOK'
    BY <2>1, <2>2, <2>3, <2>4 DEF NeighborsTypeOK
  <2>6. AverageWithinGaps'
    <3>1. ASSUME NEW r \in Node, r # n
          PROVE  neighbors_list'[r] = neighbors_list[r] /\ gaps'[r] = gaps[r]
      BY <1>3, <3>1 DEF Reboot, NeighborsTypeOK
    <3>2. neighbors_list'[n] = <<>>
      BY <1>3 DEF Reboot, NeighborsTypeOK
    <3> QED  BY <3>1, <3>2 DEF AverageWithinGaps
  <2> QED  BY <2>5, <2>6
<1>4. ASSUME NEW u \in unicasts, Arrive(u) \/ Lose(u)
      PROVE  IInv'
  <2>1. unicasts' \in SUBSET Unicast
    <3>1. u \in Unicast
      BY DEF NeighborsTypeOK
    <3>2. recv_uc(u) \in SUBSET Unicast
      BY <3>1 DEF recv_uc, Unicast
    <3> QED  BY <1>4, <3>2 DEF Arrive, Lose, NeighborsTypeOK
  <2>2. NeighborsTypeOK'
    BY <1>4, <2>1 DEF Arrive, Lose, NeighborsTypeOK, histories
  <2>3. AverageWithinGaps'
    BY <1>4 DEF Arrive, Lose, AverageWithinGaps, histories
  <2> QED  BY <2>2, <2>3
<1>5. CASE UNCHANGED vars
  BY <1>5 DEF vars, histories, NeighborsTypeOK, AverageWithinGaps
<1> QED
  BY <1>1, <1>2, <1>3, <1>4, <1>5 DEF Next

(* The type invariant: a table never exceeds its pool, and every number    *)
(* stays in its width, whatever is lost and whoever restarts.              *)
THEOREM NeighborsTypeCorrect == Spec => []NeighborsTypeOK
<1>1. IInv => NeighborsTypeOK
  BY DEF IInv
<1> QED  BY <1>1, InitIInv, NextIInv, PTL DEF Spec

(* The moving average of a neighbour stays between the smallest and the    *)
(* largest gap seen of it, but for a rounding loss below UNITY / ALPHA,    *)
(* for every weight and over any number of broadcasts.                     *)
THEOREM AverageTheorem == Spec => []AverageWithinGaps
<1>1. IInv => AverageWithinGaps
  BY DEF IInv
<1> QED  BY <1>1, InitIInv, NextIInv, PTL DEF Spec

-----------------------------------------------------------------------------
(***************************************************************************)
(* The gaps count what is lost.                                            *)
(***************************************************************************)

(* One more frame makes a gap one larger, in uint8_t.                      *)
LEMMA GapGrows ==
  ASSUME NEW x \in Uint8, NEW l \in Uint8
  PROVE  (((x + 1) % IdSpace) - l) % IdSpace = (((x - l) % IdSpace) + 1) % IdSpace
<1>1. x \in Int /\ l \in Int /\ IdSpace \in Nat /\ IdSpace >= 2
      /\ 0 <= x /\ x < IdSpace /\ 0 <= l /\ l < IdSpace
  BY NeighborsAssumption DEF Uint8
<1>2. CASE x + 1 < IdSpace
  <2>1. (x + 1) % IdSpace = x + 1
    BY <1>1, <1>2, Modulo DEF Uint8
  <2>2. CASE l <= x
    <3>1. (x - l) % IdSpace = x - l
      BY <1>1, <2>2, Modulo DEF Uint8
    <3> QED  BY <2>1, <3>1, <1>1
  <2>3. CASE x < l
    <3>1. (x - l) % IdSpace = x - l + IdSpace
      BY <1>1, <2>3, Modulo DEF Uint8
    <3>2. CASE x + 1 = l
      <4>1. IdSpace % IdSpace = 0 /\ 0 % IdSpace = 0
        BY <1>1, SMT
      <4>2. ((x + 1) % IdSpace) - l = 0
        BY <1>1, <2>1, <3>2
      <4>3. ((x - l) % IdSpace) + 1 = IdSpace
        BY <1>1, <3>1, <3>2
      <4> QED  BY <4>1, <4>2, <4>3
    <3>3. CASE x + 1 < l
      <4>1. (x + 1 - l) % IdSpace = x + 1 - l + IdSpace
        BY <1>1, <3>3, Modulo DEF Uint8
      <4>2. (x - l + IdSpace + 1) % IdSpace = x - l + IdSpace + 1
        BY <1>1, <3>3, Modulo DEF Uint8
      <4> QED  BY <2>1, <3>1, <4>1, <4>2, <1>1
    <3> QED  BY <3>2, <3>3, <2>3, <1>1
  <2> QED  BY <2>2, <2>3, <1>1
<1>3. CASE x + 1 = IdSpace
  <2>1. (x + 1) % IdSpace = 0
    BY <1>1, <1>3, SMT
  <2>2. (x - l) % IdSpace = x - l
    BY <1>1, <1>3, Modulo DEF Uint8
  <2>3. x - l + 1 = (0 - l) + IdSpace
    BY <1>1, <1>3
  <2>4. CASE l = 0
    BY <2>1, <2>2, <2>4, <1>1, <1>3, SMT
  <2>5. CASE l > 0
    <3>1. (0 - l) % IdSpace = 0 - l + IdSpace
      BY <1>1, <2>5, Modulo DEF Uint8
    <3>2. (x - l + 1) % IdSpace = x - l + 1
      BY <1>1, <1>3, <2>5, Modulo DEF Uint8
    <3> QED  BY <2>1, <2>2, <2>3, <3>1, <3>2
  <2> QED  BY <2>4, <2>5, <1>1
<1> QED  BY <1>1, <1>2, <1>3

(* A broadcast keeps the gaps in step with the losses. *)
LEMMA BroadcastGaps ==
  ASSUME IInv, GapCountsMissed, NEW s \in Node, NEW R \in SUBSET InRange(s),
         Broadcast(s, R)
  PROVE  GapCountsMissed'
<1> DEFINE hearing == {r \in R : Hears(r, s)}
           Step(l, q, miss) == (q - l) % IdSpace = (miss + 1) % IdSpace
<1> SUFFICES ASSUME NEW r \in Node, NEW i \in DOMAIN neighbors_list'[r],
                    <<r, neighbors_list'[r][i].addr>> \notin restarted'
             PROVE  Step(neighbors_list'[r][i].last_seqno,
                         seqno'[neighbors_list'[r][i].addr],
                         missed'[r][neighbors_list'[r][i].addr])
  BY DEF GapCountsMissed, SeqnoGap
<1>1. /\ neighbors_list[r] \in Seq(Neighbor)
      /\ missed[r] \in [Node -> Uint8]
      /\ seqno \in [Node -> Uint8]
      /\ seqno[s] \in Uint8
  BY DEF IInv, NeighborsTypeOK
<1>2. /\ seqno' = [seqno EXCEPT ![s] = (seqno[s] + 1) % IdSpace]
      /\ restarted' = restarted \ (hearing \X {s})
  BY DEF Broadcast
<1>3. CASE r \in hearing
  <2> DEFINE found == WithEntry(neighbors_list[r], s, seqno[s])
  <2>1. /\ neighbors_list'[r] = broadcast_recv(neighbors_list[r], s, seqno[s])
        /\ missed'[r] = [missed[r] EXCEPT ![s] = 0]
    BY <1>3 DEF Broadcast
  <2>2. found \in Seq(Neighbor)
    BY <1>1, TableType
  <2>3. /\ i \in DOMAIN found
        /\ neighbors_list'[r][i] =
             IF found[i].addr = s THEN Updated(found[i], seqno[s]) ELSE found[i]
    BY <2>1, <2>2 DEF broadcast_recv
  <2>4. found[i] \in Neighbor
    BY <2>2, <2>3
  <2>5. CASE found[i].addr = s
    <3>1. /\ neighbors_list'[r][i].addr = s
          /\ neighbors_list'[r][i].last_seqno = seqno[s]
      BY <2>3, <2>4, <2>5 DEF Updated, Neighbor
    <3>2. missed'[r][s] = 0 /\ seqno'[s] = (seqno[s] + 1) % IdSpace
      BY <2>1, <1>1, <1>2
    <3>3. (seqno[s] - seqno[s]) % IdSpace = 0
      BY <1>1, Modulo, NeighborsAssumption DEF Uint8
    <3>4. Step(seqno[s], (seqno[s] + 1) % IdSpace, 0)
      BY <1>1, <3>3, GapGrows
    <3> QED  BY <3>1, <3>2, <3>4
  <2>6. CASE found[i].addr # s
    <3>1. i \in DOMAIN neighbors_list[r] /\ found[i] = neighbors_list[r][i]
      BY <2>3, <2>6, <1>1, FirstGap DEF WithEntry
    <3>2. found[i].addr \in Node
      BY <2>4 DEF Neighbor
    <3>3. /\ missed'[r][found[i].addr] = missed[r][found[i].addr]
          /\ seqno'[found[i].addr] = seqno[found[i].addr]
          /\ <<r, found[i].addr>> \notin restarted
      BY <2>1, <2>3, <2>6, <3>2, <1>1, <1>2
    <3> QED  BY <3>1, <3>3, <2>3, <2>6 DEF GapCountsMissed, SeqnoGap
  <2> QED  BY <2>5, <2>6
<1>4. CASE r \notin hearing
  <2>1. neighbors_list'[r] = neighbors_list[r]
    BY <1>4 DEF Broadcast
  <2> DEFINE n == neighbors_list[r][i]
  <2>2. n \in Neighbor /\ i \in DOMAIN neighbors_list[r]
    BY <2>1, <1>1
  <2>3. n.addr \in Node /\ n.last_seqno \in Uint8
    BY <2>2 DEF Neighbor
  <2>4. Step(n.last_seqno, seqno[n.addr], missed[r][n.addr])
    BY <2>1, <2>2, <1>2, <1>4 DEF GapCountsMissed, SeqnoGap
  <2> HIDE DEF n
  <2>5. CASE n.addr = s
    <3>1. s \in Known(r)
      BY <2>2, <2>5 DEF Known, n
    <3>2. missed'[r][s] = (missed[r][s] + 1) % IdSpace
      BY <3>1, <1>4, <1>1 DEF Broadcast
    <3>3. seqno'[s] = (seqno[s] + 1) % IdSpace
      BY <1>1, <1>2
    <3>4. Step(n.last_seqno, seqno'[s], missed'[r][s])
      BY <2>3, <2>4, <2>5, <3>2, <3>3, <1>1, GapGrows
    <3> QED  BY <3>4, <2>1, <2>5 DEF n
  <2>6. CASE n.addr # s
    <3>1. missed'[r][n.addr] = missed[r][n.addr] /\ seqno'[n.addr] = seqno[n.addr]
      BY <2>3, <2>6, <1>1, <1>2 DEF Broadcast
    <3> QED  BY <3>1, <2>1, <2>4 DEF n
  <2> QED  BY <2>5, <2>6
<1> QED  BY <1>3, <1>4

(* The gap of the next frame counts what the radio lost since the last one *)
(* heard, for every width of the numbers, unless the sender restarts.      *)
THEOREM GapTheorem == Spec => []GapCountsMissed
<1>1. Init => GapCountsMissed
  BY DEF Init, GapCountsMissed
<1>2. ASSUME IInv, GapCountsMissed, [Next]_vars
      PROVE  GapCountsMissed'
  <2>1. ASSUME NEW n \in Node, NEW R \in SUBSET InRange(n), Broadcast(n, R)
        PROVE  GapCountsMissed'
    BY <1>2, <2>1, BroadcastGaps
  <2>2. ASSUME NEW n \in Node, NEW i \in DOMAIN neighbors_list[n], Ping(n, i)
        PROVE  GapCountsMissed'
    BY <1>2, <2>2 DEF Ping, histories, GapCountsMissed
  <2>3. ASSUME NEW n \in Node, Reboot(n)
        PROVE  GapCountsMissed'
    <3> SUFFICES ASSUME NEW r \in Node, NEW i \in DOMAIN neighbors_list'[r],
                        <<r, neighbors_list'[r][i].addr>> \notin restarted'
                 PROVE  SeqnoGap(neighbors_list'[r][i], seqno'[neighbors_list'[r][i].addr])
                          = (missed'[r][neighbors_list'[r][i].addr] + 1) % IdSpace
      BY DEF GapCountsMissed
    <3>1. neighbors_list'[n] = <<>>
      BY <1>2, <2>3 DEF Reboot, IInv, NeighborsTypeOK
    <3>2. r # n
      BY <3>1
    <3>3. neighbors_list'[r] = neighbors_list[r] /\ missed'[r] = missed[r]
      BY <3>2, <1>2, <2>3 DEF Reboot, IInv, NeighborsTypeOK
    <3>4. neighbors_list[r][i].addr \in Known(r)
      BY <3>3 DEF Known
    <3>5. neighbors_list[r][i].addr # n
      BY <3>2, <3>3, <3>4, <2>3 DEF Reboot
    <3>6. neighbors_list[r][i].addr \in Node
      <4>1. neighbors_list[r] \in Seq(Neighbor) /\ i \in DOMAIN neighbors_list[r]
        BY <1>2, <3>3 DEF IInv, NeighborsTypeOK
      <4>2. neighbors_list[r][i] \in Neighbor
        BY <4>1
      <4> QED  BY <4>2 DEF Neighbor
    <3>7. seqno'[neighbors_list[r][i].addr] = seqno[neighbors_list[r][i].addr]
      BY <3>5, <3>6, <1>2, <2>3 DEF Reboot, IInv, NeighborsTypeOK
    <3>8. <<r, neighbors_list[r][i].addr>> \notin restarted
      BY <3>2, <3>3, <2>3 DEF Reboot
    <3> QED  BY <3>3, <3>7, <3>8, <1>2 DEF GapCountsMissed
  <2>4. ASSUME NEW u \in unicasts, Arrive(u) \/ Lose(u)
        PROVE  GapCountsMissed'
    BY <1>2, <2>4 DEF Arrive, Lose, histories, GapCountsMissed
  <2>5. CASE UNCHANGED vars
    BY <1>2, <2>5 DEF vars, histories, GapCountsMissed, SeqnoGap
  <2> QED  BY <1>2, <2>1, <2>2, <2>3, <2>4, <2>5 DEF Next
<1> QED  BY <1>1, <1>2, InitIInv, NextIInv, PTL DEF Spec

-----------------------------------------------------------------------------
(***************************************************************************)
(* Pings and pongs.                                                        *)
(***************************************************************************)

(* A table holds nodes that are in range. *)
HeardInv ==
  \A r \in Node : \A i \in DOMAIN neighbors_list[r] :
    <<neighbors_list[r][i].addr, r>> \in Links

(* A node has one message of its exchange on its way, and its ping goes to *)
(* a node it can hear.                                                     *)
ExchangeInv ==
  \A n \in Node :
    /\ \A u, v \in Exchange(n) : u = v
    /\ \A u \in Exchange(n) : u.type = "ping" => <<u.to, n>> \in Links

(* A broadcast puts its sender into the tables of nodes in range.          *)
LEMMA BroadcastHeard ==
  ASSUME NeighborsTypeOK, HeardInv, NEW s \in Node, NEW R \in SUBSET InRange(s),
         Broadcast(s, R)
  PROVE  HeardInv'
<1> DEFINE hearing == {r \in R : Hears(r, s)}
<1> SUFFICES ASSUME NEW r \in Node, NEW i \in DOMAIN neighbors_list'[r]
             PROVE  <<neighbors_list'[r][i].addr, r>> \in Links
  BY DEF HeardInv
<1>1. neighbors_list[r] \in Seq(Neighbor) /\ seqno[s] \in Uint8
  BY DEF NeighborsTypeOK
<1>2. CASE r \in hearing
  <2> DEFINE found == WithEntry(neighbors_list[r], s, seqno[s])
  <2>1. neighbors_list'[r] = broadcast_recv(neighbors_list[r], s, seqno[s])
    BY <1>2 DEF Broadcast
  <2>2. found \in Seq(Neighbor)
    BY <1>1, TableType
  <2>3. /\ i \in DOMAIN found
        /\ neighbors_list'[r][i] =
             IF found[i].addr = s THEN Updated(found[i], seqno[s]) ELSE found[i]
    BY <2>1, <2>2 DEF broadcast_recv
  <2>4. found[i] \in Neighbor
    BY <2>2, <2>3
  <2>5. neighbors_list'[r][i].addr = found[i].addr
    BY <2>3, <2>4 DEF Updated, Neighbor
  <2>6. <<s, r>> \in Links
    BY <1>2 DEF InRange
  <2>7. CASE found[i].addr # s
    <3>1. i \in DOMAIN neighbors_list[r] /\ found[i] = neighbors_list[r][i]
      BY <2>3, <2>7, <1>1, FirstGap DEF WithEntry
    <3> QED  BY <2>5, <3>1 DEF HeardInv
  <2> QED  BY <2>5, <2>6, <2>7
<1>3. CASE r \notin hearing
  <2>1. neighbors_list'[r] = neighbors_list[r]
    BY <1>3 DEF Broadcast
  <2> QED  BY <2>1 DEF HeardInv
<1> QED  BY <1>2, <1>3

(* A node starts an exchange after the last one, with a node it has heard. *)
LEMMA PingStarts ==
  ASSUME NeighborsTypeOK, HeardInv, ExchangeInv, NEW n \in Node,
         NEW i \in DOMAIN neighbors_list[n], Ping(n, i)
  PROVE  ExchangeInv'
<1> DEFINE ping == [type |-> "ping", from |-> n, to |-> neighbors_list[n][i].addr]
<1>1. unicasts' = unicasts \cup {ping} /\ Exchange(n) = {}
  BY DEF Ping
<1>2. ping.type = "ping" /\ ping.from = n /\ <<ping.to, n>> \in Links
  BY DEF HeardInv
<1> HIDE DEF ping
<1>3. Exchange(n)' = {ping}
  BY <1>1, <1>2 DEF Exchange
<1>4. \A m \in Node \ {n} : Exchange(m)' = Exchange(m)
  BY <1>1, <1>2 DEF Exchange
<1> QED  BY <1>2, <1>3, <1>4 DEF ExchangeInv

(* A ping that arrives becomes the pong of its exchange, a pong ends it.   *)
LEMMA ArriveTurns ==
  ASSUME NeighborsTypeOK, ExchangeInv, NEW u \in unicasts, Arrive(u)
  PROVE  ExchangeInv'
<1>1. u \in Unicast /\ unicasts' = (unicasts \ {u}) \cup recv_uc(u)
  BY DEF NeighborsTypeOK, Arrive
<1>2. CASE u.type = "ping"
  <2> DEFINE pong == [type |-> "pong", from |-> u.to, to |-> u.from]
  <2>1. unicasts' = (unicasts \ {u}) \cup {pong}
    BY <1>1, <1>2 DEF recv_uc
  <2>2. pong.type = "pong" /\ pong.to = u.from
    OBVIOUS
  <2> HIDE DEF pong
  <2>3. u \in Exchange(u.from) /\ u.from \in Node
    BY <1>1, <1>2 DEF Exchange, Unicast
  <2>4. Exchange(u.from) = {u}
    BY <2>3 DEF ExchangeInv
  <2>5. Exchange(u.from)' = {pong}
    BY <1>2, <2>1, <2>2, <2>4 DEF Exchange
  <2>6. \A m \in Node \ {u.from} : Exchange(m)' = Exchange(m)
    BY <1>2, <2>1, <2>2 DEF Exchange
  <2> QED  BY <2>2, <2>5, <2>6 DEF ExchangeInv
<1>3. CASE u.type # "ping"
  <2>1. unicasts' \subseteq unicasts
    BY <1>1, <1>3 DEF recv_uc
  <2>2. \A m \in Node : Exchange(m)' \subseteq Exchange(m)
    BY <2>1 DEF Exchange
  <2> QED  BY <2>2 DEF ExchangeInv
<1> QED  BY <1>2, <1>3

LEMMA ExchangeStep ==
  NeighborsTypeOK /\ HeardInv /\ ExchangeInv /\ [Next]_vars
    => HeardInv' /\ ExchangeInv'
<1> SUFFICES ASSUME NeighborsTypeOK, HeardInv, ExchangeInv, [Next]_vars
             PROVE  HeardInv' /\ ExchangeInv'
  OBVIOUS
<1>1. ASSUME UNCHANGED neighbors_list PROVE HeardInv'
  BY <1>1 DEF HeardInv
<1>2. ASSUME unicasts' \subseteq unicasts PROVE ExchangeInv'
  <2>1. \A m \in Node : Exchange(m)' \subseteq Exchange(m)
    BY <1>2 DEF Exchange
  <2> QED  BY <2>1 DEF ExchangeInv
<1>3. ASSUME NEW n \in Node, NEW R \in SUBSET InRange(n), Broadcast(n, R)
      PROVE  HeardInv' /\ ExchangeInv'
  BY <1>2, <1>3, BroadcastHeard DEF Broadcast
<1>4. ASSUME NEW n \in Node, NEW i \in DOMAIN neighbors_list[n], Ping(n, i)
      PROVE  HeardInv' /\ ExchangeInv'
  BY <1>1, <1>4, PingStarts DEF Ping
<1>5. ASSUME NEW n \in Node, Reboot(n)
      PROVE  HeardInv' /\ ExchangeInv'
  <2>1. \A r \in Node : neighbors_list'[r] \in {neighbors_list[r], <<>>}
    BY <1>5 DEF Reboot, NeighborsTypeOK
  <2>2. HeardInv'
    BY <2>1 DEF HeardInv
  <2> QED  BY <1>2, <1>5, <2>2 DEF Reboot
<1>6. ASSUME NEW u \in unicasts, Arrive(u) \/ Lose(u)
      PROVE  HeardInv' /\ ExchangeInv'
  BY <1>1, <1>2, <1>6, ArriveTurns DEF Arrive, Lose
<1>7. CASE UNCHANGED vars
  BY <1>1, <1>2, <1>7 DEF vars
<1> QED  BY <1>3, <1>4, <1>5, <1>6, <1>7 DEF Next

(* An exchange is one ping and then one pong, in every network and however *)
(* pings cross: a pong is not answered, and a ping goes to a node that was *)
(* heard.                                                                  *)
THEOREM ExchangesTheorem == Spec => []ExchangesDieOut
<1>1. Init => HeardInv /\ ExchangeInv
  BY DEF Init, HeardInv, ExchangeInv, Exchange
<1>2. ExchangeInv => ExchangesDieOut
  <2> SUFFICES ASSUME ExchangeInv, NEW n \in Node
               PROVE  Cardinality(Exchange(n)) <= 1
    BY DEF ExchangeInv, ExchangesDieOut
  <2>1. CASE Exchange(n) = {}
    BY <2>1, FS_EmptySet
  <2>2. CASE Exchange(n) # {}
    <3>1. PICK u \in Exchange(n) : Exchange(n) = {u}
      BY <2>2 DEF ExchangeInv
    <3> QED  BY <3>1, FS_Singleton
  <2> QED  BY <2>1, <2>2
<1>3. Spec => [](HeardInv /\ ExchangeInv)
  BY <1>1, ExchangeStep, NeighborsTypeCorrect, PTL DEF Spec
<1> QED  BY <1>2, <1>3, PTL
=============================================================================
