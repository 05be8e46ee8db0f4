------------------------------ MODULE Runicast ------------------------------
(***************************************************************************)
(* rime/example-runicast.c: every node but 1.0 sends it a message every    *)
(* ten seconds, unless the last one is still being retransmitted.  Lost    *)
(* acknowledgements make Contiki hand a message to the program again; a    *)
(* history of the last number of each sender tells such a duplicate.       *)
(*                                                                         *)
(* Contiki's runicast, which is not in the repository, appears as the      *)
(* retransmissions, the numbers modulo SeqSpace and the acknowledgement    *)
(* that is sent before the callback runs.                                  *)
(***************************************************************************)
EXTENDS Integers, SequencesExt

CONSTANTS
  Sender,                \* the nodes other than 1.0
  NUM_HISTORY_ENTRIES,
  MAX_RETRANSMISSIONS,
  SeqSpace,              \* numbers of Contiki's runicast
  MaxRestarts            \* bound on restarts, of senders and of 1.0

ASSUME RunicastAssumption ==
  /\ IsFiniteSet(Sender)
  /\ NUM_HISTORY_ENTRIES \in Nat \ {0}
  /\ MAX_RETRANSMISSIONS \in Nat \ {0}
  /\ SeqSpace \in Nat \ {0, 1}
  /\ MaxRestarts \in Nat

VARIABLES
  history_table,  \* at 1.0: the entries, the head of the list first
  seqno,          \* of each sender: the number of its last message
  tries,          \* of each sender: transmissions of it, 0 when it is over
  air,            \* what is on its way between each sender and 1.0
  restarts,
  (* Histories of each sender's last message.                              *)
  fate,           \* what became of it at 1.0
  crossed,        \* another sender was heard since 1.0 first received it
  forgot,         \* 1.0 restarted since it first received it
  since,          \* messages begun since the last one 1.0 received
  renumbered      \* the sender restarted since the last one 1.0 received

histories == <<fate, crossed, forgot, since, renumbered>>
runicastVars == <<history_table, seqno, tries, air, restarts, histories>>

history_entry == [addr : Sender, seq : 0 .. SeqSpace - 1]
Fates == {"unheard", "announced", "repeated", "ignored"}

Known == {history_table[i].addr : i \in DOMAIN history_table}

RunicastTypeOK ==
  /\ history_table \in Seq(history_entry)
  /\ Len(history_table) <= NUM_HISTORY_ENTRIES
  /\ \A i, j \in DOMAIN history_table :
       history_table[i].addr = history_table[j].addr => i = j
  /\ seqno \in [Sender -> 0 .. SeqSpace - 1]
  /\ tries \in [Sender -> 0 .. MAX_RETRANSMISSIONS]
  /\ air \in [Sender -> {"none", "data", "ack"}]
  /\ restarts \in 0 .. MaxRestarts
  /\ fate \in [Sender -> Fates]
  /\ crossed \in [Sender -> BOOLEAN]
  /\ forgot \in [Sender -> BOOLEAN]
  /\ since \in [Sender -> 0 .. SeqSpace]
  /\ renumbered \in [Sender -> BOOLEAN]

RunicastInit ==
  /\ history_table = <<>>
  /\ seqno = [s \in Sender |-> SeqSpace - 1]
  /\ tries = [s \in Sender |-> 0]
  /\ air = [s \in Sender |-> "none"]
  /\ restarts = 0
  /\ fate = [s \in Sender |-> "unheard"]
  /\ crossed = [s \in Sender |-> FALSE]
  /\ forgot = [s \in Sender |-> FALSE]
  /\ since = [s \in Sender |-> 0]
  /\ renumbered = [s \in Sender |-> FALSE]

-----------------------------------------------------------------------------
(***************************************************************************)
(* The sender.                                                             *)
(***************************************************************************)

Saturate(k) == IF k < SeqSpace THEN k ELSE SeqSpace

(* The timer of s fires and no message is being transmitted.  Ten seconds  *)
(* later nothing of the message before is on the air.                      *)
SendMessage(s) ==
  /\ tries[s] = 0 /\ air[s] = "none"
  /\ seqno' = [seqno EXCEPT ![s] = (@ + 1) % SeqSpace]
  /\ tries' = [tries EXCEPT ![s] = 1]
  /\ air' = [air EXCEPT ![s] = "data"]
  /\ since' = [since EXCEPT ![s] = IF fate[s] = "unheard" THEN Saturate(@ + 1) ELSE 1]
  /\ renumbered' = [renumbered EXCEPT ![s] = @ /\ fate[s] = "unheard"]
  /\ fate' = [fate EXCEPT ![s] = "unheard"]
  /\ crossed' = [crossed EXCEPT ![s] = FALSE]
  /\ forgot' = [forgot EXCEPT ![s] = FALSE]
  /\ UNCHANGED <<history_table, restarts>>

Retransmit(s) ==
  /\ tries[s] \in 1 .. MAX_RETRANSMISSIONS - 1 /\ air[s] = "none"
  /\ tries' = [tries EXCEPT ![s] = @ + 1]
  /\ air' = [air EXCEPT ![s] = "data"]
  /\ UNCHANGED <<history_table, seqno, restarts, histories>>

(* timedout_runicast: the last transmission, or its answer, may still be   *)
(* on its way.                                                             *)
TimedOut(s) ==
  /\ tries[s] = MAX_RETRANSMISSIONS
  /\ tries' = [tries EXCEPT ![s] = 0]
  /\ UNCHANGED <<history_table, seqno, air, restarts, histories>>

(* sent_runicast; an answer to a message that timed out is ignored.        *)
AckArrives(s) ==
  /\ air[s] = "ack"
  /\ tries' = [tries EXCEPT ![s] = 0]
  /\ air' = [air EXCEPT ![s] = "none"]
  /\ UNCHANGED <<history_table, seqno, restarts, histories>>

LoseFrame(s) ==
  /\ air[s] # "none"
  /\ air' = [air EXCEPT ![s] = "none"]
  /\ UNCHANGED <<history_table, seqno, tries, restarts, histories>>

-----------------------------------------------------------------------------
(***************************************************************************)
(* The receiver.                                                           *)
(***************************************************************************)

(* A sender without an entry takes a free one or, when there is none, the  *)
(* last of the list, the one created first.                                *)
CreateEntry(s, q) ==
  <<[addr |-> s, seq |-> q]>> \o
    IF Len(history_table) < NUM_HISTORY_ENTRIES THEN history_table
                                                ELSE Front(history_table)

UpdateEntry_Stale(s, q) == history_table

UpdateEntry(s, q) ==
  [i \in DOMAIN history_table |->
     IF history_table[i].addr = s THEN [history_table[i] EXCEPT !.seq = q]
                                  ELSE history_table[i]]

IsDuplicate_BySender(s, q) == s \in Known

IsDuplicate_WhenFull(s, q) ==
  \/ s \notin Known /\ Len(history_table) = NUM_HISTORY_ENTRIES
  \/ \E i \in DOMAIN history_table :
       history_table[i].addr = s /\ history_table[i].seq = q

IsDuplicate(s, q) ==
  \E i \in DOMAIN history_table :
    history_table[i].addr = s /\ history_table[i].seq = q

recv_runicast(s, q) ==
  \/ /\ s \notin Known
     /\ history_table' = CreateEntry(s, q)
  \/ /\ IsDuplicate(s, q)
     /\ UNCHANGED history_table
  \/ /\ s \in Known /\ ~IsDuplicate(s, q)
     /\ history_table' = UpdateEntry(s, q)

(* 1.0 acknowledges the message of s and hands it to the program, which    *)
(* announces it on the serial line unless it is a duplicate.               *)
Receive(s) ==
  /\ air[s] = "data"
  /\ air' = [air EXCEPT ![s] = "ack"]
  /\ recv_runicast(s, seqno[s])
  /\ fate' = [fate EXCEPT ![s] =
                IF IsDuplicate(s, seqno[s])
                  THEN IF @ = "unheard" THEN "ignored" ELSE @
                  ELSE IF @ \in {"unheard", "ignored"} THEN "announced" ELSE "repeated"]
  /\ crossed' = [t \in Sender |-> crossed[t] \/ (t # s /\ fate[t] # "unheard")]
  /\ UNCHANGED <<seqno, tries, restarts, forgot, since, renumbered>>

-----------------------------------------------------------------------------
(***************************************************************************)
(* Restarts: the statics are lost, and what the MAC layer holds.           *)
(***************************************************************************)

RestartSender(s) ==
  /\ restarts < MaxRestarts
  /\ restarts' = restarts + 1
  /\ seqno' = [seqno EXCEPT ![s] = SeqSpace - 1]
  /\ tries' = [tries EXCEPT ![s] = 0]
  /\ air' = [air EXCEPT ![s] = "none"]
  /\ fate' = [fate EXCEPT ![s] = "unheard"]
  /\ crossed' = [crossed EXCEPT ![s] = FALSE]
  /\ forgot' = [forgot EXCEPT ![s] = FALSE]
  /\ renumbered' = [renumbered EXCEPT ![s] = TRUE]
  /\ UNCHANGED <<history_table, since>>

RestartReceiver ==
  /\ restarts < MaxRestarts
  /\ restarts' = restarts + 1
  /\ history_table' = <<>>
  /\ air' = [s \in Sender |-> "none"]
  /\ forgot' = [s \in Sender |-> forgot[s] \/ fate[s] # "unheard"]
  /\ UNCHANGED <<seqno, tries, fate, crossed, since, renumbered>>

-----------------------------------------------------------------------------
RunicastNext ==
  \/ \E s \in Sender :
       \/ SendMessage(s)
       \/ Retransmit(s)
       \/ TimedOut(s)
       \/ AckArrives(s)
       \/ LoseFrame(s)
       \/ Receive(s)
       \/ RestartSender(s)
  \/ RestartReceiver

RunicastSpec == RunicastInit /\ [][RunicastNext]_runicastVars

(* The timer of s fires, a frame of s leaves the air one way or the other, *)
(* and frames of s with each number get through now and then.              *)
SenderFairness(s) ==
  /\ WF_runicastVars(SendMessage(s) \/ Retransmit(s) \/ TimedOut(s))
  /\ WF_runicastVars(AckArrives(s) \/ LoseFrame(s) \/ Receive(s))
  /\ \A q \in 0 .. SeqSpace - 1 : SF_runicastVars(seqno[s] = q /\ Receive(s))

-----------------------------------------------------------------------------
(***************************************************************************)
(* Properties.                                                             *)
(***************************************************************************)

(* A retransmission is announced as a new message only after a restart of  *)
(* 1.0, or when there are more senders than the history has entries and    *)
(* another one was heard in between.                                       *)
RepeatsNeedCrowd ==
  \A s \in Sender :
    fate[s] = "repeated" =>
      forgot[s] \/ (crossed[s] /\ Cardinality(Sender) > NUM_HISTORY_ENTRIES)

(* A new message is taken for a duplicate, and lost although its sender is *)
(* told that it was received, only if the sender restarted or went through *)
(* all the numbers since 1.0 last received something from it.              *)
NewIsAnnounced ==
  \A s \in Sender :
    fate[s] = "ignored" => renumbered[s] \/ since[s] >= SeqSpace

(* 1.0 goes on announcing messages of a sender whose timer and frames are  *)
(* treated fairly, whatever the other senders do and however they crowd    *)
(* the history.                                                            *)
AnnouncedAgainAndAgain ==
  \A s \in Sender : SenderFairness(s) => []<>(fate[s] = "announced")
=============================================================================
