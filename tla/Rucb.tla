-------------------------------- MODULE Rucb --------------------------------
(***************************************************************************)
(* rime/example-rucb.c: node 51.0 sends a file of FILESIZE bytes to 52.0   *)
(* in chunks and prints the time it took.  The bytes are counted when      *)
(* Contiki reads them, not when they arrive.                               *)
(*                                                                         *)
(* Contiki's rucb is external: it sends one chunk at a time by reliable    *)
(* unicast, reads the next one when it is acknowledged, and takes a chunk  *)
(* that is not full for the last.                                          *)
(***************************************************************************)
EXTENDS Integers

CONSTANTS
  RucbFileSize,   \* FILESIZE
  maxsize,        \* the size of a chunk
  MaxRuns         \* bound on starts of the sender

ASSUME RucbAssumption ==
  /\ RucbFileSize \in Nat \ {0}
  /\ maxsize \in 1 .. RucbFileSize
  /\ MaxRuns \in Nat

VARIABLES
  bytecount,
  size,           \* of the chunk being sent, NotSending if there is none
  completions,    \* how often the completion time was printed
  runs,
  arrived         \* bytes of this run that write_chunk was called for

rucbVars == <<bytecount, size, completions, runs, arrived>>

NotSending == -1

RucbTypeOK ==
  /\ bytecount \in 0 .. RucbFileSize
  /\ size \in {NotSending} \cup (0 .. maxsize)
  /\ completions \in 0 .. 2
  /\ runs \in 0 .. MaxRuns
  /\ arrived \in 0 .. RucbFileSize

RucbInit ==
  /\ bytecount = 0 /\ size = NotSending /\ completions = 0
  /\ runs = 0 /\ arrived = 0

(* What is read when this many bytes were read before.                     *)
ChunkAfter(count) ==
  IF count + maxsize >= RucbFileSize THEN RucbFileSize - count ELSE maxsize

IsCompleted_OneMore(count) == count + maxsize >= RucbFileSize

IsCompleted(count) == count = RucbFileSize

read_chunk_from(count, printed) ==
  /\ size' = ChunkAfter(count)
  /\ bytecount' = count + size'
  /\ completions' = IF IsCompleted(bytecount') THEN printed + 1 ELSE printed

(* The process of 51.0 starts, or starts again with its statics cleared.   *)
Begin ==
  /\ runs < MaxRuns
  /\ runs' = runs + 1
  /\ arrived' = 0
  /\ read_chunk_from(0, 0)

(* The chunk reaches 52.0, perhaps again after a lost acknowledgement.     *)
ChunkArrives ==
  /\ size # NotSending
  /\ arrived' = bytecount
  /\ UNCHANGED <<bytecount, size, completions, runs>>

(* The acknowledgement of a chunk that arrived. *)
ReadNext ==
  /\ size = maxsize /\ arrived = bytecount
  /\ read_chunk_from(bytecount, completions)
  /\ UNCHANGED <<runs, arrived>>

AckLast ==
  /\ size \in 0 .. maxsize - 1 /\ arrived = bytecount
  /\ size' = NotSending
  /\ UNCHANGED <<bytecount, completions, runs, arrived>>

(* The retransmissions are used up: there is no callback for it.           *)
GiveUp ==
  /\ size # NotSending
  /\ size' = NotSending
  /\ UNCHANGED <<bytecount, completions, runs, arrived>>

RucbNext == Begin \/ ChunkArrives \/ ReadNext \/ AckLast \/ GiveUp

RucbSpec == RucbInit /\ [][RucbNext]_rucbVars

-----------------------------------------------------------------------------
(* The completion time is printed when the last full chunk or the rest of  *)
(* the file is still to be sent: of one chunk it is not known whether it   *)
(* will arrive.  A file that is a multiple of the chunk size has its time  *)
(* printed a second time, and then all of it has arrived.                  *)
CompletionIsOneChunkEarly ==
  /\ completions >= 1 => arrived + maxsize >= RucbFileSize
  /\ completions >= 2 => arrived = RucbFileSize /\ RucbFileSize % maxsize = 0
  /\ arrived = RucbFileSize => completions >= 1
=============================================================================
