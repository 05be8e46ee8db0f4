------------------------------ MODULE Rudolph -------------------------------
(***************************************************************************)
(* The examples that spread a file over the network: rudolph0.c, where a   *)
(* button makes a node the source and stops it again, rudolph1.c and       *)
(* rudolph2.c, where one node is the source from its start and its button  *)
(* only stops it.  The source writes the file "hej" and Contiki reads      *)
(* chunks of it; a receiver stores them in "codeprop.out".  What it prints *)
(* after the last one, when it reads its own "hej", is left out.           *)
(*                                                                         *)
(* Contiki is external: it hands the chunks of one transfer to a receiver  *)
(* in order, asks again for lost ones, tells a new transfer from the one   *)
(* before, and takes a chunk that is not full for the last.  Any call of   *)
(* its file system may fail; the programs do not look.                     *)
(***************************************************************************)
EXTENDS Integers, Sequences

CONSTANTS
  Mote,             \* the nodes
  Images,           \* those of "rudolph0", "rudolph1", "rudolph2" to run
  DataSource,       \* 1.1 in rudolph1.c, 1.0 in rudolph2.c
  FILESIZE,
  ChunkSize,        \* the maxsize Contiki reads with
  MaxStarts         \* bound on transfers begun and on restarts

ASSUME RudolphAssumption ==
  /\ Images \subseteq {"rudolph0", "rudolph1", "rudolph2"}
  /\ DataSource \in Mote
  /\ FILESIZE \in Nat \ {0, 1}
  /\ ChunkSize \in Nat \ {0}
  /\ MaxStarts \in Nat

VARIABLES
  image,            \* the program all nodes run
  hej,              \* of each node: that file, <<>> when there is none
  codeprop,         \* of each node: the file codeprop.out
  source,           \* the node that sends its file, or NoSource
  next,             \* of each node: the offset it gets next, or Complete
  red, yellow,      \* the nodes with this LED on
  starts,
  got,              \* history: of each node, the last file whose end it got
  failed            \* history: the nodes with a call that failed in that
                    \* transfer, or in the one going on

rudolphVars ==
  <<image, hej, codeprop, source, next, red, yellow, starts, got, failed>>

NoSource == "nobody"
Complete == -1

(* Byte i of the file is i.  A source whose flash is full has less of it:  *)
(* rudolph2.c stops at the write that fails, and so do the others in       *)
(* effect, which go on without looking.                                    *)
File(length) == [i \in 1 .. length |-> i - 1]
Files == {File(length) : length \in 0 .. FILESIZE}

(* A byte that was skipped over and never written. *)
Hole == -1
Bytes == (0 .. FILESIZE) \cup {Hole}

RudolphTypeOK ==
  /\ image \in Images
  /\ hej \in [Mote -> Files] /\ codeprop \in [Mote -> Seq(Bytes)]
  /\ source \in Mote \cup {NoSource}
  /\ next \in [Mote -> (0 .. FILESIZE) \cup {Complete}]
  /\ red \in SUBSET Mote /\ yellow \in SUBSET Mote
  /\ starts \in 0 .. MaxStarts
  /\ got \in [Mote -> Files] /\ failed \in SUBSET Mote

RudolphInit ==
  /\ image \in Images
  /\ hej = [n \in Mote |-> <<>>] /\ codeprop = [n \in Mote |-> <<>>]
  /\ source = NoSource
  /\ next = [n \in Mote |-> 0]
  /\ red = {} /\ yellow = {}
  /\ starts = 0
  /\ got = [n \in Mote |-> <<>>] /\ failed = {}

-----------------------------------------------------------------------------
(***************************************************************************)
(* The callbacks.                                                          *)
(***************************************************************************)

read_chunk(n, offset) ==
  SubSeq(hej[n], offset + 1,
         IF offset + ChunkSize < Len(hej[n]) THEN offset + ChunkSize ELSE Len(hej[n]))

(* codeprop.out once it is open: CFS_WRITE empties it, if the call         *)
(* succeeds, and CFS_APPEND does not.                                      *)
Opened_AlwaysAppend(n, first, opens) == codeprop[n]

Opened(n, first, opens) == IF first /\ opens THEN <<>> ELSE codeprop[n]

(* file with data written at the offset; a seek may go beyond its end. *)
Put(file, offset, data) ==
  LET end == offset + Len(data)
  IN  [i \in 1 .. IF end > Len(file) THEN end ELSE Len(file) |->
         IF i \in offset + 1 .. end THEN data[i - offset]
         ELSE IF i <= Len(file) THEN file[i] ELSE Hole]

(* The calls for one chunk: before the first, one with the flag NEWFILE    *)
(* and no data; the last has the flag LASTCHUNK.  The first open may fail, *)
(* the seek may leave the offset at the end of the file, and only "count"  *)
(* of the bytes may be written, also none: the lights are the same.        *)
write_chunk(n, first, last, offset, data) ==
  /\ \E opens \in BOOLEAN :
       LET file == Opened(n, first, opens)
       IN  \E at \in {Len(file)} \cup (IF data = <<>> THEN {} ELSE {offset}),
              count \in 0 .. Len(data) :
             /\ codeprop' = [codeprop EXCEPT ![n] = Put(file, at, SubSeq(data, 1, count))]
             /\ failed' =
                  IF (first => opens) /\ (data # <<>> => at = offset) /\ count = Len(data)
                  THEN IF first THEN failed \ {n} ELSE failed
                  ELSE failed \cup {n}
  /\ red' = IF last THEN red \ {n} ELSE IF first THEN red \cup {n} ELSE red
  /\ yellow' = IF last THEN yellow \cup {n} ELSE yellow

(* n receives the next chunk of the file that is being sent. *)
DeliverChunk(n) ==
  /\ source \notin {NoSource, n} /\ next[n] # Complete
  /\ LET data == read_chunk(source, next[n])
         last == Len(data) < ChunkSize
     IN  /\ write_chunk(n, next[n] = 0, last, next[n], data)
         /\ next' = [next EXCEPT ![n] = IF last THEN Complete ELSE @ + ChunkSize]
         /\ got' = IF last THEN [got EXCEPT ![n] = hej[source]] ELSE got
  /\ UNCHANGED <<image, hej, source, starts>>

-----------------------------------------------------------------------------
(***************************************************************************)
(* The processes.                                                          *)
(***************************************************************************)

(* A node writes the file, as much of it as its flash takes, and sends it. *)
(* Where the file cannot even be opened the one before is sent again.      *)
SendFile(n) ==
  /\ starts < MaxStarts
  /\ starts' = starts + 1
  /\ \E file \in Files : hej' = [hej EXCEPT ![n] = file]
  /\ source' = n
  /\ next' = [m \in Mote |-> 0]

(* rudolph0.c: the button of a node that is not sending.  One node sends   *)
(* at a time.                                                              *)
ButtonStarts(n) ==
  /\ image = "rudolph0" /\ source = NoSource
  /\ SendFile(n)
  /\ UNCHANGED <<image, codeprop, red, yellow, got, failed>>

(* rudolph1.c: the data source starts, or restarts. *)
SourceStarts1 ==
  /\ image = "rudolph1"
  /\ SendFile(DataSource)
  /\ UNCHANGED <<image, codeprop, red, yellow, got, failed>>

(* rudolph2.c: the same. *)
SourceStarts2 ==
  /\ image = "rudolph2"
  /\ SendFile(DataSource)
  /\ UNCHANGED <<image, codeprop, red, yellow, got, failed>>

(* The button of the source; at a receiver it changes nothing here.        *)
ButtonStops ==
  /\ source # NoSource
  /\ source' = NoSource
  /\ UNCHANGED <<image, hej, codeprop, next, red, yellow, starts, got, failed>>

(* Another node restarts: the files stay.                                  *)
Restart(n) ==
  /\ image = "rudolph0" \/ n # DataSource
  /\ starts < MaxStarts
  /\ starts' = starts + 1
  /\ source' = IF source = n THEN NoSource ELSE source
  /\ next' = [next EXCEPT ![n] = 0]
  /\ red' = red \ {n} /\ yellow' = yellow \ {n}
  /\ UNCHANGED <<image, hej, codeprop, got, failed>>

RudolphNext ==
  \/ \E n \in Mote : DeliverChunk(n) \/ ButtonStarts(n) \/ Restart(n)
  \/ SourceStarts1
  \/ SourceStarts2
  \/ ButtonStops

RudolphSpec == RudolphInit /\ [][RudolphNext]_rudolphVars

-----------------------------------------------------------------------------
(***************************************************************************)
(* Properties.                                                             *)
(***************************************************************************)

(* Yellow light without red: codeprop.out is byte by byte the last file    *)
(* that was sent to its end, unless a call of the file system failed in    *)
(* that very transfer.  Transfers that were stopped in the middle, begun   *)
(* anew, shorter than the one before or spoilt by failing calls, and       *)
(* restarts with half a file, leave nothing behind.  Yellow alone does not *)
(* say so: it stays on while the next file overwrites the last.            *)
YellowFileIsWhole ==
  \A n \in yellow \ (red \cup failed) : codeprop[n] = got[n]
=============================================================================
