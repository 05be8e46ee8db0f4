# Specifications of WCNES-CN3

The repository measures the radio links of a wireless sensor network and
computes topologies from them. A program in C runs on every node under Contiki
2.7; what the sink prints on its serial line is saved to a file, and three
Python programs read that file.

```
 measuring node                         sink (1.0)            host
 collect_data.c  --- broadcast 129 ---> other nodes
       |                                                      cds.py
       `-- collect (routing tree) ----> recv() -- printf -->  sink_selection.py
                                                 graph.txt    parser.py
```

`rime/example-collect.c` is the measurement program's predecessor,
`rime/example-neighbors.c` the Contiki example its neighbour table resembles.
The other examples under `rime/` are programs of the same testbed, flashed one
at a time: reliable unicast, multihop forwarding, and transfers of a file.

## 1. Inventory

| Component | State | Operations | Interacts through |
|---|---|---|---|
| Measurement node, `collect_data.c` | message id, broadcasts of the round, `neighbor_list[8]` with its count | settle, timer (broadcast, or broadcast and report), `broadcast_receive`, at the sink `recv` | radio broadcasts, collect |
| Contiki (not in the repository) | MAC queue, packets of collect on their way | send, deliver, lose | callbacks `recv`, `broadcast_receive` |
| Backbone, `cds.py` | graph with the attributes metric, parent, visited, colour | `count_hops`, `cds_bd_c2`, `icga` | the saved file; one graph object shared by successive calls |
| Sink selection, `sink_selection.py` | the same attributes, one score per trial | `dejkstra`, `attendNodes`, `find_optimal_sink_by_hop` | the saved file; one graph object shared by the trials |
| Measured trees, `parser.py` | three weighted graphs, the locals of `dijkstras`, the best tree so far | `parseFile`, `normalizeData`, `dijkstras`, the comparison of sinks | the saved file |
| Collect example, `rime/example-collect.c` | record of broadcasts heard | broadcast once, report once | radio broadcasts, collect |
| Neighbour table example, `rime/example-neighbors.c` | table of 16 entries, sequence number | broadcast, ping, `broadcast_recv`, `recv_uc` | radio broadcasts, unicasts |
| Broadcast example | none | broadcast a constant | heard by measurement nodes, on the same channel |
| Reliable unicast, `rime/example-runicast.c` | at 1.0 a history of four entries, at a sender its number and retransmissions | timer, `recv_runicast`, `sent_runicast`, `timedout_runicast` | runicast messages and acknowledgements |
| Multihop, `rime/example-multihop.c` | table of 16 entries, each with a timer | announcement, `received_announcement`, `remove_neighbor`, button, `forward`, `recv` | announcements, packets |
| Bulk transfers, `rime/example-rudolph{0,1,2}.c`, `rime/example-rucb.c` | files "hej" and "codeprop.out", lights; bytes read | button or start, `read_chunk`, `write_chunk` | chunks handed over by Contiki |
| Other Rime examples, simulations, build outputs, configuration | see section 8 | | |

**What is hard here.** On the nodes: any handler may run between two waits of
a process; frames and reports are lost or arrive rounds late; a node may
restart at any moment and number its packets from the start; ids and counts are
`uint8_t`; tables have eight or sixteen entries and a packet has 128 bytes. In
the Python programs: algorithms that run twice over one graph object with the
labels of the run before, a queue with duplicates, orders taken from
dictionaries, sentinels (0, -1, 10000, -100000) that take part in comparisons,
and columns that two programs must agree on.

**What makes each component correct.**

- *Measurement*: a report names exactly the neighbours heard since the report
  before; no loss is counted that did not happen; the sink prints links of the
  network only; every link into a measuring node is printed in the end.
- *Backbone*: the hop counts are distances; the set dominates and is connected;
  the loops end.
- *Sink selection*: no trial disturbs the next one; the winner reaches most
  vertices with the least sum of hops.
- *Measured trees*: the parents form a tree at every moment; with costs its
  paths are the cheapest; a sink is found if there is one.
- *Collect example*: the one report of a node is complete; no pair of
  neighbours is measured in both directions.
- *Neighbour table*: gaps count losses over every wrap; the average stays
  within the gaps; pings die out.
- *Reliable unicast*: a message is announced once; when it is announced again
  or not at all there was a restart, a round of the numbers or a crowd of
  senders; a sender does not stay unannounced.
- *Multihop*: the table is who was heard within the timeout, as far as there
  is room; nodes that went down are forgotten; packets come to an end.
- *Bulk transfers*: after a transfer in which no call of the file system failed
  the lights say truly that the file is complete; what the completion time
  means.

The hazards behind these properties are listed with their lines in
`PROJECT.json`, under `hazards`.

## 2. Modules

| Module | Models | Role |
|---|---|---|
| `NeighborList` | `get_neighbor_by_rimeaddr`, `add_or_update_neighbor`, `broadcast_receive` as operators on a table | used by `CollectData` |
| `CollectData` | the process, the handlers, the radio, collect, losses, restarts | the program on every node |
| `LinkSurvey` | nothing of the code: nodes know, report, the sink prints | abstract specification |
| `CollectDataSurvey` | refinement mapping, inductive invariant | `CollectData` implements `LinkSurvey` |
| `HopGraph` | `parseFile`, the graph, reference notions of distance and connectedness | used by the next four |
| `HopCount` | `count_hops` and `attendNodes`, which are the same loop | composed into `Cds` and `SinkSelection` |
| `Cds` | `cds_bd_c2` | extends `HopCount` |
| `Icga` | the main program of `cds.py`: `cds_bd_c2`, then `icga` | extends `Cds` |
| `SinkSelection` | `find_optimal_sink_by_hop` over all vertices | extends `HopCount` |
| `MeasuredTree` | the main program of `parser.py` | |
| `ExampleCollect` | `rime/example-collect.c` | |
| `Neighbors` | `rime/example-neighbors.c` | |
| `Runicast` | `rime/example-runicast.c` | |
| `Multihop` | `rime/example-multihop.c` | |
| `Rudolph` | `rime/example-rudolph0.c`, `-rudolph1.c`, `-rudolph2.c` | one module, since the three differ in who starts a transfer |
| `Rucb` | `rime/example-rucb.c` | |
| `RimeExamples` | all motes of a testbed run one of the five programs | extends `ExampleCollect`, `Runicast`, `Multihop`, `Rudolph`, `Rucb` |
| `SetInduction` | | lemmas: induction over numbers and finite sets, sums |
| `CollectDataProofs` | | theorems about `NeighborList`, `CollectData`, the refinement |
| `HopCountProofs` | | lemmas about the traversal, used by the next two |
| `CdsProofs`, `SinkSelectionProofs`, `MeasuredTreeProofs` | | theorems about the Python programs |
| `NeighborsProofs`, `RimeProofs` | | theorems about `Neighbors`, and about the five programs of `RimeExamples` |
| `MC*` | | instances for TLC |

`map` in `PROJECT.json` has the lines behind every definition. An operator
named `Name_Variant` is `Name` with a plausible mistake and is in no
specification; `mutants` names the property each of them breaks.

### How the state corresponds

*One handler, one step.* A Contiki process runs to completion between two
`PROCESS_WAIT`s, and callbacks are not preemptive, so each is one action. What
interleaves is the timers of the nodes, the frames in their MAC layers, and the
reports on their way. A timer is an action that may be taken whenever the node
waits for it: no assumption is made on the relative speed of nodes.

*Tables.* `neighbor_list[8]` and `nlist_count` are one sequence, the entries
beyond the count are never read. Radio measurements that are stored and printed
but never read (lqi, rssi, etx) are left out of `CollectData`; they reappear as
columns in `MeasuredTree`, where they matter.

*Undefined behaviour.* A ninth entry is written past the array, an eight-line
report past packetbuf (5 + 8 * 16 bytes, packetbuf has 128, so `ReportRoom` is
7). The node may survive that or not: `pc` may become `"wild"`, after which it
does nothing until it restarts.

*Histories.* `missed`, `restarted`, `gaps` record what the radio really did;
`fate`, `crossed`, `forgot`, `since`, `renumbered` (`Runicast`), `age`,
`refused` (`Multihop`), `got`, `failed` (`Rudolph`) and `arrived` (`Rucb`) what
really became of messages, neighbours and files. Except for `arrived`, which is what
Contiki's acknowledgement of a chunk stands for, they guard nothing. `missed`
saturates at `IdSpace`, above every count a table
can hold, in `CollectData`, and counts modulo `IdSpace` in `Neighbors`; `since`
saturates at `SeqSpace` and `age` beyond the timeout.

*Files.* Byte i of the transferred file is i; a full flash at the source makes
the file shorter. `codeprop.out` is a sequence of bytes, since it matters what a
transfer leaves of the one before. At a receiver each call may fail as well:
the open with which a new file begins, which then does not empty the old one, the
seek, and the write, which may write a part of the chunk or nothing. No program
looks at the results, so the lights change all the same, and the next chunk is
written at its offset, behind a hole.

*Lists.* A history or a neighbour table is the sequence of its entries in the
order of the list; the memory pool behind it is the bound on its length.

*Python.* One step is one turn of an innermost loop. The order of a dictionary
is arbitrary. In `MeasuredTree` fractions are kept as integers over a common
denominator.

*Pacing.* Facts of time are built into guards where the programs rely on
them: a frame leaves the MAC layer before the next timer, seconds later
(`Broadcast` in `CollectData`), a ping exchange is over before the next one
(`Ping` in `Neighbors`; 8 seconds later at the earliest), nothing of a message
is on the air when the next one is sent ten seconds later (`SendMessage` in
`Runicast`), and a tick does not pass over a timer that is due (`Multihop`).
In `Multihop` one packet is followed at a time: packets share nothing but the
tables, which they do not change. `MaxInFlight` bounds
the reports of one node on their way; with 1 a report may still be arbitrarily
late with respect to all other nodes, their restarts included.

## 3. Runs

| Run | Instance | What it shows |
|---|---|---|
| `collect_stats` | two measuring nodes, the sink; ids wrap at 4; two restarts | A table counts no loss that did not happen (`LossSound`), without restart or wrap its count and the open gap are exact (`LossExact`), no report has a loss rate above one (`ReportRatio`); the inductive invariant of the proofs (`IInv`) |
| `collect_survey` | a chain of two measuring nodes and the sink; ids wrap at 2; one restart | `CollectData` implements `LinkSurvey`; only links of the network are printed; under fairness every measured link is printed in the end |
| `collect_overfull` | two senders, one with another program, room for one; ids wrap at 3 | A table that overflows has one entry per sender (`OneEntryPerSender`); the counts of a table that did not overflow in its round are sound, untagged frames taken for message 0 (`LossSound`) |
| `collect_array` | the same, ids wrap at 2 | *violated*: `TableWithinArray`, see section 6 |
| `cds` | every survey of six vertices and six links, every leader, every neighbour order | `cds_bd_c2`: hop counts are distances and final when given, the first loop's set is independent and gray vertices stay dominated (`MisIsIndependent`), a connector exists, the result dominates and is connected (`SetIsBackbone`), the loops end |
| `icga` | every survey of five vertices, k = 2, m = 1 | Every vertex is dominated in the end, whatever the second traversal left; the program ends without its warning |
| `icga_connected` | two triangles with a vertex between them | *violated*: `BackboneConnected` |
| `sink_selection` | five vertices, at most four links, also in two parts | Scores are exact sums at every trial, the sink is central |
| `measured_tree` | four vertices, four or five links of a field, each good or bad, three graphs | `dijkstras` keeps a tree at every moment, the paths are cheapest, a sink is found exactly where the links allow one (`SinkFoundIfAny`), the program ends; the columns have values from 0 on, with a negative one, or a single one |
| `measured_columns` | the same | *violated*: `LqiGraphHoldsLqi` |
| `rime_examples` | five programs, one per behaviour | |
| &nbsp;&nbsp;collect | a sink and two nodes that measure, records of two, a packet with room for one; two restarts | A pair is measured once, a report is complete, the sink prints links, and stale bytes only where a report may be cut |
| &nbsp;&nbsp;runicast | two senders, a history of one, numbers that wrap at 2, two transmissions; one restart | A repetition needs a crowd or a restart (`RepeatsNeedCrowd`), a dropped new message a restart or a wrap (`NewIsAnnounced`); under fairness messages of every sender are announced again and again |
| &nbsp;&nbsp;multihop | a chain of three with a one-way link, tables of two, a timeout of one tick; one failure | Tables follow the announcements, nodes that went down are forgotten, packets come to an end |
| &nbsp;&nbsp;rudolph | two nodes, a file of three bytes in chunks of two, file calls that may fail; three starts | Yellow without red is a whole file, unless a call failed in that transfer (`YellowFileIsWhole`) |
| &nbsp;&nbsp;rucb | a file of three chunks; two starts | The completion time is printed one chunk early, and twice when the file is a multiple of the chunk |
| `neighbors` | three nodes, a table with room for one, numbers that wrap at 3; one restart | Gaps count losses, the average stays within the gaps in spite of rounding, exchanges die out |

**Why the bounds are enough to be of use.** An id that wraps at 2, 3 or 4
instead of 256 reaches every wrap within a few rounds, and a table with room
for one overflows with two senders, so the boundary cases are the
common ones. One or two restarts give each node one before, between and after the
events of another. The instances of `rime_examples` are small because five programs share one run; each
has its boundary: a record of two entries and a packet with room for one, one
history entry for two senders, numbers that wrap at 2, a table of two in which a
third neighbour is refused, files of less than one chunk, of one, and of more,
and for `Rucb` one that is a multiple of the chunk. The proofs carry its safety properties to every
size. Six links on six vertices are the trees with one link more, and graphs
of two parts; five vertices in all shapes cover every small cycle and clique.
The links of `collect_stats` (a pair) and `collect_survey` (a chain)
are small because the entries of a table do not influence each other; the
proofs carry the properties to every network.

Deadlock is checked for the node programs that go on for ever (`collect_*`,
`neighbors`). The others end: the Python programs, and in `rime_examples` the
process of `example-collect.c` after its one report, and the transfers after the
bounded number of starts.

## 4. Fairness

`FairSpec` in `CollectData`: weak fairness of the timers, the MAC layer and of
a report leaving collect one way or the other, because Contiki's etimer and
CSMA always get their turn; strong fairness of each single link and of the
delivery of a report that names a link, because the radio loses frames but does
not lose all of them: a link on which nothing ever arrives is not a link.
Nothing is assumed of restarts, which are bounded. In a network whose tables
overflow, a neighbour may be refused for ever, so the liveness run has tables
with room.

In `RimeExamples` the five programs share one specification without fairness;
what a liveness property needs is its hypothesis, stated in the module of the
program:

- `SenderFairness(s)` (`Runicast`): weak fairness of the timers of s and of its
  frame leaving the air; strong fairness of its arrival *for each number*. That
  a frame gets through now and then is not enough: a radio that delivered only
  every second message would deliver, with two numbers, the same number always.
  The numbers have nothing to do with the radio, so this is no more than
  independence of the losses.
- `MultihopFairness`: weak fairness of time, of the timers and of a packet
  leaving the air, which may be its loss.
- `RandomChoice` (`Multihop`): strong fairness of each choice `forward` can
  make, since it is random. `PacketsComeToAnEnd` also assumes that from some
  moment on the next hops of some tree towards 1.0 stay in the tables; without
  them a packet may be sent to and fro between two nodes as long as the tables
  name only each other.

The Python programs have weak fairness of their next step, which says no more
than that the program keeps running.

## 5. Theorems

All are proved with TLAPS for every value of the constants that meets the named
assumptions (`TableAssumption`, `NetworkAssumption`, `NeighborsAssumption`,
`ExampleAssumption`, `RunicastAssumption`, `MultihopAssumption`,
`RudolphAssumption`, `RucbAssumption`, `GraphAssumption`, `UnsetAssumption`,
`CdsAssumption`, `IcgaAssumption`, `SinkAssumption`, `SurveyAssumption`). They say
that networks and graphs are finite where something is counted, that a node is
not in range of itself, and that widths and limits are numbers. Every invariant
that a passing run checks is the property of a theorem. Two more hypotheses
occur, and are written into the theorems that have them: at most
`MAX_NEIGHBORS` nodes in range of a node (`WithinArrayTheorem`), and a bound on
the size of the graph (`CentralTheorem`).

`SetInduction` holds what the others share. The induction theorems of the
library take a property as a parameter, which the provers cannot instantiate;
here induction is stated of *sets*: a set of numbers that holds 0 and with each
number the next is all of them (`NatSetInduction`), a set of subsets of S that
holds {} and with each member every one-element extension holds S
(`FiniteSetInduction`). With it, a recursive function, which is a CHOOSE, is
shown to meet its own equation, and the sums of `SumFunctionOnSet` to be split,
extended and bounded.

`CollectDataProofs`, for every network:

- What a table becomes when a frame is heard, and that the `uint8_t` arithmetic
  of a counted loss does not wrap as long as the count is at most the last id.
- `TypeCorrect`, and from `OverfullInv` and `ReceiveAny`: `OneEntryTheorem`, that a
  neighbour has one entry also in a table that took one entry too many, and
  `Refinement`, that `Spec` implements `LinkSurvey`. A packet that finds no room is
  a packet of the survey that nobody hears, a report that does not fit is a table
  forgotten; one lemma per abstract action, the rest stutters.
  `OnlyRealLinksTheorem` follows. A node whose memory is overwritten is taken to
  go on with its table or to stop; what else it might do is outside the model.
- `Invariance`: `IInv` is inductive. It adds to the checked properties what
  they rest on: `NumberingInv` (the frame in the MAC layer carries the id before
  the next one), `EntryInv` (a count is at most the last id, so it cannot wrap)
  and, the heart of it, the second conjunct of `CountInv`: the count *plus the
  gap that the next frame would add* never exceeds what was missed. `LossSound`
  alone is not inductive, since the next frame heard may add a gap about which
  it says nothing.
- `LossSoundTheorem` and `LossExactTheorem` from it. They speak of the tables
  within their array (`WithinArray`), one by one: a full table counts a loss in
  place without taking over the id, so that the same gap is counted again with
  the next frame. Such a table is left out by name until its round ends; every other
  table of the same network is covered, whatever its neighbours' tables hold. So
  is a node whose process runs on after its memory was overwritten, once it has
  a new table. `LossExact` speaks of senders that number on: not of one that ran
  another program, restarted, wrapped, or stopped with its memory overwritten.
- `ReportRatioTheorem` needs no exception: a report has room for fewer
  neighbours than a table (`ReportRoom` is 7, `MAX_NEIGHBORS` 8), so what
  overflowed is not reported.
- `WithinArrayTheorem`: which tables never overflow, namely those of nodes that
  at most `MAX_NEIGHBORS` nodes are in range of.

`NeighborsProofs`:

- `NeighborsTypeCorrect`: the table stays within its pool.
- `AverageTheorem`: the moving average is between the smallest and the largest
  gap seen, less a rounding loss below UNITY / ALPHA. The argument is one lemma
  of integer arithmetic, `AverageBounds`: a lower bound that leaves room for the
  remainder of the division reproduces itself.
- `GapTheorem`: the next gap is the number of frames missed plus one, modulo the
  id space. One lemma, `GapGrows`, takes the subtraction over the wrap.
- `ExchangesTheorem`, from `ExchangeInv` (the messages of an exchange are one at
  most) and `HeardInv`: what is in a table is in range, so a ping, whose target
  the table may have lost since, still goes to a node that was heard.

`HopCountProofs` and `CdsProofs` (any graph of any number of vertices, any
leader, any order of neighbours):

- `ParentTheorem` and `FirstCountTheorem` about the traversal, from `HopInv`.
  A vertex is queued once for each neighbour that was visited before it, so the
  queue is not sorted by hop count: the second copy of a near vertex stands
  behind the first copy of a far one. `QueueInv` says what remains true: a
  vertex still to be visited is not nearer than one in front of it, unless it is
  in front of that one as well. Hence the head, if it was not visited, is nearest
  among what is left (`FartherIsNew`), and with `FrontierInv` (nothing labelled is
  more than one hop beyond any vertex still to be visited) and `VisitedInv` (the
  neighbours of a visited vertex are labelled, at most one hop farther) no visit
  finds a count to improve.
- `DistanceTheorem`: the hop counts are distances. The parents give a path of
  that length (`LabelledInBall`, by induction over the count) and `VisitedInv`
  excludes a shorter one (`BallIsLabelled`, by induction over the hops).
- `IndependentTheorem`, from `MisInv`: all neighbours of a black vertex are gray
  while the set grows, so a white one has no black neighbour; it also rests on
  `MaxWeight`: the heaviest vertex of a set exists and belongs to it.
- `ConnectorTheorem`: the parent of a vertex to be connected is on the hop
  before it and a neighbour, so there always is something to choose from.
- `BackboneTheorem`: the set dominates and is connected. Connectedness is kept in
  the form of `LinkInv`: every set that holds the leader and with a black vertex
  its black neighbours holds each black vertex the loop went through. A
  connector is not connected by the loop that adds it; `GrayInv` supplies the
  link, the black vertex that made it gray and is no farther than it.
- `IcgaTypeTheorem` and `DominationTheorem` about the whole program, from
  `IcgaInv`. For the second run of `cds_bd_c2` `AgainInv` says what that run can
  still do: everything the leader reaches is visited, so it labels the
  neighbours of the leader and stops. Domination owes nothing to it: when
  `icga` resets the gray vertices and no white one has fewer than M black
  neighbours, the first loop ends, and the second only adds (`WhiteInv`).

`SinkSelectionProofs`:

- `ScoreTheorem`, from `TriedInv` and the lemmas of the traversal, which are
  stated for both values an unlabelled vertex may have: a trial starts with
  fresh labels whatever the one before left, so that its sum is the total of the
  distances and INF for every vertex that is not reached.
- `CentralTheorem` assumes that the square of the number of vertices is below
  INF. With INF = 10000 these are all networks of at most 99 nodes; beyond, INF
  no longer outweighs the hops for certain.

`MeasuredTreeProofs` (any number of vertices, any survey, all three graphs):

- `ParentsTheorem`, from `TreeInv`. It needs `WeightsInv` (after normalisation no
  weight is negative) and `OrphanInv`: a vertex without a parent has no distance,
  so what is extracted while others remain has a parent that is out of V.
- `CheapestTheorem`, from `CostInv`: the vertices leave V in the order of their
  distances, and no link to a vertex that has left is a shorter way. `PathCost`
  is recursive over the number of links; that no path is cheaper is proved by
  induction over them, that the distance is the cost of a path by induction over
  the hops of `TreeInv`.
- `SinkFoundTheorem`, from `FoundInv`: a sink is kept exactly if one of those
  tried so far spans the graph: every other vertex has a link into the part that
  is joined to it by links of positive weight. That a tree gives a value the
  comparison takes for one is `BoundInv`: a sum of costs is bounded by that of
  the links used, and a product of positive reliabilities does not vanish, since
  every hop uses up one factor of `Unit`. That nothing else gets a tree is
  `JoinedInv`: only what is joined to the sink is reached, and whatever has a link
  to a vertex that left V has a parent.
- These hold for every survey the program gets through. It ends with a division
  by zero where a column of lqi or rssi has no negative value and the maximum 0.

`RimeProofs`. Each program has its specification (`Spec`, `RunicastSpec`,
`MultihopSpec`, `RudolphSpec`, `RucbSpec`), the theorems are about those;
`ProgramsTheorem` says that the composition `RimeSpec` implements each of them,
and `RimeTypeTheorem` puts the type invariants together.

- `PairTheorem`: of two neighbours only one records the other. The invariant
  adds that whoever waits in the MAC layer, or was heard and has not restarted,
  has closed its connection (`ClosedInv`): so a node that hears has not sent,
  and the sender cannot have recorded it.
- `ReportTheorem`: a report says what its node recorded, because a node whose
  report is on its way has ended and hears nothing (`EndedInv`).
- `PrintedTheorem`: the sink prints links only, and stale bytes only where some
  node has more neighbours, restarts counted, than a report has room for.
  `CountInv` bounds a record by the neighbours that have sent (`Spent`) and the
  restarts, one each.
- `RunicastTypeCorrect`: no sender has two entries, the history keeps its size.
- `RepeatsTheorem` and `AnnouncedTheorem` follow from `RunicastIInv`. `HeardInv`
  says that a sender whose message was heard, with no restart of 1.0 and no
  other sender heard since, or with an entry for everybody, still has its entry
  with the number of that message. `NumberInv` relates an entry to the sender:
  the number in it is the one the sender is at, if that was heard, and otherwise
  lies `since` numbers behind it modulo `SeqSpace`. So an unheard message can
  have the number in the entry only after a whole round.
- `MultihopTypeCorrect`: no table outgrows its pool.
- `TableTheorem`, from `TablesInv`: of each node on its own, the table has one
  entry per address, a timer is the timeout less the age of what was heard, and
  who was heard within the timeout is in the table or refused. The third part,
  that a refused node had `MAX_NEIGHBORS` others within the timeout, compares
  the cardinality of a table with that of the addresses in it.
- `RudolphTypeCorrect`.
- `LightsTheorem`, from `PartInv`: a node in the middle of a transfer has the
  red light on, and unless a call failed in this transfer `codeprop.out` is
  exactly the beginning of the file being sent, up to the next offset. That
  NEWFILE empties the file is what makes the first step of it true, and what
  makes a transfer forget the failures of the one before.
- `RucbTypeCorrect` and `CompletionTheorem`, from `RucbAhead` (the bytes read are
  one chunk ahead of those that arrived, and a multiple of the chunk until the
  last) and `RucbEnds`: a second completion comes from reading nothing at the end
  of the file, and so only after a last chunk that was full.

**Only model-checked**: liveness under fairness (`LinkEventuallyPrinted`,
`ConstructionEnds`, `IcgaEnds`, `ParserEnds`, `AnnouncedAgainAndAgain`,
`DownIsForgotten`, `PacketsComeToAnEnd`), which needs ENABLED and is out of the
provers' reach, and the three properties that are violated (section 6).
`HopSpec`, the traversal on its own, is in no run: the traversal is checked as
part of `Cds` and `SinkSelection`.

## 6. Where the code and its comments disagree

- `collect_data.c:241` compares the count with `>`: a ninth neighbour is
  written to `neighbor_list[8]` (`collect_array`).
- `cds.py:50`: 'visited' is not reset before the second call of `cds_bd_c2`, so
  that the set of `icga`, described as a kmCDS, need not be connected
  (`icga_connected`).
- `parser.py:156`: the columns are read one too far to the right; the graph of
  "lqi" holds rssi values (`measured_columns`).

Others that were met and have no run:

- `parser.py:33` calls the result of `dijkstras` the minimum spanning tree; it
  is the tree of cheapest paths (line 60), whose links may cost more in sum.
- `total_packets` is the id of the last packet, not a number of packets
  received; of a sender heard once it is 0.
- The links into the sink are not measured: its process ends after settling.
- `is_k_connected` tests the number of black neighbours of each member.
- `normalizeData` is described with values up to 1.0; a column with negative
  values is spread from 0 to 100. A column without a negative value whose
  maximum is 0 ends the program with a division by zero.
- `parser.py`: the variable for the diameter of the best tree is compared and
  never assigned, so that of two equal trees the later one wins; `extractMax`
  looks above 0 only and cuts off what lies behind a link of reliability 0.
- `example-collect.c` prints as "from" the node that heard, as "to" the one
  that sent.
- `example-rudolph0.c`, `-rudolph1.c` and `-rudolph2.c` compare "hej" after the last
  chunk, the file a source wrote, and not "codeprop.out", the file received: the
  comparison fails at every node that was no source. It only prints, and is not
  modelled.
- The same three ignore the results of `cfs_open`, `cfs_seek` and `cfs_write`: a
  `codeprop.out` that is short, has holes or begins with an older file comes
  with the same lights as a complete one.
- `example-rucb.c` prints the completion time when the last bytes are read for
  sending, one chunk before they arrived, and twice when the file is a multiple
  of the chunk (`CompletionIsOneChunkEarly`).
- `example-runicast.c` acknowledges a message before it looks for a duplicate: a
  new message with the number of the one before is lost although its sender
  prints that it was sent (`NewIsAnnounced`).

## 7. Plan

Done, in this order: `NeighborList`, `CollectData`, `LinkSurvey` and the
refinement; the proofs about them; `HopGraph`, `HopCount`, `Cds`, `Icga`;
`SinkSelection`; `MeasuredTree`; `ExampleCollect` and `Neighbors` with their
proofs; `Runicast`, `Multihop`, `Rudolph`, `Rucb`; the proofs about the first
three; the proofs about the traversal and the first ones about `Cds`; the proofs
about `MeasuredTree`, `SinkSelection`, the distances and the backbone of `Cds`,
`Icga`, `Rucb`, and what was left of `ExampleCollect`, `Neighbors` and
`CollectData`.

To come:

1. Abstract specifications of `Cds` and `Icga` (any order of colouring that
   keeps domination) with refinements.
2. An abstract specification of `Runicast` in which a message is announced, lost
   or, where there was a crowd or a restart, repeated, with a refinement.
3. The safety half of the termination arguments: a measure that every step of
   the Python programs decreases.

## 8. What is not modelled

- Contiki: routing, acknowledgements, retransmissions and duplicate suppression
  of collect, collisions, the drivers. It is not in the repository; its effects
  (loss, delay, order) are actions of the models. A unicast is not duplicated.
- Relative speed: no property speaks of seconds.
- Failure of `malloc` in `example-collect.c`.
- Plotting (`drawGraph`), printing, and functions no program calls (`print_n`,
  `hop_metric`, `gen_graph`, the betweenness of `parser.py`).
- The mesh, trickle, polite, announcement, broadcast, abc and unicast examples: a
  timer or a button sends a constant and a receiver prints it. Two do a little
  more: `example-mesh.c` answers each message with one of its own, so that an
  exchange once begun goes on until a message is lost, and
  `example-announcement.c` announces one more than what it heard, a value that is
  kept in Contiki and settles nowhere. None has variables of its own, and
  routes, queues and suppression are Contiki's, so that a property would speak of
  code that is not here.
- The transfer protocols behind `rudolph` and `rucb`, and runicast itself: they
  appear as the chunks, frames and acknowledgements the callbacks see.
- Symbols, objects, maps, archives and firmware images (generated), Cooja
  simulations, recorded data, makefiles, the radio duty cycling options.
