SPECIFICATION RimeSpec
CONSTANTS
  a = a
  b = b
  c = c
  k = k
  s1 = s1
  s2 = s2
  x = x
  y = y
  Node = {k, a, b}
  Sink = k
  Links <- MeasuredLinks
  MAX_PACKETS = 2
  ReportRoom = 1
  Stale = Stale
  MaxReboots = 2
  Sender = {s1, s2}
  NUM_HISTORY_ENTRIES = 1
  MAX_RETRANSMISSIONS = 2
  SeqSpace = 2
  MaxRestarts = 1
  Hop = {a, b, c, k}
  Dest = k
  HopLinks <- OneWayLinks
  NEIGHBOR_TIMEOUT = 1
  MAX_NEIGHBORS = 2
  MaxCrashes = 1
  Mote = {x, y}
  DataSource = x
  Images = {"rudolph0", "rudolph1", "rudolph2"}
  FILESIZE = 3
  ChunkSize = 2
  MaxStarts = 3
  RucbFileSize = 6
  maxsize = 2
  MaxRuns = 2
CHECK_DEADLOCK FALSE
INVARIANTS
  RimeTypeOK
  PairMeasuredOnce
  PrintedIsLink
  ReportIsComplete
  RepeatsNeedCrowd
  NewIsAnnounced
  TableFollowsAnnouncements
  YellowFileIsWhole
  CompletionIsOneChunkEarly
PROPERTIES
  AnnouncedAgainAndAgain
  DownIsForgotten
  PacketsComeToAnEnd
