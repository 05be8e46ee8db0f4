SPECIFICATION Spec
CONSTANTS
  k = k
  a = a
  b = b
  f = f
  Node = {k, a, b}
  Sink = k
  Foreign = {}
  Links <- PairLinks
  IdSpace = 4
  MAX_NEIGHBORS = 8
  MAX_REQUESTS_SEND = 2
  ReportRoom = 7
  MaxInFlight = 1
  MaxReboots = 2
INVARIANTS
  LossSound
  LossExact
  IInv
