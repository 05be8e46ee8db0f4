SPECIFICATION Spec
CONSTANTS
  k = k
  a = a
  b = b
  f = f
  Node = {k, a, b, f}
  Sink = k
  Foreign = {f}
  Links <- MixedLinks
  IdSpace = 3
  MAX_NEIGHBORS = 1
  MAX_REQUESTS_SEND = 1
  ReportRoom = 1
  MaxInFlight = 1
  MaxReboots = 0
INVARIANTS
  OneEntryPerSender
  LossSound
