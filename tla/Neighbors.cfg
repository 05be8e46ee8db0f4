SPECIFICATION Spec
CONSTANTS
  a = a
  b = b
  c = c
  Node = {a, b, c}
  Links <- ThreeLinks
  IdSpace = 3
  MAX_NEIGHBORS = 1
  SEQNO_EWMA_UNITY = 2
  SEQNO_EWMA_ALPHA = 1
  MaxReboots = 1
INVARIANTS
  NeighborsTypeOK
  GapCountsMissed
  AverageWithinGaps
  ExchangesDieOut
