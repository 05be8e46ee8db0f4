SPECIFICATION FairSpec
CONSTANTS
  k = k
  a = a
  b = b
  f = f
  Node = {k, a, b}
  Sink = k
  Foreign = {}
  Links <- ChainLinks
  IdSpace = 2
  MAX_NEIGHBORS = 2
  MAX_REQUESTS_SEND = 1
  ReportRoom = 2
  MaxInFlight = 1
  MaxReboots = 1
INVARIANT OnlyRealLinksPrinted
PROPERTIES
  SurveySpec
  LinkEventuallyPrinted
