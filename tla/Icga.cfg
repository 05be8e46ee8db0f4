SPECIFICATION IcgaSpec
CONSTANTS
  Vertex = {1, 2, 3, 4, 5}
  Surveys <- AllSurveys
  Unset <- MinusOne
  K = 2
  M = 1
CHECK_DEADLOCK FALSE
INVARIANTS
  IcgaTypeOK
  EveryNodeDominated
PROPERTY IcgaEnds
