SPECIFICATION SinkSpec
CONSTANTS
  Vertex = {1, 2, 3, 4, 5}
  Surveys <- SparseSurveys
  Unset = 10000
CHECK_DEADLOCK FALSE
INVARIANTS
  ScoresAreExact
  SinkIsCentral
