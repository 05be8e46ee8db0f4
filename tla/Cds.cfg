SPECIFICATION CdsSpec
CONSTANTS
  Vertex = {1, 2, 3, 4, 5, 6}
  Surveys <- SixLinks
  Unset <- MinusOne
CHECK_DEADLOCK FALSE
INVARIANTS
  HopsAreDistances
  ParentIsOneHopCloser
  MisIsIndependent
  ConnectorExists
  SetIsBackbone
PROPERTIES
  FirstHopCountStands
  ConstructionEnds
