SPECIFICATION IcgaSpec
CONSTANTS
  Vertex = {1, 2, 3, 4, 5, 6, 7}
  Surveys <- TwoTriangles
  Unset <- MinusOne
  K = 2
  M = 1
CHECK_DEADLOCK FALSE
INVARIANT BackboneConnected
