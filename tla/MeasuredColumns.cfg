SPECIFICATION Spec
CONSTANTS
  Vertex = {1, 2, 3, 4}
  Surveys <- FieldSurveys
CHECK_DEADLOCK FALSE
INVARIANT LqiGraphHoldsLqi
