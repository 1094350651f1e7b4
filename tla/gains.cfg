SPECIFICATION TablesSpec
CONSTANTS
  PARAM_COUNT = 2
  Legal = {"d"}
  Default = "d"
  FENCE_MAX = 2
  MaxCount = 3
  Vertex = {"v"}
CHECK_DEADLOCK FALSE
INVARIANTS GainsLegal
