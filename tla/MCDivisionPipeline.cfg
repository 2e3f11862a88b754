CONSTANTS
  W = 3
  Pow2 <- MCPow2
  NoResult = NoResult
  Divisions = {1}
  MaxPc = 8

SPECIFICATION PipelineSpec

PROPERTIES
  WaitsForDivision

CHECK_DEADLOCK FALSE
