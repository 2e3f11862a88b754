CONSTANTS
  W = 3
  Pow2 <- MCPow2
  NoResult = NoResult

SPECIFICATION Spec

INVARIANTS
  TypeOK
  PartialDivision

PROPERTIES
  ImplementsDivision
  AnswerComes
