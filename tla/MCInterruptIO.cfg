CONSTANTS
  Capacity = 4
  MaxKeys = 6
  Instructions = 2
  Values = {1}
SPECIFICATION Spec
INVARIANT TypeOK
PROPERTIES ImplementsLeakyEcho UserRuns
