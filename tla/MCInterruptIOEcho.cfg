CONSTANTS
  Capacity = 2
  MaxKeys = 3
  Instructions = 2
  Values = {1}
SPECIFICATION Spec
PROPERTY ImplementsEcho
