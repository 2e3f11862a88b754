CONSTANTS
  Capacity = 2
  MaxKeys = 3
  Instructions = 2
  Values = {1, 2}
SPECIFICATION Spec
PROPERTY Transparent
