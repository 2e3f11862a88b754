CONSTANTS
  Programs = {machine, user}
  Outside = Outside
  Size = 4
  Word = 2
  Last = 8
  Values = {0, 1}
  NaN = NaN
  MaxKeys = 2
  Bases = {7, NaN}
  Stores = {4}
  MaxRuns = 2
  MaxCallbacks = 1

SPECIFICATION Spec

SYMMETRY AnyProgram

INVARIANTS
  TypeOK
  TabAndPaneAgree
  WindowShowsMemory
  KeyTakenOnce
  KeyNotHidden
