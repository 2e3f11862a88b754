CONSTANTS
  N = 3
  A0 = a0
  A1 = a1
  A7 = a7
  X1 = x1
  X3 = x3
  T1 = t1
  T2 = t2
  Failed = Failed
  Null = Null
  Regs <- ProgramRegs
  Values <- MCValues
  Code <- Program
  Entry = "justborn"
  Plus4 <- NextAddress
  Slices = {22, 23, 24, 25, 26, 27, 28, 29, 30}

SPECIFICATION MCSpec

PROPERTIES
  PcInOwnSlot
