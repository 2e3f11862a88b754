CONSTANTS
  x1 = x1
  t0 = t0
  t1 = t1
  v0 = v0
  v1 = v1
  junk = junk
  c0 = c0
  c1 = c1
  Regs <- MCRegs
  T0 = t0
  T1 = t1
  Values <- MCValues
  Zero = v0
  Scratch = junk
  Code <- MCCode
  Entry0 = c0
  Entry1 = c1
  Null = Null
  Quantum = 5
  Cycles <- MCCycles

SPECIFICATION Spec

INVARIANTS
  TypeOK
  PreemptionAhead

PROPERTIES
  SliceNotEmpty
  ImplementsTimeSharing
  BothScheduled
