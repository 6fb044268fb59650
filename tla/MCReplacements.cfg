SPECIFICATION MCSpec
CONSTANTS
  x0 = x0
  t0 = t0
  t1 = t1
  t2 = t2
  a5 = a5
  INVALID_REG = INVALID_REG
  Stale = Stale
  Regs <- MCRegs
  gp_map <- MCMap
  Forms <- MCForms
  MaxRecency = 100
  Kinds = {"sound", "anywhere"}
SYMMETRY OtherRegs
VIEW RecencyOrder
INVARIANTS
  NoValueLost
  RecencyMarks
  OperandsRight
  X0StaysZero
