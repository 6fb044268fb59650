SPECIFICATION Spec
CONSTANTS
  XLEN = 8
  HALF = 4
  BYTE = 2
  x0 = x0
  ra = ra
  rb = rb
  Regs <- MCRegs
  Files <- MCFiles
  Blocks <- MCBlocks
INVARIANTS
  SameEffectElsewhere
  EachOnce
CHECK_DEADLOCK FALSE
