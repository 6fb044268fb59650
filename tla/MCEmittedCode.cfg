SPECIFICATION MCSpec
CONSTANTS
  XLEN = 8
  HALF = 4
  SHORT = 3
  BYTE = 2
  NaN = NaN
  gp_map <- MCMap
  Unmapped <- MCUnmapped
  Forms <- MCForms
  Values <- MCValues
  Cells <- MCCells
  Admits <- AdmitsAll
INVARIANTS
  RightResult
  RegistersKept
  TrapsOnOverflow
CHECK_DEADLOCK FALSE
