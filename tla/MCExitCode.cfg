SPECIFICATION Spec
CONSTANTS
  XLEN = 2
  HALF = 1
  Exits <- AllExits
  Gaps <- NearAndFar
INVARIANTS
  Continues
  WholeInstructions
  OnceThroughLoop
