SPECIFICATION Spec
CONSTANTS
  Programs <- CallAndReturn
  FlagSets <- RasWithoutJump
  BLOCK_CACHE_SIZE = 4
  RAS_SIZE = 2
INVARIANT
  ReturnStackSound
