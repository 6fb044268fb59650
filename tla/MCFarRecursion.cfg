SPECIFICATION FairSpec
CONSTANTS
  Programs <- FarRecursion
  FlagSets <- SoundFlags
  BLOCK_CACHE_SIZE = 4
  RAS_SIZE = 2
PROPERTY
  JalrWritesTarget
