SPECIFICATION FairSpec
CONSTANTS
  Programs <- MCPrograms
  FlagSets <- SoundFlags
  BLOCK_CACHE_SIZE = 4
  RAS_SIZE = 2
INVARIANTS
  CacheSound
  SlotsSound
  ChainEndFresh
  ReturnStackSound
  StartedOnStack
PROPERTIES
  TranslationStays
  ImplementsGuest
  TranslationEnds
