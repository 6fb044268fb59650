SPECIFICATION FairSpec
CONSTANTS
  Addrs <- MCAddrs
  Locs <- MCLocs
  INITIAL_SIZE = 2
  SMALLTLB = 2
INVARIANTS
  ProbePaths
  TlbCoherent
  RehashKeepsAll
  RehashFits
PROPERTIES
  ImplementsBlockMap
  CallsReturn
