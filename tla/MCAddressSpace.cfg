SPECIFICATION MCSpec
CONSTANTS
  PAGE = 2
  SPACE = 32
  TASK_SIZE = 28
  TRANSLATOR_BASE = 22
  STACK_OFFSET = 4
  HostPages = {11}
  StackSizes = {2, 20}
  Files <- MCFiles
  MmapRequests <- MCRequests
  MunmapRequests <- MCMunmaps
  BrkRequests = {0, 4, 5, 7, 9, 31}
INVARIANTS
  TranslatorKept
  StackBuilt
PROPERTIES
  HeapGrowth
  GuestKept
CHECK_DEADLOCK FALSE
