SPECIFICATION MCSpec
CONSTANTS
  PAGE = 2
  SPACE = 32
  TASK_SIZE = 28
  TRANSLATOR_BASE = 22
  STACK_OFFSET = 4
  HostPages = {11}
  StackSizes = {2}
  Files <- OneFile
  MmapRequests <- Crossing
  MunmapRequests <- NoMunmaps
  BrkRequests = {0}
INVARIANTS
  TranslatorKept
CHECK_DEADLOCK FALSE
