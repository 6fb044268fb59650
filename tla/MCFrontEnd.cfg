SPECIFICATION MCSpec
CONSTANTS
  Instructions <- MCInstructions
  Before <- MCBefore
  fail_silently = FALSE
INVARIANTS
  WordsParsed
  OptionsAsDocumented
  SegmentCounted
CHECK_DEADLOCK FALSE
