SPECIFICATION MCSpec
CONSTANTS
  Arguments <- MCArguments
  Pointers = {12, 13}
  Results <- MCResults
  Files = {"f", "g"}
INVARIANT
  RegistersFound
PROPERTIES
  CallRuns
  CallsAsAsked
  StatFilled
  ExitEnds
  CsrAsPromised
  RoundingAsPromised
