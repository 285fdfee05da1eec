SPECIFICATION Spec
CONSTANTS
  Inputs <- MCModules
  LengthOptions <- MCLengthOptions
  MaxRuns = 2
INVARIANTS
  SymbolsSound
  RejectedUnchanged
  CallersReachWrapper
  Layout
PROPERTY
  RanIsEarned
CHECK_DEADLOCK FALSE
