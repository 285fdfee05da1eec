CONSTANTS
  Committed <- MCCommitted
  Pinnable <- MCPinnable
  NumEntries = 2
  ExactLengths <- MCExactLengths
  OracleLengths <- MCOracleLengths
  Variants <- MCVariants
  MaxFailures = 1
  MaxPins = 1
SPECIFICATION Spec
INVARIANTS
  PassedChain
  PassedContract
  OracleClaims
  MeasuredTogether
PROPERTY
  Recovers
