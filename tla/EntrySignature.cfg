SPECIFICATION Spec
CONSTANTS
  OtherTypes <- MCOtherTypes
  Lengths = {1, 16, 128}
  MaxEdits = 2
INVARIANTS
  AcceptsOnlyContract
  StaticSignatureFits
CHECK_DEADLOCK FALSE
