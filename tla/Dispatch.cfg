SPECIFICATION Spec
CONSTANTS
  EntryKinds = {"StageA", "StageB", "E5"}
  LengthLists <- MCLengthLists
  Widths = {0, 1, 2, 3, 4}
INVARIANTS
  WrapperVerifies
  CastsHold
  InputsForwarded
  ResultsCastBack
PROPERTY
  Routes
