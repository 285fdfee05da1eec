SPECIFICATION CheckerSpec
CONSTANTS
  EntryKinds = {"E5"}
  LengthLists <- MCLengthOne
  Widths = {1, 2, 3}
  MaxEdits = 0
INVARIANTS
  AcceptsEmitted
CHECK_DEADLOCK FALSE
