SPECIFICATION CheckerSpec
CONSTANTS
  EntryKinds = {"E5", "StageB"}
  LengthLists <- MCTwoLevels
  Widths = {2, 3, 4}
  MaxEdits = 2
INVARIANTS
  AcceptsEmitted
  AcceptedRoutes
  AcceptedFallback
  AccountedForwards
CHECK_DEADLOCK FALSE
