SPECIFICATION FetchSpec
CONSTANTS
  p1 = p1
  p2 = p2
  Fetchers <- Together
  NumFiles = 1
  MaxCrashes = 1
INVARIANTS
  VerifiedIsExpected
CHECK_DEADLOCK FALSE
