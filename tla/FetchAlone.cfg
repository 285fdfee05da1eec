SPECIFICATION FetchSpec
CONSTANTS
  p1 = p1
  p2 = p2
  Fetchers <- Alone
  NumFiles = 2
  MaxCrashes = 2
INVARIANTS
  VerifiedIsExpected
PROPERTIES
  OutputsOnlyImprove
  Fetched
CHECK_DEADLOCK FALSE
