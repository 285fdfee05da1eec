SPECIFICATION Spec
CONSTANTS
  p1 = p1
  p2 = p2
  Processes <- MCProcesses
  TARGET_LENGTHS <- MCTargets
  SessionCounts = {1, 2}
  Cpus = {0}
  Hosts <- MCHosts
  Orders <- MCOrders
  MaxAttempts = 2
  MaxHostChanges = 1
SYMMETRY MCSymmetry
INVARIANTS
  SummaryComplete
  VisibilityAsClaimed
  ControlledTrials
  OneMeasures
CHECK_DEADLOCK FALSE
