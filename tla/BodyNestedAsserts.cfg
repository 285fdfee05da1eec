SPECIFICATION Spec
CONSTANTS
  Kind = "E5"
  Lengths = {2}
  Widths = {2, 3}
  Types <- MCRowTypes
  Constants = {3}
  OpNames = {"tensor.dim", "arith.constant", "cf.assert", "tensor.empty"}
  Axes = {1}
  MaxOps = 4
  NestedAsserts = TRUE
INVARIANTS KnownHold
CHECK_DEADLOCK FALSE
