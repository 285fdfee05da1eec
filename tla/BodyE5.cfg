SPECIFICATION BoundedSpec
CONSTANTS
  Kind = "E5"
  Lengths = {2, 512, 513}
  Widths = {2, 512, 513}
  Types <- MCScoreTypes
  Constants = {2}
  OpNames = {"tensor.dim", "arith.constant", "arith.minsi", "cf.assert", "tensor.empty", "tensor.expand_shape", "tensor.collapse_shape", "tensor.extract_slice", "linalg.generic", "tensor.pad"}
  Axes = {0, 1}
  MaxOps = 5
  NestedAsserts = FALSE
INVARIANTS TypeOK KnownAreProven KnownAreAll KnownHold CloneAgrees SlicesInBounds ReshapesKeepCount CloneVerifies
CHECK_DEADLOCK FALSE
