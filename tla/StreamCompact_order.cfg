CONSTANTS
  N = 6
  Block = 4
  WarpSize = 2
SPECIFICATION Spec
INVARIANT OrderedWithinBlock
CHECK_DEADLOCK FALSE
