CONSTANTS
  WarpSize = 2
  BlockSize = 4
  Values = {0, 1}
SPECIFICATION Spec
INVARIANT BlockSorted
CHECK_DEADLOCK FALSE
