SPECIFICATION Spec
CONSTANTS
  ItemSize = 2
  BaseShapes <- MCBaseShapes
  Targets <- MCTargets
  Slices <- SlicesBeyond
  MaxRank = 2
  MaxStride = 8
  None = None
  USizeMax = 1000
INVARIANTS ViewInBuffer
