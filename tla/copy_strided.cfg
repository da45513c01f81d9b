SPECIFICATION MCSpec
CONSTANTS
  ItemSize = 2
  BaseShapes <- MCBaseShapes
  Targets <- MCTargets
  Slices <- SlicesInside
  MaxRank = 2
  MaxStride = 8
  None = None
  USizeMax = 1000
  Layouts <- MCArguments
  Lists <- MCLists
  Lanes = 2
  StridedTargets = TRUE
  Lengths = {0}
  Threads = 3
  MinChunk = 2
  Powers <- MCPowers
INVARIANTS CopyTakesAnyTarget
