SPECIFICATION MCSpec
CONSTANTS
  ItemSize = 2
  BaseShapes <- MCBaseShapes
  Targets <- MCTargets
  Slices <- SlicesInside
  MaxRank = 2
  MaxStride = 8
  None = None
  USizeMax = 1000
  Layouts <- MCArguments
  Lists <- MCLists
  Lanes = 2
  StridedTargets = FALSE
  Lengths = {0, 1, 2, 5, 7}
  Threads = 3
  MinChunk = 2
  Powers <- MCPowers
INVARIANTS TypeOK ViewIsExact ViewInBuffer RangeIsTight ContiguousIsDense OverlapIsSeen WalkInOrder CallIsExact ScanTypeOK ScanIsExact CarryIsPrefix
PROPERTIES ScanReturns
