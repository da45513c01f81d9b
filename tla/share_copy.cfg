SPECIFICATION Spec
CONSTANTS
  Buffers = {b1, b2}
  Raws = {r1, r2, r3}
  Tensors = {}
  NoRaw = NoRaw
  NoTensor = NoTensor
  NoArray = NoArray
  MaxStride = 2
  MaxLen = 3
  Values = {0, 1}
  Starts = {1}
  Steps = {2}
  SelfImport = FALSE
INVARIANTS CopyIsExact
