SPECIFICATION Spec
CONSTANTS
  Buffers = {b1, b2}
  Raws = {r1, r2, r3}
  Tensors = {m1}
  NoRaw = NoRaw
  NoTensor = NoTensor
  NoArray = NoArray
  MaxStride = 2
  MaxLen = 2
  Values = {0, 1}
  Starts = {0}
  Steps = {2}
  SelfImport = TRUE
INVARIANTS WritersAlone
