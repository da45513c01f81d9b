SPECIFICATION Spec
CONSTANTS
  Buffers = {b1, b2}
  NoArray = NoArray
  Raws = {r1, r2, r3}
  Tensors = {m1}
  NoRaw = NoRaw
  NoTensor = NoTensor
  
  MaxStride = 2
  MaxLen = 2
  Values = {0}
  Starts = {0, 1}
  Steps = {1, 2}
  SelfImport = TRUE
SYMMETRY Symmetry
INVARIANTS TypeOK CountsHolders ViewsInMemory
