SPECIFICATION Spec
CONSTANTS
  Threads = {t1, t2}
  Pools = {p1, p2}
  Handles = {h1, h2, h3}
  NoThread = NoThread
  NoPool = NoPool
  MaxSize = 4
  Classes = {1, 2, 4}
  Cap = 5
  MaxCachedBytes <- MCMaxCachedBytes
  TlSlots = 2
  TlMaxBytes = 3
  Requests = {1, 2, 3}
  DirectSizes = {3}
  KeepBytes = {2}
  WarmCounts = {2}
SYMMETRY Symmetry
INVARIANTS TypeOK PoolAccounting PoolWithinCap TlWithinLimits
PROPERTIES TrimReachesTarget ImplementsLedger
