SPECIFICATION FairSpec
CONSTANTS
  Threads = {t1, t2}
  Pools = {p1}
  Handles = {h1, h2}
  NoThread = NoThread
  NoPool = NoPool
  MaxSize = 4
  Classes = {1, 2, 4}
  Cap = 4
  MaxCachedBytes <- MCMaxCachedBytes
  TlSlots = 1
  TlMaxBytes = 2
  Requests = {1, 3}
  DirectSizes = {2}
  KeepBytes = {1}
  WarmCounts = {2}
INVARIANTS ServedEnough
PROPERTIES SomeCallReturns
