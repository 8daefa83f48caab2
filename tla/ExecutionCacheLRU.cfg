\* Two goroutines fill and evict a cache smaller than its keys: two insertions, a hit and an eviction fit in.
SPECIFICATION SafeSpec
CONSTANTS
  c1 = c1 c2 = c2 c3 = c3 d1 = d1 k1 = k1 k2 = k2 k3 = k3
  Callers = {c1, c2}
  Documents = {d1}
  Keys = {k1, k2, k3}
  DocumentOf <- OneHost
  Unmarshalable = {}
  Sizes = {1, 2}
  PartialExecCacheSize = 2
  MaxExecutionCacheBytes = 3
  MaxExecutionCacheEntryBytes = 2
  MaxCalls = 4
  MaxRevision = 1
SYMMETRY CallerAndKeySymmetry
INVARIANTS Accounted
PROPERTIES EvictsOldest
CHECK_DEADLOCK FALSE
