\* Every call returns when executions end, a canceled waiter even when they hang;
\* one key bypasses the cache.
SPECIFICATION Spec
CONSTANTS
  c1 = c1 c2 = c2 c3 = c3 d1 = d1 k1 = k1 k2 = k2 k3 = k3
  Callers = {c1, c2, c3}
  Documents = {d1}
  Keys = {k1, k2}
  DocumentOf <- OneHost
  Unmarshalable = {k2}
  Sizes = {1}
  PartialExecCacheSize = 1
  MaxExecutionCacheBytes = 1
  MaxExecutionCacheEntryBytes = 1
  MaxCalls = 3
  MaxRevision = 1
PROPERTIES EveryCallReturns
CHECK_DEADLOCK FALSE
