\* Three goroutines race on one key, with results that fit an entry and results that do not.
SPECIFICATION SafeSpec
CONSTANTS
  c1 = c1 c2 = c2 c3 = c3 d1 = d1 k1 = k1 k2 = k2 k3 = k3
  Callers = {c1, c2, c3}
  Documents = {d1}
  Keys = {k1}
  DocumentOf <- OneHost
  Unmarshalable = {}
  Sizes = {1, 3}
  PartialExecCacheSize = 1
  MaxExecutionCacheBytes = 3
  MaxExecutionCacheEntryBytes = 2
  MaxCalls = 4
  MaxRevision = 1
SYMMETRY CallerSymmetry
INVARIANTS TypeOK NoResurrection SingleFlight FlightsLand
PROPERTIES ImplementsService
CHECK_DEADLOCK FALSE
