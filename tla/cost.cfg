\* Two callers, one key: the shared analysis, its bill, and what is kept of it.
SPECIFICATION FairSpec
CONSTANTS
  Caller = {c1, c2}
  Key = {k1}
  IncludeIdle = {k1}
  NewlyBilled = {k1}
  Timeout = 1
  CacheTTL = 2
  MaxCacheEntries = 1
  MaxBytesBilled = 1
  TableSize = {1, 2}
  Backoff = {1}
  LastArrival = 2
INVARIANTS BillBounded GapsAreTold
PROPERTIES NoChargeWhileFresh ServedInTime Answered
CHECK_DEADLOCK FALSE
