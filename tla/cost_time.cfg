\* What an answer says of its time budget when the first caller left.
SPECIFICATION Spec
CONSTANTS
  Caller = {c1, c2}
  Key = {k1}
  IncludeIdle = {k1}
  NewlyBilled = {k1}
  Timeout = 1
  CacheTTL = 2
  MaxCacheEntries = 1
  MaxBytesBilled = 1
  TableSize = {1, 2}
  Backoff = {1}
  LastArrival = 1
INVARIANTS TimeBudgetTold
CHECK_DEADLOCK FALSE
