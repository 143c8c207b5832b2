\* The three batches under the collection's deadline, with callers that leave.
SPECIFICATION FairSpec
CONSTANTS
  Key = {k1}
  TTL = 1
  MaxEntries = 1
  Caller = {c1, c2}
  Core = {clusters}
  ListClusters = clusters
  PerCluster = {workloads}
  Signals = {traces}
  Mesh = {}
  TellsCut = {accounts}
  Reply = {"ok", "failed"}
  graphTimeout = 2
  LastArrival = 1
INVARIANTS NoAbortedListingCached
PROPERTIES NoCollectionWhileFresh FreshStays OnlyOwnCancellation Answered
CHECK_DEADLOCK FALSE
