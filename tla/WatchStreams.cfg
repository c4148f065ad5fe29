SPECIFICATION FairSpec
CONSTANTS
  x = x
  y = y
  rt = rt
  n1 = n1
  n2 = n2
  w1 = w1
  All = All
  None = None
  Keys <- TwoKeys
  RootOf <- MCRootOf
  NsOf <- MCNsOf
  Watchers = {w1}
  WatchPrefixes <- BothScopes
  RingCapacity = 1
  BroadcastCapacity = 1
  MaxReclaimed = 2
  MaxRev = 3
  MaxShards = 2
  MaxOpens = 2
  MaxGcs = 0
  MaxEvicts = 0
  MaxRestarts = 0
  MaxLosses = 0
CHECK_DEADLOCK FALSE
INVARIANTS ViewExactWhenCovered DeletedBeforeGone
PROPERTY EventuallyConsistent
