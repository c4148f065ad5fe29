SPECIFICATION Spec
CONSTANTS
  x = x
  y = y
  rt = rt
  n1 = n1
  n2 = n2
  w1 = w1
  All = All
  None = None
  Keys <- OneKey
  RootOf <- MCRootOf
  NsOf <- MCNsOf
  Watchers = {w1}
  WatchPrefixes <- BothScopes
  RingCapacity = 1
  BroadcastCapacity = 2
  MaxReclaimed = 1
  MaxRev = 2
  MaxShards = 2
  MaxOpens = 2
  MaxGcs = 1
  MaxEvicts = 1
  MaxRestarts = 1
  MaxLosses = 1
CHECK_DEADLOCK FALSE
INVARIANTS TypeOK IdleShardHasGcTask ReclaimedFloorCovers
