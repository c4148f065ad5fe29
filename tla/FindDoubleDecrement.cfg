SPECIFICATION Spec
CONSTANTS
  Pods = {p1, p2}
  Limits = {2}
  NoCount = NoCount
  RaceSets <- CollectionOnly
INVARIANT RemovedOnce
