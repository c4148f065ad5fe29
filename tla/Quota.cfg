SPECIFICATION FairSpec
CONSTANTS
  Pods = {p1, p2}
  Limits = {1, 2}
  NoCount = NoCount
  RaceSets <- MCRaceSets
INVARIANTS UsedIsExact EditIsKept
PROPERTIES NoOverAdmission DriftHeals
