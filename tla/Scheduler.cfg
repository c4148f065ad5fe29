SPECIFICATION FairSpec
CONSTANTS
  lo1 = lo1
  lo2 = lo2
  hi = hi
  top = top
  n1 = n1
  NoNode = NoNode
  Pods = {lo1, lo2, hi, top}
  Nodes = {n1}
  Prio <- MCPrio
  Size <- MCSize
  Cap <- MCCap
  Start <- MCStart
  Deletable = {lo1}
  Vip = {top}
  Races = {}
  MaxTries = 2
  MaxFaults = 1
  MaxQueue = 2
INVARIANTS NoOvercommit TallyKnowsBound ReservationHasOwner ClaimHasOwner
PROPERTIES VipIsPlaced
CHECK_DEADLOCK FALSE
