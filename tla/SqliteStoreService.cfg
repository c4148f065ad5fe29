SPECIFICATION FairSpec
CONSTANTS
  nsKey = nsKey
  k1 = k1
  k2 = k2
  Writers = {w1}
  Readers = {r1}
  Keys <- MCKeys
  NsKeys <- MCNsKeys
  NsOf <- MCNsOf
  NoNs = NoNs
  Values = {v, Terminating}
  Terminating = Terminating
  NoVal = NoVal
  NoRev = NoRev
  Free = Free
  MaxRev = 3
  MaxCrashes = 1
INVARIANT
  ReadsReflectAcknowledged
PROPERTIES
  ImplementsRevisionLog
  CommittedIsAnnounced
CHECK_DEADLOCK FALSE
