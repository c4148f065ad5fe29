SPECIFICATION Spec
CONSTANTS
  nsKey = nsKey
  k1 = k1
  k2 = k2
  Writers = {w1, w2}
  Readers = {}
  Keys <- MCKeys
  NsKeys <- MCNsKeys
  NsOf <- MCNsOf
  NoNs = NoNs
  Values = {v, Terminating}
  Terminating = Terminating
  NoVal = NoVal
  NoRev = NoRev
  Free = Free
  MaxRev = 5
  MaxCrashes = 1
INVARIANTS
  TypeOK
  PublishInv
  RowsReflectLog
  LifecycleWellFormed
  FencedCreates
SYMMETRY MCSymmetry
CHECK_DEADLOCK FALSE
