SPECIFICATION Spec
CONSTANTS
  RingCapacity = 2
  Keys = {k1, k2, k3, k4, k5}
  MaxRev = 12
  MaxSkip = 1
INVARIANTS
  IndicesAgree
  NothingLostAboveFloor
  TombstonesAreCurrent
  ForgottenDeletionsExpire
  RingDeletionsKeepBodies
SYMMETRY KeySymmetry
CHECK_DEADLOCK FALSE
