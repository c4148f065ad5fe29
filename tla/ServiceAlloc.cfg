SPECIFICATION Spec
CONSTANTS
  Services = {boot, web}
  Values = {port, vip}
  boot = boot
  web = web
  port = port
  vip = vip
  Owner <- MCOwner
  Nobody = Nobody
  Seeds = {Nobody, boot}
  Finalized = {web}
  Requests = {r1, r2}
  Races = {}
  MaxRev = 3
SYMMETRY RequestSymmetry
VIEW View
INVARIANTS
  NeverSharedValue
  HeldIsReserved
  NothingLeaks
  OneSettler
CHECK_DEADLOCK FALSE
