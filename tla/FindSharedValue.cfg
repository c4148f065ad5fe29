SPECIFICATION Spec
CONSTANTS
  Services = {boot, web}
  Values = {port, vip}
  boot = boot
  web = web
  port = port
  vip = vip
  Owner <- MCOwner
  Nobody = Nobody
  Seeds = {Nobody}
  Finalized = {web}
  Requests = {r1, r2}
  Races = {"overlap"}
  MaxRev = 4
SYMMETRY RequestSymmetry
INVARIANT NeverSharedValue
CHECK_DEADLOCK FALSE
