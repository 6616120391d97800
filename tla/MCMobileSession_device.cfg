SPECIFICATION Spec
CONSTANTS
  Sessions = {s1, s2}
  Renewals = {r1, r2}
  Requests = {c1}
  Profile = me
  Logout = out
  MaxGen = 2
  MaxCrashes = 1
  None = None
SYMMETRY MobileSymmetry
INVARIANT
  TypeOK
  ConsumedOnce
  NeverTakenForACopy
  
CHECK_DEADLOCK FALSE
