SPECIFICATION Spec
CONSTANTS
  OblKeys = {o1}
  StlKeys = {k1, k2, k3, k4}
  IntentKeys = {}
  Procs = {p1, p2}
  Amounts <- MCAmounts
  None = None
SYMMETRY RequestSymmetry
INVARIANT NoOverpayment
CHECK_DEADLOCK FALSE
