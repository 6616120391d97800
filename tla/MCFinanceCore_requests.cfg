SPECIFICATION Spec
CONSTANTS
  OblKeys = {o1}
  StlKeys = {k1, k2, k3, k4}
  IntentKeys = {i1}
  Procs = {p1, p2}
  Amounts <- MCAmounts
  None = None
SYMMETRY KeySymmetry
INVARIANT
  TypeOK
  NoOverpaymentUnlessStale
  BalanceIsExactUnlessStale
PROPERTY
  LedgerSpec
CHECK_DEADLOCK FALSE
