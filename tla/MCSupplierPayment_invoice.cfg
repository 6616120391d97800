SPECIFICATION InvoiceSpec
CONSTANTS
  Invoice = f
  OblKeys = {f}
  k1 = k1
  k2 = k2
  StlKeys <- MCStlKeys
  IntentKeys = {}
  Procs = {p1, p2}
  Amounts <- MCAmounts
  Totals <- MCTotals
  MaxPosted = 4
  None = None
SYMMETRY PaymentSymmetry
INVARIANT
  PaidIsBacked
  MirrorsUnlessOverwritten
  AccountedFor
CHECK_DEADLOCK FALSE
