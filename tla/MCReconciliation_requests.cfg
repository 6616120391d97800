SPECIFICATION LiveSpec
CONSTANTS
  Transactions = {t1}
  Obligations = {o1, o2}
  Statements = {s1}
  Callers = {k1, k2}
  Total <- OneAndTwo
  TxAmount <- JustTwo
  Lines <- OneStatement
  MaxCombination = 2
  Amounts = {1}
  MaxOutside <- OneOnTheLarger
  None = None
  o1 = o1
  o2 = o2
  t1 = t1
  s1 = s1
INVARIANT
  TypeOK
  CaseSettledWhole
  DecisionMatchesMoney
  BalancesAreExplained
  ClosedMeansMatched
PROPERTY
  EveryRequestEnds
CONSTRAINT
  OneOutdatedReversal
