SPECIFICATION Spec
CONSTANTS
  Users = {a, b}
  Ids = {i1, i2}
  Nobody = Nobody
  Limit = 2
  Threads = {t}
  MaxSignIns = 2
  MaxFaults = 1
  MaxRetries = 0
SYMMETRY PhoneSymmetry
INVARIANT
  TypeOK
  NothingLost
  OneRowUnlessCrossed
  SentByItsOwner
PROPERTY
  NotSentAgain
  SentInOrder
VIEW
  PhoneView
CONSTRAINT
  SomethingToCheck
CHECK_DEADLOCK FALSE
