SPECIFICATION Spec
CONSTANTS
  Users = {a}
  Ids = {i1, i2}
  Nobody = Nobody
  Limit = 2
  Threads = {}
  MaxSignIns = 1
  MaxFaults = 1
  MaxRetries = 1
PROPERTY
  NotSentAgain
  EventuallySettled
CONSTRAINT
  SomethingToCheck
CHECK_DEADLOCK FALSE
