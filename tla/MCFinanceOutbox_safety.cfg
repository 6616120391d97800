SPECIFICATION Spec
CONSTANTS
  Bridged = {b1, b2}
  Preempted = {p1}
  Silent = {}
  Dispatchers = {d1, d2}
  MaxAttempts = 2
  Limit = 2
  MaxManual = 1
  MaxDeletes = 1
  MaxFaults = 1
  MaxCrashes = 1
  MaxNumber = 5
  Free = Free
  Manual = Manual
  None = None
SYMMETRY DispatcherSymmetry
INVARIANT
  TypeOK
  PostedOnce
  NeverCountedTwice
  OutboxAgreesWithBridge
  NoEntryLost
CHECK_DEADLOCK FALSE
