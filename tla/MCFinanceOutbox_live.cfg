SPECIFICATION LiveSpec
CONSTANTS
  Bridged = {b1, b2}
  Preempted = {}
  Silent = {}
  Dispatchers = {d1, d2}
  MaxAttempts = 2
  Limit = 2
  MaxManual = 1
  MaxDeletes = 1
  MaxFaults = 1
  MaxCrashes = 0
  MaxNumber = 5
  Free = Free
  Manual = Manual
  None = None
PROPERTY
  EveryBatchEnds
  EveryEventIsSettled
CHECK_DEADLOCK FALSE
