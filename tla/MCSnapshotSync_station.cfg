SPECIFICATION Spec
CONSTANTS
  Collections = {reports, settings}
  Settings = settings
  Entries = {e1, e2}
  Default = Default
  Derived = Derived
  Callers = {k1, k2}
  Others = {s1}
  NoCaller = NoCaller
  NoSnapshot = NoSnapshot
  MaxEvents = 2
SYMMETRY SyncSymmetry
VIEW StationView
INVARIANT
  TypeOK
  OnePullAtATime
  OwnWorkKept
PROPERTY
  NoClobber
CHECK_DEADLOCK FALSE
