SPECIFICATION Spec
CONSTANTS
  NbEmployees = 2
  Societies = {a, b}
  All = All
  None = None
  Calls = {c1, c2}
  Start <- OneEach
  Asked <- Requests
  Attempts <- OnceAndTwice
  a = a
  b = b
  c1 = c1
  c2 = c2
  MaxChanges = 1
  MaxEvents = 1
VIEW StationView
INVARIANT
  TypeOK
  FreshMeansServer
PROPERTY
  NeverOlderThanKnown
  GetsTheShapeAsked
CHECK_DEADLOCK FALSE
