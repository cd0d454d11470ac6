\* Two calls of up to three files and two crashes: every filesystem operation may
\* fail, and nobody else edits.
SPECIFICATION Spec
CONSTANTS
  mock = mock
  fake = fake
  all = all
  bad = bad
  new = new
  other = other
  ClassA = ClassA
  ClassB = ClassB
  nc = nc
  Paths <- MCPaths
  BadPath = bad
  Contents = {new, other}
  Absent = Absent
  Odd = Odd
  Torn = Torn
  Classes = {ClassA, ClassB}
  NoClass = nc
  Requests <- FaultRequests
  MaxRuns = 2
  MaxCrashes = 2
  MaxEdits = 0
INVARIANT TypeOK
INVARIANT ReportsMatchDisk
INVARIANT AllOrNothing
INVARIANT OneFileInFlight
PROPERTY ImplementsAtomicPublish
CHECK_DEADLOCK FALSE
