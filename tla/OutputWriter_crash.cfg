\* Two calls, a crash and two edits by somebody else in any order.
SPECIFICATION Spec
CONSTANTS
  mock = mock
  fake = fake
  all = all
  bad = bad
  new = new
  other = other
  ClassA = ClassA
  ClassB = ClassB
  nc = nc
  Paths <- CrashPaths
  BadPath = bad
  Contents = {new, other}
  Absent = Absent
  Odd = Odd
  Torn = Torn
  Classes = {ClassA, ClassB}
  NoClass = nc
  Requests <- CrashRequests
  MaxRuns = 2
  MaxCrashes = 1
  MaxEdits = 2
INVARIANT NoTornOutput
INVARIANT OldCopyKept
PROPERTY AppearedFileSurvives
CHECK_DEADLOCK FALSE
