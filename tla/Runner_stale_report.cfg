\* Which report a run leaves whose write has failed.
SPECIFICATION Spec
CONSTANTS
  A = A
  Classes <- OneClass
  Absent = Absent
  Odd = Odd
  Foreign = Foreign
  Campaigns = {"short"}
  Options <- MCOptions
  Inputs <- MCInputs
  FirstDisks <- MCDisks
  MaxRuns <- MCRuns
  MaxLosses <- MCLosses
INVARIANT WriteFailureReported
CHECK_DEADLOCK FALSE
