\* What the report of a failed formatter says of files that were not published.
SPECIFICATION Spec
CONSTANTS
  A = A
  Classes <- OneClass
  Absent = Absent
  Odd = Odd
  Foreign = Foreign
  Campaigns = {"short"}
  Options <- MCOptions
  Inputs <- MCInputs
  FirstDisks <- MCDisks
  MaxRuns <- MCRuns
  MaxLosses <- MCLosses
INVARIANT UsableSourcesExist
CHECK_DEADLOCK FALSE
