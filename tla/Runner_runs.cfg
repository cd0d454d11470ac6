\* One run with every combination of failures and options, and histories of two
\* runs on one directory, either of which may die or be unable to undo.
SPECIFICATION Spec
CONSTANTS
  A = A
  Classes <- OneClass
  Absent = Absent
  Odd = Odd
  Foreign = Foreign
  Campaigns = {"matrix", "history"}
  Options <- MCOptions
  Inputs <- MCInputs
  FirstDisks <- MCDisks
  MaxRuns <- MCRuns
  MaxLosses <- MCLosses
INVARIANT OutcomeFollowsMatrix
INVARIANT ExitZeroMeansPublished
INVARIANT AdvertisedSourcesExist
INVARIANT FailureReportedOnOverwrite
PROPERTY SuppressedNeverPublished
CHECK_DEADLOCK FALSE
