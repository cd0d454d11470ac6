\* Two calls that may find each other's tree, with every outcome of every step
\* and a death at any point.
SPECIFICATION Spec
CONSTANTS
  Inputs <- MCInputs
  MaxRuns = 2
  MaxCrashes = 1
INVARIANT SuccessCoversEveryFile
INVARIANT ArtifactsKeptAsSaid
PROPERTY CommandsSeeOnlyTheseFiles
CHECK_DEADLOCK FALSE
