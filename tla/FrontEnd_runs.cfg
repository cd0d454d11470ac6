\* Every way through the front end: odd command lines and roots, trees with
\* links, one failing call of the file system, classes and translation units.
SPECIFICATION Spec
CONSTANTS
  None = None
  PathNamed <- MCPathNamed
  MapNamed <- MCMapNamed
  Regexes <- MCRegexes
  Numeral <- MCNumeral
  MaxInt = 8
  HardwareThreads = 0
  Extension <- MCExtension
  FilterNames <- MCFilterNames
  GlobNames <- MCGlobNames
  NameOrder <- Texts
  TokenNamed <- MCTokenNamed
  Setups <- MCSetups
INVARIANT AcceptedMeansAsWritten
INVARIANT ArtifactsNeverInInputRoot
INVARIANT OwnHeadersFoundOnce
INVARIANT CandidatesAreInputs
INVARIANT ConflictsFound
INVARIANT ClassesKeptApart
INVARIANT ArgsStandAlone
INVARIANT ForeignPathsReplaced
INVARIANT NoHeaderUnread
INVARIANT ReadyClassesBuild
INVARIANT NoEndlessDescent
