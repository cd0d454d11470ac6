\* One class, whose destructor only one of two translation units declares.
SPECIFICATION Spec
CONSTANTS
  None = None
  PathNamed <- MCPathNamed
  MapNamed <- MCMapNamed
  Regexes <- MCRegexes
  Numeral <- MCNumeral
  MaxInt = 8
  HardwareThreads = 0
  Extension <- MCExtension
  FilterNames <- MCFilterNames
  GlobNames <- MCGlobNames
  NameOrder <- Texts
  TokenNamed <- MCTokenNamed
  Setups <- DestructorSetups
INVARIANT EveryDifferenceIsAConflict
