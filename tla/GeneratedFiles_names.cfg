\* Classes of every kind and with the names that meet, under every policy.
SPECIFICATION Spec
CONSTANTS
  Classes <- MCClasses
  Namespaces <- MCNamespaces
  Name <- MCName
  Sanitized <- MCSanitized
  Projects <- MCProjects
INVARIANT CollisionsResolved
INVARIANT ReportNamesFiles
INVARIANT FragmentListsUsable
CHECK_DEADLOCK FALSE
