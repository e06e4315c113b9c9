SPECIFICATION Spec
CHECK_DEADLOCK FALSE
CONSTANTS
  Null = Null
  MaxTurns = 5
  Files <- MCFiles
  Options <- MCOptions
INVARIANTS
  TypeOK
  TablesInStep
  VersionsShown
PROPERTIES
  VersionsEnd
