SPECIFICATION Spec
CHECK_DEADLOCK FALSE
CONSTANTS
  Null = Null
  Texts <- MCTexts
  Programs <- MCPrograms
  Modes <- MCModes
INVARIANTS
  DatabaseWhole
  MatchedAsWritten
