SPECIFICATION Spec
CONSTANTS
  NumCU = 2
  Layouts <- MCLayouts
INVARIANTS
  TypeOK
  InfoRunsToEnd
  EngineWhole
  ClosedAtEnd
PROPERTIES
  Terminates
