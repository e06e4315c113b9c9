SPECIFICATION Spec
CONSTANTS
  NumCU = 2
  Layouts <- MCLayouts
INVARIANT
  VerboseKeepsFunctions
