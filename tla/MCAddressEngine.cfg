SPECIFICATION Spec
CONSTANTS
  W = 4
  Step = 2
  MaxGroups = 3
  main = main
  Names <- MCNames
  Files = {}
  Readable = {}
  Lens <- MCLens
  Lines = {}
  Absent = Absent
  NoDebug = NoDebug
  NoSymbol = NoSymbol
  NoCode = NoCode
INVARIANTS
  InRoom
  TypeOK
  Sorted
  OwnAddress
  AccSafe
  CoveredAnswers
PROPERTIES
  OthersKept
  ImplementsMap
