SPECIFICATION Spec
CONSTANTS
  W = 3
  Step = 2
  MaxGroups = 3
  f1 = f1
  f2 = f2
  Names = {}
  Files <- MCFiles
  Readable <- MCReadable
  Lens = {}
  Lines <- MCLines
  Absent = Absent
  NoDebug = NoDebug
  NoSymbol = NoSymbol
  NoCode = NoCode
PROPERTY
  ImplementsMap
