SPECIFICATION Spec
CHECK_DEADLOCK FALSE
CONSTANTS
  Word = 65536
  Null = Null
  Files <- MCFiles
  Options <- MCOptions
INVARIANTS
  TypeOK
  ByteOrderFree
  VersionsAgree
  SegmentsHoldSections
  HistogramAddsUp
  GotWhole
  ShownAlike
