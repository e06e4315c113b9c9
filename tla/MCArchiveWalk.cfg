SPECIFICATION Spec
CONSTANTS
  H = 2
  Archives <- MCArchives
  Strays <- MCStrays
INVARIANTS
  TypeOK
  SeenInOrder
  DumpsMembers
  Terminates
