SPECIFICATION Spec
CONSTANTS
  H = 2
  Archives <- MCArchives
  Strays <- MCStrays
INVARIANT
  EveryMemberShown
