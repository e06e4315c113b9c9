SPECIFICATION Spec
CHECK_DEADLOCK FALSE
CONSTANTS
  Segments <- MCSegments
  Strays <- MCStrays
INVARIANTS
  TypeOK
  NotesInStep
  ReadsStayInNote
PROPERTIES
  WalkEnds
