CONSTANTS
  CommandLines <- ConvertLines
  Inputs <- Data
  Leftovers <- Noise
  NULL = NULL
SPECIFICATION Spec
INVARIANTS
  TypeOK
  UndoneInReverse SearchFindsInput
  TextReadsBack CrashNeedsEmpty
