CONSTANTS
  CommandLines <- BackLines
  Inputs <- BackData
  Leftovers <- Noise
  NULL = NULL
SPECIFICATION Spec
INVARIANT ConvertsBack
