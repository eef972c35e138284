CONSTANTS
  ExampleCount = 4
  WordSize = 6
  MaxBinCount = 6
  VectorLimit = 8
  Bins <- MCBins
  Labels <- MCLabels
  StepCounts = {1, 2, 3}
SPECIFICATION Spec
INVARIANTS
  InformationExact
  AbortsIffTooManyBins
CHECK_DEADLOCK FALSE
