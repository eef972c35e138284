CONSTANTS
  ExampleCount = 4
  WordSize = 6
  MaxBinCount = 6
  VectorLimit = 8
  Bins <- MCBins
  Labels <- MCTwoClasses
  StepCounts = {1, 2, 3, 4, 5, 6}
SPECIFICATION Spec
INVARIANTS
  StepCountsUpToMaximumWork
CHECK_DEADLOCK FALSE
