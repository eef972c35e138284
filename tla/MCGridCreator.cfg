SPECIFICATION MCSpec
CONSTANTS
  Float <- MCFloat
  Double <- MCDouble
  One = 4
  Limit = 256
  Exact = 8
  Vectors <- MCVectors
  BordersCounts = {1, 2, 4, 5}
  Modes <- MCModes
  IntWidth = 3
  WordSize = 6
INVARIANTS
  BinsInformative
  MedianIsBest
  OnlyPairsLeft
  RelativeOrderSavedInInt
  LabelReadBack
  GuaranteedOptimum
PROPERTIES
  SplitEnds
CHECK_DEADLOCK FALSE
