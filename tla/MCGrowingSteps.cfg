CONSTANTS
  FeatureSet <- GrowingFeatureSet
  Pools <- GrowingSeeds
  Cmi <- PoolCmi
  EvalStepCount = 2
  FeatureCount = 5
  Workers = {w1}
  PoolBins <- GrowingBins
  PoolSeeds <- GrowingSeeds
  Examples = 10
  LabelValues = 3
SPECIFICATION Spec
INVARIANT FastEqualsSlow
CHECK_DEADLOCK FALSE
