CONSTANTS
  FeatureSet <- GapFeatureSet
  Pools <- GapSeeds
  Cmi <- PoolCmi
  EvalStepCount = 2
  FeatureCount = 3
  Workers = {w1}
  PoolBins <- GapBins
  PoolSeeds <- GapSeeds
  Examples = 6
  LabelValues = 3
SPECIFICATION Spec
INVARIANT VerifyHolds
CHECK_DEADLOCK FALSE
