CONSTANTS
  FeatureSet <- MCFeatureSet
  Pools <- MCSeeds
  Cmi <- PoolCmi
  EvalStepCount = 2
  FeatureCount = 4
  Workers = {w1, w2}
  PoolBins <- MCBins
  PoolSeeds <- MCSeeds
  Examples = 8
  LabelValues = 3
SPECIFICATION FairSpec
INVARIANTS
  SlotsPrivate
  ScoresEqualSlow
  CmimOfFirstFeatures
PROPERTIES
  BackgroundStable
  Terminates
  SlotsImplementCachingBinScorer
  BestFeatureReported
CHECK_DEADLOCK FALSE
