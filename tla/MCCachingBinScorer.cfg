CONSTANTS
  FeatureSet <- MCFeatureSet
  Pools <- MCSeeds
  Cmi <- PoolCmi
  EvalStepCount = 3
  PoolBins <- MCBins
  PoolSeeds <- MCSeeds
  Examples = 6
  LabelValues = 3
SPECIFICATION Spec
INVARIANTS
  TypeOK
  ChecksHold
  HelpersDistinct
  CacheCurrent
  GreedyUnlessGrown
CHECK_DEADLOCK FALSE
