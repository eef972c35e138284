SPECIFICATION Spec
CONSTANTS
  FeatureSizes <- MCFeatureSizes
  LineCounts = {1, 2, 3}
  OldMaps <- MCOldMaps
  OtherMaps <- MCOtherMaps
  PoolSizes = {1, 2, 3}
  BufferSizes = {2, 4, 5, 7, 30}
  Base = 2
INVARIANTS
  ExportReadBack
  DamageContained
  AcceptedIffComplete
  BinsInTheirFeatures
CHECK_DEADLOCK FALSE
