CONSTANTS
  Files <- MCFiles
  LinesInBatch = 2
  Workers = {w1, w2}
SPECIFICATION FairSpec
INVARIANTS
  PoolIsFile
  NoJobLeft
PROPERTIES
  ReadEnds
CHECK_DEADLOCK FALSE
