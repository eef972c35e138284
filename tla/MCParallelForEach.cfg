CONSTANTS
  ItemCount = 3
  Workers = {w1, w2}
SPECIFICATION FairSpec
INVARIANTS
  ImplAlive
  NoJobOutlivesCall
  ResultsInOrder
PROPERTIES
  CallEnds
CHECK_DEADLOCK FALSE
