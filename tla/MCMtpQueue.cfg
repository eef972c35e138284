CONSTANTS
  Owner = owner
  Adders = {a1, a2}
  Workers = {w1, w2}
  Eager = a1
  AddCalls <- MCAddCalls
  Settings <- MCSettings
SPECIFICATION FairSpec
INVARIANTS
  StopDrains
  OwnerNotForgotten
  JobsNotForgotten
PROPERTIES
  AddReturns
  IsJobPool
CHECK_DEADLOCK FALSE
