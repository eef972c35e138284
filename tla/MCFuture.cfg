CONSTANTS
  Setters = {s1, s2}
  Getters = {g1, g2}
  Impatient = {g2}
  Subscribers = {c1, c2}
SPECIFICATION FairSpec
INVARIANTS
  ReadsComplete
  CallbacksConserved
PROPERTY IsOneShot
CHECK_DEADLOCK FALSE
