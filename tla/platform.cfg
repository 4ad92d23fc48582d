CONSTANTS
  None = None
  Java = java
  Game = {t1, t2}
  Plats = {p1, p2, p3}
  Activities = {a1, a2}
SPECIFICATION MCSpec
SYMMETRY Same
INVARIANTS
  TypeOK
  InUseIsValid
  LocalsReturned
  OnePlatform
  ActivityReachesAll
\* A thread that calls Java with an exception pending stops.
CHECK_DEADLOCK FALSE
