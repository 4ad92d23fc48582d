CONSTANTS
  NoThread = NoThread
  Threads = {t1, t2}
  Objs = {o1, o2, o3}
  InitialSize = 1
  MaxSize = 2
  HasReset = TRUE
  HasCleanup = TRUE
  CallArgs = {TRUE, FALSE}
  Faults = {}
SPECIFICATION MCSpec
INVARIANTS
  TypeOK
  NoLeak
  DemandBound
PROPERTIES
  FreshHandout
  MutexFreed
  ReturnGetsThrough
