CONSTANTS
  NoThread = NoThread
  Threads = {t1, t2}
  Types = {died, moved}
  MaxId = 3
  MaxEvents = 3
SPECIFICATION FairSpec
INVARIANTS
  TypeOK
  IdsIdentify
  NoLockInHandler
PROPERTIES
  MutexFreed
  BusSpec
