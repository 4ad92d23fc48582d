CONSTANTS
  NoThread = NoThread
  Threads = {t1}
  Objs = {o1, o2, o3}
  InitialSize = 1
  MaxSize = 2
  HasReset = TRUE
  HasCleanup = TRUE
  CallArgs = {TRUE, FALSE}
  Faults = {"nested"}
SPECIFICATION FairSpec
PROPERTY Returned
\* The thread that locks the mutex it holds stops.
CHECK_DEADLOCK FALSE
