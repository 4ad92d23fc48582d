CONSTANTS
  NoThread = NoThread
  Threads = {t1, t2}
  Objs = {o1, o2, o3}
  InitialSize = 2
  MaxSize = 1
  HasReset = TRUE
  HasCleanup = FALSE
  CallArgs = {TRUE}
  Faults = {"no_control_block", "reset_throws", "nested", "destroy"}
SPECIFICATION Spec
INVARIANTS
  UniqueOwner
PROPERTIES
  FreshHandout
  LeaseSpec
  SelfLockHasCause
\* A thread may lock the mutex it holds, or a destroyed one, and stop.
CHECK_DEADLOCK FALSE
