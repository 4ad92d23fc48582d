CONSTANTS
  None = None
  Threads = {t1, t2, t3, t4}
  Objs = {o1, o2}
SPECIFICATION MCSpec
INVARIANTS
  TypeOK
  ReferencesLive
  HasFirstInstance
\* After destroy() every thread stops at the null pointer.
CHECK_DEADLOCK FALSE
