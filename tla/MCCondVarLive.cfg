CONSTANTS
  Threads = {t1, t2, t3}
  Conds = {c1}
  Mutexes = {m1}
  NoThread = NoThread
  NoMutex = NoMutex
  NoCond = NoCond
  MallocMayFail = FALSE
SPECIFICATION FairSpec
PROPERTY WokenLeaves
CHECK_DEADLOCK FALSE
