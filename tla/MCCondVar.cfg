CONSTANTS
  Threads = {t1, t2, t3}
  Conds = {c1, c2}
  Mutexes = {m1}
  NoThread = NoThread
  NoMutex = NoMutex
  NoCond = NoCond
  MallocMayFail = TRUE
SPECIFICATION Spec
SYMMETRY Symmetry
INVARIANTS NoPanic NoLostWakeup EveryWaiterCanBeWoken NoUseAfterFree NoSpuriousReturn
PROPERTIES ImplementsCond
CHECK_DEADLOCK FALSE
