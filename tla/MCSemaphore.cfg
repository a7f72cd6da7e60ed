CONSTANTS
  Threads = {t1, t2, t3, t4}
  NoThread = NoThread
  Counts = {0, 2}
  MaxCalls = 9
SPECIFICATION FairSpec
INVARIANTS NoPanic CountMatchesWaiters
PROPERTIES ImplementsSem PermitsGetUsed
CHECK_DEADLOCK FALSE
