CONSTANTS
  Threads = {t1, t2, t3, t4}
  NoThread = NoThread
SPECIFICATION FairSpec
INVARIANTS MutualExclusion NoPanic FlagMatchesHolder
PROPERTIES SomeoneEnters ImplementsLock
