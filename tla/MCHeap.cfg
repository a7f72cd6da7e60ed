CONSTANTS
  Threads = {t1, t2}
  NoThread = NoThread
  Requests = {0, 1, 3}
  Products <- SomeProducts
  Limit = 18
  PAGE_SIZE = 6
  chunksize = 6
  SizeModulus = 64
SPECIFICATION Spec
SYMMETRY Symmetry
INVARIANTS PayloadIntact HeapTiles
PROPERTY ImplementsAlloc
CHECK_DEADLOCK FALSE
