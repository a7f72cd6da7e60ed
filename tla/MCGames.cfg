CONSTANTS
  MaxThreads = 12
  n_mutexes = 3
  n_chasethreads = 2
  STUPID_MAGIC_CONSTANT = 1
  Footprints = {2, 3}
  threads = 2
  sems = 1
  run = 1
  Columns = 2
  NUM_THREADS = 3
  n_levels = 1
  n_throws = 2
  rep = 1
  MAX_MISBEHAVE = 3
  nthreads = 3
  LFSR_MAXTERM = 3
  MaxFailures = 1
  NR_MANIACS = 2
  CURSOR_MIN = 0
  CURSOR_MAX = 1
  MaxMoves = 2
  num_threads = 2
  wakeup_threshold = 1
  MaxKeys = 1
  con_width = 4
  con_height = 5
  SNAKE_START_COL = 1
  SNAKE_START_ROW = 1
  SNAKE_MIN_LENGTH = 2
  SNAKE_MAX_LENGTH = 4
  APPLE_MAX_NUM = 2
  APPLE_MIN_WAIT = 1
  APPLE_MAX_WAIT = 2
  MaxApples = 2
  Run = {"beady_test", "nibbles", "largetest"}
SPECIFICATION Spec
CONSTRAINT FewBusy
INVARIANTS ScreenIsCurrent ScreenShowsSnake EverythingReaped
CHECK_DEADLOCK FALSE
