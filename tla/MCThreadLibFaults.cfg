CONSTANTS
  Tids = {r, a, b, c}
  MaxCreates = 3
  Root = r
  NoTid = NoTid
  Slots = 2
  NoSlot = NoSlot
  Window = 1
  Statuses = {s1, s2}
  NoStatus = NoStatus
  WellBehaved = FALSE
  Failures = {"malloc", "fork", "func", "size"}
SPECIFICATION Spec
SYMMETRY Symmetry
INVARIANTS OneWaiter
CHECK_DEADLOCK FALSE
