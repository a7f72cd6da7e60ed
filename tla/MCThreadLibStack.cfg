CONSTANTS
  Tids = {r, a, b}
  MaxCreates = 2
  Root = r
  NoTid = NoTid
  Slots = 2
  NoSlot = NoSlot
  Window = 2
  Statuses = {s1, s2}
  NoStatus = NoStatus
  WellBehaved = TRUE
  Failures = {}
SPECIFICATION Spec
INVARIANT OneThreadPerStack
CHECK_DEADLOCK FALSE
