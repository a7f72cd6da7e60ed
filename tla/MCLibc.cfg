SPECIFICATION Spec
CONSTANTS
  HalfBits = 2
  Dividends <- MCOperands
  Divisors <- MCOperands
  Arrays <- MCArrays
  Strings <- MCStrings
  Delims <- MCDelims
  MemSize = 10
  NULL = NULL
  NUL = NUL
INVARIANTS DivisionExact SortedOutsideRanges TokensExact CopyExact
CHECK_DEADLOCK FALSE
