CONSTANTS
  Depth = 3
  MaxCookies = 2
  MaxCalls = 1
SPECIFICATION StackSpec
INVARIANT AnsweredWhole
CHECK_DEADLOCK FALSE
