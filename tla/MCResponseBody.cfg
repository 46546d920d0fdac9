CONSTANTS
  r1 = r1
  r2 = r2
  None = None
  Resps = {r1, r2}
  First = r1
  ZipHead = 2
  MaxPieces = 3
  MaxIters = 5
SPECIFICATION Spec
INVARIANT NothingLost
INVARIANT LengthTrue
INVARIANT ReadersClose
CHECK_DEADLOCK FALSE
