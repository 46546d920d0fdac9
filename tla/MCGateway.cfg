CONSTANTS
  Programs = {"wsgi", "client", "error", "raises"}
  Announced = 2
  MaxPieces = 4
  MaxStarts = 3
  MaxSends = 2
SPECIFICATION Spec
INVARIANT NothingLost
INVARIANT Released
INVARIANT SentWhole
INVARIANT LocationFits
CHECK_DEADLOCK FALSE
