CONSTANTS
  MaxSize = 3
  Block = 2
  MaxChanges = 1
  MaxRequests = 2
  Unrelated = FALSE
  Pages <- MCPages
  Sources = {"file", "wrap", "page"}
SPECIFICATION Spec
INVARIANT Assembled
INVARIANT NotStale
PROPERTY Released
PROPERTY Framed
PROPERTY Served
CHECK_DEADLOCK FALSE
