CONSTANTS
  r1 = r1
  r2 = r2
  v1 = v1
  Wire = Wire
  None = None
  Reqs = {r1, r2}
  First = r1
  Values = {v1}
  Size <- MCSize
  BufSize = 2
  TempfileLimit = 1
  MaxBody = 3
  MaxFiles = 3
SPECIFICATION Spec
INVARIANT NeverReadPastLength
INVARIANT LengthMatches
INVARIANT NoTruncation
INVARIANT FreshReads
PROPERTY StreamInOrder
PROPERTY CopyFaithful
PROPERTY Independent
