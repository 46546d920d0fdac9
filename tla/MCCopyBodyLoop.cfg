CONSTANTS
  r1 = r1
  v1 = v1
  Wire = Wire
  None = None
  Reqs = {r1}
  First = r1
  Values = {v1}
  Size <- MCSize
  BufSize = 3
  TempfileLimit = 3
  MaxBody = 5
  MaxFiles = 3
  Chunk = 2
SPECIFICATION LoopSpec
PROPERTY RefinesCopyBody
PROPERTY Terminates
