CONSTANTS
  r1 = r1
  r2 = r2
  a = a
  b = b
  Reqs = {r1, r2}
  First = r1
  Contents = {a, b}
  Nothing = a
  MaxViews = 2
SPECIFICATION ViewsSpec
INVARIANT OwnQueryCoherent
