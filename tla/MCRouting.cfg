CONSTANTS
  Mount = "m"
  Names = {"m", "r", "d", "e", "f", "i", ".", ".."}
  Index = "i"
  Root <- MCRoot
  Dirs <- MCDirs
  Files <- MCFiles
  MaxPath = 6
  Args = {"(1)", "(2)"}
  Keys = {"k", "l"}
  MaxDicts = 4
SPECIFICATION RoutingSpec
INVARIANT Right
PROPERTY RefinesPair
PROPERTY HeldIsLive
PROPERTY Settles
CHECK_DEADLOCK FALSE
