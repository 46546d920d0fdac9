CONSTANTS
  SortedNames <- MCNames
  Cut <- MCCut
  Values <- MCValues
  Wanted <- MCWanted
  Profiles <- MCProfiles
  Strays <- MCStrays
  Whats <- MCWhats
  PageKinds = {"response", "app"}
  MaxPairs = 3
  MaxSet = 3
  MaxCalls = 3
  MaxRequests = 3
SPECIFICATION CookiesSpec
INVARIANT ReadsHeader
INVARIANT OthersSurvive
INVARIANT Remembered
INVARIANT NothingLeft
PROPERTY EditsOne
CHECK_DEADLOCK FALSE
