CONSTANTS
  MaxItems = 2
  Parts = {"cache"}
SPECIFICATION Spec
PROPERTY CacheControlAssigned
