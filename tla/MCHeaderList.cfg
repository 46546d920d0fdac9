CONSTANTS
  MaxItems = 3
  Parts = {"multidict", "headers", "cache", "type"}
SPECIFICATION Spec
VIEW WithoutLastCall
INVARIANT ReadersAgree
INVARIANT CacheControlShown
PROPERTY RefinesMultimap
PROPERTY TypeKept
