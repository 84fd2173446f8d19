CONSTANTS
  ProcessCount = 1
  PageCount = 4
  MaximumRecentPages = 2
  SpatialRadius = 1
  AccessCount = 4
  Localities <- MCLocalities
SPECIFICATION GeneratorSpec
INVARIANTS
  StaysInWorkingSet
  GeneratesLocalityStream
CHECK_DEADLOCK FALSE
