CONSTANTS
  ProcessCount = 1
  PageCount = 3
  MaximumRecentPages = 16
  SpatialRadius = 2
  NumFrames = 2
  NoPage = NoPage
  NoFrame = NoFrame
  NoProcess = NoProcess
  NoCreator = NoCreator
  NoPolicy = NoPolicy
  PageSize = 4
  AddressBound = 64
  MaxReaches = 0
  Configurations <- MCConfigurations
  Benchmarks <- MCBenchmarks
SPECIFICATION ComparisonSpec
INVARIANTS
  ResultsComparable
  UninformedOptimalIsFifo
PROPERTIES
  ComparisonEnds
CHECK_DEADLOCK FALSE
