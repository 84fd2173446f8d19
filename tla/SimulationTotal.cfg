CONSTANTS
  ProcessCount = 2
  PageCount = 2
  MaximumRecentPages = 16
  SpatialRadius = 2
  NumFrames = 2
  NoPage = NoPage
  NoFrame = NoFrame
  NoProcess = NoProcess
  NoCreator = NoCreator
  NoPolicy = NoPolicy
  PageSize = 4
  AddressBound = 64
  MaxReaches = 1
  Configurations <- MCShortMix
SPECIFICATION Spec
INVARIANTS
  GeneratesConfiguredTotal
