CONSTANTS
  NumFrames = 3
  Pages = {1, 2, 3, 4}
  NoPage = NoPage
  NoFrame = NoFrame
SPECIFICATION Spec
INVARIANTS
  OccupancyExact
  ConsistencyCheckExact
PROPERTIES
  BoundaryStepsAreClean
  BoundaryPreservesConsistency
