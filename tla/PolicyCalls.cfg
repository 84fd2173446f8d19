CONSTANTS
  Kinds = {"FIFO", "LRU", "CLOCK", "OPTIMAL"}
  Pages = {1, 2, 3}
  Frames = {0, 1, 2}
  References <- MCReferences
  MaxReplacements = 3
  MaxDirtyEvictions = 1
  NoFrame = NoFrame
SPECIFICATION Spec
INVARIANTS
  LruMapsMatchList
  LruVictimLeastRecentlyUsed
  FifoVictimLoadedFirst
  ClockScanIsSecondChance
  OptimalVictimFarthest
PROPERTIES
  KeepsContract
  ClockHandSurvivesRemoval
