CONSTANTS
  NumFrames = 3
  Pages = {1, 2, 3, 4, 5}
  VirtualPages = {1, 2, 3, 4, 5}
  Processes = {1}
  NoPage = NoPage
  NoFrame = NoFrame
  NoProcess = NoProcess
  IdRegistrations = {}
  VpnRegistrations <- MCRegistrations
  PageSize = 4
  AddressBound = 64
  Addresses <- MCAddresses
  Kinds = {"FIFO", "LRU", "CLOCK", "OPTIMAL"}
  TraceLength = 8
  References <- MCTraces
  DirectEntries = {}
  DirectFrames = {}
  MaxAccesses = 0
SPECIFICATION TraceSpec
INVARIANTS
  OptimalIsLowerBound
  LruKeepsMostRecent
  DirtyDataWrittenBackOnce
  LogTellsWriteBacks
CHECK_DEADLOCK FALSE
