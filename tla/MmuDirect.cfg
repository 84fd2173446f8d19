CONSTANTS
  NumFrames = 2
  Pages = {1, 2, 3}
  NoPage = NoPage
  NoFrame = NoFrame
  Processes = {"A"}
  NoProcess = NoProcess
  VirtualPages = {1, 2}
  IdRegistrations <- DirectIdRegistrations
  VpnRegistrations = {}
  PageSize = 4
  AddressBound = 64
  Addresses <- DirectAddresses
  Kinds = {"FIFO"}
  References = {}
  DirectEntries <- MCDirectEntries
  DirectFrames = {0}
  MaxAccesses = 2
SPECIFICATION SpecWithDirectClients
PROPERTIES
  ResetTakesWholeMappings
  FailedAccessLeavesMemory
  AccessHarmsNoOther
