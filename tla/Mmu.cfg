CONSTANTS
  NumFrames = 2
  Pages = {0, 1, 2}
  NoPage = NoPage
  NoFrame = NoFrame
  Processes = {"A", "B"}
  NoProcess = NoProcess
  VirtualPages = {0, 1}
  IdRegistrations <- MCIdRegistrations
  VpnRegistrations <- MCVpnRegistrations
  PageSize = 4
  AddressBound = 7
  Addresses <- MCAddresses
  Kinds = {"FIFO", "LRU", "CLOCK", "OPTIMAL"}
  References <- MCReferences
  DirectEntries = {}
  DirectFrames = {}
  MaxAccesses = 3
SPECIFICATION Spec
INVARIANTS
  TypeOK
  MappingCoherent
  PolicyTracksResidents
  AddressSpacesDisjoint
  CountersAgree
PROPERTIES
  KnownAccessSucceeds
  ResultTellsResidency
  IsPagedMemory
