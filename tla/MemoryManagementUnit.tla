------------------------ MODULE MemoryManagementUnit ------------------------
(***************************************************************************)
(* MemoryManagementUnit: registration of pages, memory accesses with their *)
(* page faults and replacements, and reset, over the page mapping and a    *)
(* replacement policy.  The class is single-threaded and each of its       *)
(* public operations runs to its end, so each is one step here; access()   *)
(* is the disjunction of its outcomes.                                     *)
(*                                                                         *)
(*   mem         the page table and physical memory (PageMapping)          *)
(*   owner       the process of the Page stored under each key of pages_   *)
(*   pages       the Page objects: frame, dirty and referenced             *)
(*   vmap        virtualPageMappings_                                      *)
(*   pol         the replacement policy (ReplacementPolicy)                *)
(*   counts      pageFaultCount_, pageReplacementCount_, dirtyEvictionCount_ *)
(*   procStats   pageFaultStatistics_, by process                          *)
(*   result      the MemoryAccessResult of the last access                 *)
(*   log         what activityLog_ points to (ActivityLog)                 *)
(***************************************************************************)
EXTENDS PageMapping, ReplacementPolicy, Sequences

CONSTANTS
  Processes,          \* ProcessId values
  NoProcess,          \* the owner of a page that is not registered
  VirtualPages,       \* virtual-page numbers
  IdRegistrations,    \* <<page, process>> pairs clients register
  VpnRegistrations,   \* <<page, virtual page, process>> triples likewise
  PageSize,           \* bytes per page
  AddressBound,       \* number of addresses, 2^64 in the code
  Addresses,          \* virtual addresses clients access
  Kinds,              \* kinds of replacement policy
  References,         \* reference sequences the owner may give Optimal
  DirectEntries,      \* <<page, frame>> pairs clients enter in the page table
  DirectFrames,       \* frames clients map Page objects to
  MaxAccesses         \* bounds the accesses counted since a reset

ASSUME ProcessesAssumption == IsFiniteSet(Processes) /\ NoProcess \notin Processes
ASSUME KindsAssumption == Kinds \subseteq PolicyKinds
(* A reference sequence is a vector: it has a length. *)
ASSUME ReferencesAssumption == \A references \in References : Len(references) \in Nat
ASSUME VirtualPagesAssumption ==
  /\ NoPage \notin VirtualPages
  /\ IdRegistrations \subseteq (Pages \cap VirtualPages) \X Processes
  /\ VpnRegistrations \subseteq Pages \X VirtualPages \X Processes
ASSUME AddressesAssumption ==
  /\ PageSize \in Nat \ {0}
  /\ AddressBound \in Nat \ {0}
  /\ Addresses \subseteq 0 .. AddressBound - 1
  /\ \A a \in Addresses : a \div PageSize \in VirtualPages

(* A client may name any frame, one outside memory too. *)
ASSUME DirectAssumption ==
  /\ DirectEntries \subseteq Pages \X FrameIds
  /\ DirectFrames \subseteq FrameIds

Activity == INSTANCE ActivityLog

VARIABLES mem, owner, pages, vmap, pol, counts, procStats, result, log

statistics == <<counts, procStats>>
vars == <<mem, owner, pages, vmap, pol, counts, procStats, result, log>>

registered == {p \in Pages : owner[p] # NoProcess}

(* A Page as clients construct it and as unmapFromFrame() leaves it. *)
AbsentPage == [frame |-> NoFrame, dirty |-> FALSE, referenced |-> FALSE]

NoCounts == [faults |-> 0, replacements |-> 0, dirtyEvictions |-> 0]

NoProcStats == [pid \in Processes |-> [accesses |-> 0, faults |-> 0]]

(* failure(): no frame, no address, and pageFault false by default. *)
Failure == [success |-> FALSE, pageFault |-> FALSE, replaced |-> FALSE,
            dirtyEviction |-> FALSE, frame |-> NoFrame, address |-> NoFrame]

Init ==
  /\ mem = EmptyMemory
  /\ owner = [p \in Pages |-> NoProcess]
  /\ pages = [p \in Pages |-> AbsentPage]
  /\ vmap = [pid \in Processes |-> [v \in VirtualPages |-> NoPage]]
  /\ pol \in {NewPolicy(kind) : kind \in Kinds}
  /\ counts = NoCounts
  /\ procStats = NoProcStats
  /\ result = Failure
  /\ log = Activity!NoLog

-----------------------------------------------------------------------------
(* Registration *)

(* Faulty: a page is registered a second time. *)
RegistrableAgain(p) == ~IsMapped(mem, p) /\ ~IsPageMapped(mem, p)

Registrable(p) == p \notin registered /\ ~IsMapped(mem, p) /\ ~IsPageMapped(mem, p)

(* registerPage(Page): the page goes under its own id as virtual page,     *)
(* unless that virtual page of its process is taken, which emplace() does  *)
(* not report; registration succeeds either way.  The Page passed is a new *)
(* one: a resident one is refused, and one marked dirty before is one that *)
(* a direct client marks afterwards.                                       *)
RegisterPage(p, pid) ==
  /\ Registrable(p)
  /\ owner' = [owner EXCEPT ![p] = pid]
  /\ pages' = [pages EXCEPT ![p] = AbsentPage]
  /\ vmap' = [vmap EXCEPT ![pid][p] = IF @ = NoPage THEN p ELSE @]
  /\ UNCHANGED <<mem, pol, statistics, result, log>>

(* registerPage(Page, VirtualPageNumber): rolled back when the virtual     *)
(* page is taken, so a refused registration changes nothing.               *)
RegisterPageAt(p, v, pid) ==
  /\ Registrable(p)
  /\ vmap[pid][v] = NoPage
  /\ owner' = [owner EXCEPT ![p] = pid]
  /\ pages' = [pages EXCEPT ![p] = AbsentPage]
  /\ vmap' = [vmap EXCEPT ![pid][v] = p]
  /\ UNCHANGED <<mem, pol, statistics, result, log>>

-----------------------------------------------------------------------------
(* Access *)

Resolve(pid, a) == vmap[pid][a \div PageSize]

(* The three checks of access() before it counts the access. *)
Known(pid, a) ==
  /\ Resolve(pid, a) \in registered
  /\ owner[Resolve(pid, a)] = pid

(* What an access reports: that it begins, what happens on the way, and    *)
(* its result.                                                             *)
Reports(pid, p, events, f) ==
  log' = Activity!RecordAll(log, <<Activity!Status(pid, p)>> \o events
                                   \o <<Activity!Access(pid, p, f, result')>>)

(* The page that stands for one that is not registered in what is reported. *)
UnknownPage == 0

CountAccess(pid) == procStats' = [procStats EXCEPT ![pid].accesses = @ + 1]

CountFaultOf(pid) ==
  procStats' = [procStats EXCEPT
                 ![pid] = [accesses |-> @.accesses + 1, faults |-> @.faults + 1]]

(* Faulty: the fault is not attributed to its process. *)
CountFaultInTotal(pid) ==
  /\ counts' = [counts EXCEPT !.faults = @ + 1]
  /\ CountAccess(pid)

CountFault(pid) ==
  /\ counts' = [counts EXCEPT !.faults = @ + 1]
  /\ CountFaultOf(pid)

AccessUnknown(pid, a) ==
  /\ ~Known(pid, a)
  /\ result' = Failure
  /\ LET p == IF Resolve(pid, a) \in registered THEN Resolve(pid, a) ELSE UnknownPage
     IN  log' = Activity!RecordAll(log, <<Activity!Status(pid, Resolve(pid, a)),
                                          Activity!Access(pid, p, NoFrame, Failure)>>)
  /\ UNCHANGED <<mem, owner, pages, vmap, pol, statistics>>

(* Faulty: the address is that of the start of the page. *)
FrameAddress(f, a) == (f * PageSize) % AddressBound

(* frame * pageSize + offset in 64-bit arithmetic, as completeAccess()     *)
(* computes it.                                                            *)
PhysicalAddress(f, a) == ((f * PageSize) + (a % PageSize)) % AddressBound

(* The check of makePhysicalAddress(), which only a replacement makes. *)
Representable(f, a) == f <= ((AddressBound - 1) - (a % PageSize)) \div PageSize

(* Faulty: every replacement reports a dirty eviction. *)
SuccessAlwaysDirty(f, a, fault, replacement, dirty) ==
  [success |-> TRUE, pageFault |-> fault, replaced |-> replacement,
   dirtyEviction |-> replacement, frame |-> f, address |-> PhysicalAddress(f, a)]

Success(f, a, fault, replacement, dirty) ==
  [success |-> TRUE, pageFault |-> fault, replaced |-> replacement,
   dirtyEviction |-> dirty, frame |-> f, address |-> PhysicalAddress(f, a)]

(* Faulty: a read makes the page clean. *)
TouchedByLast(page, f, write) ==
  [frame |-> f, dirty |-> write, referenced |-> TRUE]

Touched(page, f, write) ==
  [frame |-> f, dirty |-> page.dirty \/ write, referenced |-> TRUE]

(* The table has the page, and physical memory and the Page object agree. *)
AccessResident(pid, p, a, write) ==
  /\ IsMapped(mem, p)
  /\ IsMappingConsistent(mem, p)
  /\ pages[p].frame = mem.table[p]
  /\ pages' = [pages EXCEPT ![p] = Touched(@, mem.table[p], write)]
  /\ pol' = PageAccessed(pol, p, mem.table[p])
  /\ result' = Success(mem.table[p], a, FALSE, FALSE, FALSE)
  /\ Reports(pid, p, <<>>, mem.table[p])
  /\ CountAccess(pid)
  /\ UNCHANGED <<mem, owner, vmap, counts>>

(* Faulty: the contradicted page is unmapped on the way. *)
AccessInconsistentUnmapping(pid, p) ==
  /\ IsMapped(mem, p)
  /\ ~IsMappingConsistent(mem, p) \/ pages[p].frame # mem.table[p]
  /\ pages' = [pages EXCEPT ![p] = AbsentPage]
  /\ result' = Failure
  /\ Reports(pid, p, <<>>, NoFrame)
  /\ CountAccess(pid)
  /\ UNCHANGED <<mem, owner, vmap, pol, counts>>

(* The table has the page, but one of the others contradicts it. *)
AccessInconsistent(pid, p) ==
  /\ IsMapped(mem, p)
  /\ ~IsMappingConsistent(mem, p) \/ pages[p].frame # mem.table[p]
  /\ result' = Failure
  /\ Reports(pid, p, <<>>, IF IsMappingConsistent(mem, p) THEN mem.table[p] ELSE NoFrame)
  /\ CountAccess(pid)
  /\ UNCHANGED <<mem, owner, pages, vmap, pol, counts>>

(* A fault for a page the other components still hold is refused before it *)
(* is counted.                                                             *)
FaultRefused(pid, p) ==
  /\ ~IsMapped(mem, p)
  /\ pages[p].frame # NoFrame \/ IsPageMapped(mem, p)
  /\ result' = Failure
  /\ Reports(pid, p, <<>>, NoFrame)
  /\ CountAccess(pid)
  /\ UNCHANGED <<mem, owner, pages, vmap, pol, counts>>

Faulting(p) == ~IsMapped(mem, p) /\ pages[p].frame = NoFrame /\ ~IsPageMapped(mem, p)

(* The policy hears of the access before it hears of the load. *)
AfterLoad(policy, p, f) == PageLoaded(PageAccessed(policy, p, f), p, f)

FaultWithFreeFrame(pid, p, a, write) ==
  LET f == MapPage(mem, p).table[p]
  IN  /\ Faulting(p)
      /\ HasFreeFrame(mem)
      /\ mem' = MapPage(mem, p)
      /\ pages' = [pages EXCEPT ![p] = Touched(@, f, write)]
      /\ pol' = AfterLoad(pol, p, f)
      /\ result' = Success(f, a, TRUE, FALSE, FALSE)
      /\ Reports(pid, p, <<Activity!PageFault(pid, p), Activity!FrameAssignment(pid, p, f)>>, f)
      /\ CountFault(pid)
      /\ UNCHANGED <<owner, vmap>>

(* The only failure whose result says that a page fault happened. *)
FaultWithoutVictim(pid, p) ==
  /\ Faulting(p)
  /\ ~HasFreeFrame(mem)
  /\ ~HasVictim(pol)
  /\ pol' = AfterChoice(pol)
  /\ result' = [Failure EXCEPT !.pageFault = TRUE]
  /\ Reports(pid, p, <<Activity!PageFault(pid, p)>>, NoFrame)
  /\ CountFault(pid)
  /\ UNCHANGED <<mem, owner, pages, vmap>>

(* Faulty: a dirty page is never replaced. *)
EvictableIfClean(f) ==
  /\ f \in OccupiedFrames(mem)
  /\ mem.frames[f] \in registered
  /\ pages[mem.frames[f]].frame = f
  /\ ~pages[mem.frames[f]].dirty
  /\ IsMappingConsistent(mem, mem.frames[f])

(* Faulty: page table and Page object are not consulted. *)
EvictableUnseen(f) == f \in OccupiedFrames(mem) /\ mem.frames[f] \in registered

(* The victim's frame, its page, the Page object and the table agree. *)
Evictable(f) ==
  /\ f \in OccupiedFrames(mem)
  /\ mem.frames[f] \in registered
  /\ pages[mem.frames[f]].frame = f
  /\ IsMappingConsistent(mem, mem.frames[f])

(* The fault is counted and the policy has made its choice, but nothing is *)
(* evicted and the result reports no page fault.                           *)
FaultRefusesVictim(pid, p, a) ==
  /\ Faulting(p)
  /\ ~HasFreeFrame(mem)
  /\ HasVictim(pol)
  /\ ~Evictable(Victim(pol)) \/ ~Representable(Victim(pol), a)
  /\ pol' = AfterChoice(pol)
  /\ result' = Failure
  /\ Reports(pid, p, <<Activity!PageFault(pid, p)>>, NoFrame)
  /\ CountFault(pid)
  /\ UNCHANGED <<mem, owner, pages, vmap>>

(* Faulty: the policy is not told that the victim has left. *)
AfterReplacementUntold(p, v, f) == AfterLoad(AfterChoice(pol), p, f)

(* The frame released is then the only free one, so the requested page is  *)
(* mapped to it and the code's restoration of the victim is not reached.   *)
AfterReplacement(p, v, f) ==
  AfterLoad(PageRemoved(AfterChoice(pol), v, f), p, f)

(* Faulty: the eviction is reported before the replacement that causes it. *)
ReplacementEventsSwapped(pid, p, v, f, dirty) ==
  <<Activity!PageFault(pid, p)>>
    \o (IF dirty THEN <<Activity!DirtyEviction(pid, v, f)>> ELSE <<>>)
    \o <<Activity!PageReplacement(pid, p, f, v)>>

(* Faulty: the victim and the requested page are exchanged. *)
ReplacementEventsExchanged(pid, p, v, f, dirty) ==
  <<Activity!PageFault(pid, p), Activity!PageReplacement(pid, v, f, p)>>
    \o (IF dirty THEN <<Activity!DirtyEviction(pid, v, f)>> ELSE <<>>)

(* The dirty eviction is reported only once the replacement is complete. *)
ReplacementEvents(pid, p, v, f, dirty) ==
  <<Activity!PageFault(pid, p), Activity!PageReplacement(pid, p, f, v)>>
    \o (IF dirty THEN <<Activity!DirtyEviction(pid, v, f)>> ELSE <<>>)

FaultWithReplacement(pid, p, a, write) ==
  LET f == Victim(pol)
      v == mem.frames[f]
      d == pages[v].dirty
  IN  /\ Faulting(p)
      /\ ~HasFreeFrame(mem)
      /\ HasVictim(pol)
      /\ Evictable(f)
      /\ Representable(f, a)
      /\ mem' = MapPage(ReleaseFrame(mem, f), p)
      /\ pages' = [pages EXCEPT ![v] = AbsentPage, ![p] = Touched(@, f, write)]
      /\ pol' = IF d THEN RecordDirtyEviction(AfterReplacement(p, v, f))
                     ELSE AfterReplacement(p, v, f)
      /\ counts' = [faults         |-> counts.faults + 1,
                    replacements   |-> counts.replacements + 1,
                    dirtyEvictions |-> counts.dirtyEvictions + IF d THEN 1 ELSE 0]
      /\ CountFaultOf(pid)
      /\ result' = Success(f, a, TRUE, TRUE, d)
      /\ Reports(pid, p, ReplacementEvents(pid, p, v, f, d), f)
      /\ UNCHANGED <<owner, vmap>>

AccessKnown(pid, p, a, write) ==
  \/ AccessResident(pid, p, a, write)
  \/ AccessInconsistent(pid, p)
  \/ FaultRefused(pid, p)
  \/ FaultWithFreeFrame(pid, p, a, write)
  \/ FaultWithoutVictim(pid, p)
  \/ FaultRefusesVictim(pid, p, a)
  \/ FaultWithReplacement(pid, p, a, write)

Access(pid, a, write) ==
  \/ AccessUnknown(pid, a)
  \/ Known(pid, a) /\ AccessKnown(pid, Resolve(pid, a), a, write)

-----------------------------------------------------------------------------
(* Reset *)

(* The page in the frame that page p's object names. *)
Holder(p) == mem.frames[pages[p].frame]

(* Faulty: reset() does not ask whether the page's own mapping is consistent. *)
ReleasableUnchecked ==
  {p \in registered : pages[p].frame # NoFrame /\ CanReleaseFrame(mem, pages[p].frame)}

(* The pages reset() does not skip, if the frames are still as it found    *)
(* them.  Only the boundary's releaseFrame() looks at the frame that the   *)
(* Page object names, and it gives that frame back whoever holds it.       *)
Releasable ==
  {p \in registered : /\ pages[p].frame # NoFrame
                      /\ IsMappingConsistent(mem, p)
                      /\ CanReleaseFrame(mem, pages[p].frame)}

(* The loop meets the pages in the order of a hash map, which may be any.  *)
(* A page has its turn in vain if its own frame, or the frame its object   *)
(* names, has been given back before.                                      *)
IsReleased(turn, R) ==
  \A p \in Releasable :
    p \in R <=> \A q \in R : turn[q] < turn[p] => Holder(q) \notin {p, Holder(p)}

Turns == Injection(Pages, 1 .. Cardinality(Pages))

(* The sets of pages that reset() may release. *)
Releases == {R \in SUBSET Releasable : \E turn \in Turns : IsReleased(turn, R)}

ReleasedFrames(R) == {pages[p].frame : p \in R}

MemoryWithout(R) ==
  [frames    |-> [f \in Frames |-> IF f \in ReleasedFrames(R) THEN NoPage ELSE mem.frames[f]],
   allocated |-> mem.allocated - Cardinality(ReleasedFrames(R)),
   table     |-> [p \in Pages |-> IF \E q \in R : Holder(q) = p THEN NoFrame ELSE mem.table[p]]]

(* Faulty: the Page objects are not unmapped. *)
ResetKeepingPages ==
  /\ procStats' = NoProcStats
  /\ counts' = NoCounts
  /\ pol' = ResetPolicy(pol)
  /\ \E R \in Releases : mem' = MemoryWithout(R)
  /\ UNCHANGED <<owner, pages, vmap, result, log>>

Reset ==
  /\ procStats' = NoProcStats
  /\ counts' = NoCounts
  /\ pol' = ResetPolicy(pol)
  /\ \E R \in Releases :
       /\ mem' = MemoryWithout(R)
       /\ pages' = [p \in Pages |-> IF p \in R THEN AbsentPage ELSE pages[p]]
  /\ UNCHANGED <<owner, vmap, result, log>>

(* The owner of an Optimal policy supplies the future directly. *)
SupplyReferences(references) ==
  /\ pol.kind = "OPTIMAL"
  /\ pol' = SetReferenceSequence(pol, references)
  /\ UNCHANGED <<mem, owner, pages, vmap, statistics, result, log>>

-----------------------------------------------------------------------------
(* Clients of the page table, of physical memory and of the Page objects   *)
(* that bypass the MMU: it shares the first two by reference, and page()   *)
(* hands out the third.  A client's mapPage(), unmapPage() or              *)
(* releaseFrame() through a boundary of its own is two of these steps.     *)

Bypassing(m) ==
  /\ mem' = m
  /\ UNCHANGED <<owner, pages, vmap, pol, statistics, result, log>>

(* mapToFrame(), which refuses a resident page, unmapFromFrame(), which    *)
(* refuses one that is not, markDirty() and clearDirty().                  *)
ChangedPages(page) ==
  {[page EXCEPT !.dirty = TRUE], [page EXCEPT !.dirty = FALSE]}
    \cup IF page.frame = NoFrame
         THEN {[page EXCEPT !.frame = f] : f \in DirectFrames}
         ELSE {AbsentPage}

ChangingPage(p, page) ==
  /\ pages' = [pages EXCEPT ![p] = page]
  /\ UNCHANGED <<mem, owner, vmap, pol, statistics, result, log>>

DirectClient ==
  \/ \E p \in registered : \E page \in ChangedPages(pages[p]) : ChangingPage(p, page)
  \/ \E entry \in DirectEntries : \/ Bypassing(MapEntry(mem, entry[1], entry[2]))
                                  \/ Bypassing(UpdateMapping(mem, entry[1], entry[2]))
  \/ \E p \in Pages : Bypassing(UnmapEntry(mem, p)) \/ Bypassing(AllocateFrame(mem, p))
  \/ \E f \in Frames : Bypassing(ReleasePhysicalFrame(mem, f))
  \/ Bypassing(ClearPageTable(mem))
  \/ Bypassing(ClearPhysicalMemory(mem))

-----------------------------------------------------------------------------
AccessBudget(pid) == procStats[pid].accesses < MaxAccesses

Next ==
  \/ \E registration \in IdRegistrations :
       RegisterPage(registration[1], registration[2])
  \/ \E registration \in VpnRegistrations :
       RegisterPageAt(registration[1], registration[2], registration[3])
  \/ \E pid \in Processes, a \in Addresses, write \in BOOLEAN :
       AccessBudget(pid) /\ Access(pid, a, write)
  \/ \E references \in References : SupplyReferences(references)
  \/ Reset

Spec == Init /\ [][Next]_vars

SpecWithDirectClients == Init /\ [][Next \/ DirectClient]_vars

-----------------------------------------------------------------------------
(* Properties of clients that use the unit alone (Spec) *)

Resident == {p \in Pages : pages[p].frame # NoFrame}

ResidentPairs == {[page |-> p, frame |-> pages[p].frame] : p \in Resident}

Counters == [faults : Nat, replacements : Nat, dirtyEvictions : Nat]

TypeOK ==
  /\ mem \in Memory
  /\ owner \in [Pages -> Processes \cup {NoProcess}]
  /\ pages \in [Pages -> [frame      : Frames \cup {NoFrame},
                          dirty      : BOOLEAN,
                          referenced : BOOLEAN]]
  /\ vmap \in [Processes -> [VirtualPages -> Pages \cup {NoPage}]]
  /\ counts \in Counters
  /\ procStats \in [Processes -> [accesses : Nat, faults : Nat]]

(***************************************************************************)
(* The three records of residency agree (page table, frames, Page objects  *)
(* - access() refuses to go on when they do not), only registered pages    *)
(* are resident, a page that is not resident is neither dirty nor          *)
(* referenced, and the allocation counter is exact.                        *)
(***************************************************************************)
MappingCoherent ==
  /\ MutuallyInverse(mem)
  /\ \A p \in Pages : pages[p].frame = mem.table[p]
  /\ \A p \in Pages : mem.table[p] = NoFrame => pages[p] = AbsentPage
  /\ Resident \subseteq registered
  /\ mem.allocated = Cardinality(OccupiedFrames(mem))

(***************************************************************************)
(* The policy takes exactly the resident pages to be resident, each in its *)
(* frame, although access() tells it of a use before it tells it of the    *)
(* load; otherwise a full memory could be left without a victim.           *)
(***************************************************************************)
PolicyTracksResidents == Tracked(pol) = ResidentPairs

(***************************************************************************)
(* The process-ownership check of access() never has to refuse: a virtual  *)
(* page leads to a page of its own process, and no page has two virtual    *)
(* pages.                                                                  *)
(***************************************************************************)
AddressSpacesDisjoint ==
  \A pid, other \in Processes : \A v, w \in VirtualPages :
    vmap[pid][v] # NoPage =>
      /\ vmap[pid][v] \in registered
      /\ owner[vmap[pid][v]] = pid
      /\ vmap[pid][v] = vmap[other][w] => pid = other /\ v = w

AddressesFit == \A a \in Addresses : Representable(NumFrames - 1, a)

(***************************************************************************)
(* The three places that count agree: each fault since the last reset      *)
(* either took a free frame or made the policy decide for a victim, if     *)
(* there are frames at all, the per-process faults add up to the total,    *)
(* and no decision is lost unless some physical address does not fit,      *)
(* which is found out after it.                                            *)
(***************************************************************************)
CountersAgree ==
  /\ NumFrames > 0 => counts.faults = Cardinality(Resident) + pol.replacements
  /\ counts.faults = MapThenSumSet(LAMBDA pid : procStats[pid].faults, Processes)
  /\ counts.replacements <= pol.replacements
  /\ AddressesFit => counts.replacements = pol.replacements
  /\ counts.dirtyEvictions = pol.dirtyEvictions
  /\ counts.dirtyEvictions <= counts.replacements

(***************************************************************************)
(* An access to a page its process can reach succeeds, unless it needs a   *)
(* victim whose frame has no representable address, or memory has no       *)
(* frames at all, when it fails and says that there was a page fault.  The *)
(* table, the frame and the result of one that succeeds name the same      *)
(* frame, and the physical address is that of the byte asked for -         *)
(* completeAccess() computes it unchecked, so a page loaded into a free    *)
(* frame beyond the addresses gets a wrong one.                            *)
(***************************************************************************)
KnownAccessSucceeds ==
  [][\A pid \in Processes, a \in Addresses, write \in BOOLEAN :
       Known(pid, a) /\ AccessKnown(pid, Resolve(pid, a), a, write) =>
         \/ /\ result'.success
            /\ result'.frame = mem'.table[Resolve(pid, a)]
            /\ mem'.frames[result'.frame] = Resolve(pid, a)
            /\ Representable(result'.frame, a) =>
                 /\ result'.address \div PageSize = result'.frame
                 /\ result'.address % PageSize = a % PageSize
         \/ ~HasFreeFrame(mem) /\ HasVictim(pol) /\ ~Representable(Victim(pol), a)
         \/ NumFrames = 0 /\ ~result'.success /\ result'.pageFault]_vars

AccessStep ==
  \E pid \in Processes, a \in Addresses, write \in BOOLEAN : Access(pid, a, write)

(***************************************************************************)
(* The result an access returns tells what happened to residency: pages    *)
(* enter only by a successful fault, leave only by a replacement, and the  *)
(* one that leaves was dirty just when a dirty eviction is reported.       *)
(***************************************************************************)
ResultTellsResidency ==
  [][AccessStep =>
       LET left    == Resident \ Resident'
           entered == Resident' \ Resident
       IN  /\ entered # {} <=> result'.success /\ result'.pageFault
           /\ left # {} <=> result'.replaced
           /\ left # {} => ~HasFreeFrame(mem) /\ entered # {}
           /\ (\E p \in left : pages[p].dirty) <=> result'.dirtyEviction
           /\ Cardinality(left) <= 1 /\ Cardinality(entered) <= 1]_vars

(***************************************************************************)
(* The unit is demand paging: see PagedMemory.                             *)
(***************************************************************************)
Paging == INSTANCE PagedMemory WITH
  resident   <- Resident,
  dirty      <- {p \in Pages : pages[p].dirty},
  faults     <- counts.faults,
  evictions  <- counts.replacements,
  writebacks <- counts.dirtyEvictions

IsPagedMemory == Paging!Spec

-----------------------------------------------------------------------------
(* Properties that survive direct clients (SpecWithDirectClients), as long *)
(* as they change no Frame object                                          *)

(***************************************************************************)
(* An access that fails leaves the memory, the Page objects and the        *)
(* registrations as they were, however direct clients changed them before. *)
(***************************************************************************)
FailedAccessLeavesMemory ==
  [][~result'.success /\ AccessStep =>
       UNCHANGED <<mem, owner, pages, vmap>>]_vars

(***************************************************************************)
(* An access that succeeds leaves its own page consistent, and every other *)
(* page as it was or, if it was the victim, consistently gone.             *)
(***************************************************************************)
AccessHarmsNoOther ==
  [][\A pid \in Processes, a \in Addresses, write \in BOOLEAN :
       result'.success /\ Access(pid, a, write) =>
         LET p == Resolve(pid, a)
         IN  /\ IsMappingConsistent(mem', p) /\ pages'[p].frame = mem'.table[p]
             /\ \A q \in Pages \ {p} :
                  \/ /\ pages'[q] = pages[q]
                     /\ mem'.table[q] = mem.table[q]
                     /\ FramesHolding(mem', q) = FramesHolding(mem, q)
                  \/ /\ result'.replaced
                     /\ IsMappingConsistent(mem, q)
                     /\ pages'[q] = AbsentPage
                     /\ ~IsMapped(mem', q) /\ ~IsPageMapped(mem', q)]_vars

(***************************************************************************)
(* The counter that decides whether memory is full is exact and no page    *)
(* has two frames, although reset() gives back frames that Page objects    *)
(* name and not only those that their pages hold.                          *)
(***************************************************************************)
OccupancyStaysExact ==
  /\ mem.allocated = Cardinality(OccupiedFrames(mem))
  /\ \A f, g \in Frames :
       mem.frames[f] = mem.frames[g] /\ IsOccupied(mem, f) => f = g

(* The table, the frames and the Page object name one frame for page p. *)
Agreed(p) == IsMappingConsistent(mem, p) /\ pages[p].frame = mem.table[p]

(* Another page, itself consistent, names the frame that page q is in. *)
NamedByAnother(q) ==
  \E p \in Pages \ {q} : IsMappingConsistent(mem, p) /\ pages[p].frame = mem.table[q]

(***************************************************************************)
(* reset() takes both halves of a mapping or none.  The memory of a page   *)
(* whose records agree is always taken; what else is taken, or is taken    *)
(* from a page whose object stays resident, is what another page's object  *)
(* named; and only an object whose frame is free afterwards is unmapped.   *)
(***************************************************************************)
ResetTakesWholeMappings ==
  [][Reset =>
       \A q \in Pages :
         LET kept == /\ mem'.table[q] = mem.table[q]
                     /\ FramesHolding(mem', q) = FramesHolding(mem, q)
         IN  /\ kept \/ (IsMappingConsistent(mem, q) /\ KnownNowhere(mem', q))
             /\ Agreed(q) => ~kept
             /\ ~kept => (Agreed(q) /\ pages'[q] = AbsentPage) \/ NamedByAnother(q)
             /\ pages'[q] # pages[q] =>
                  /\ pages'[q] = AbsentPage
                  /\ IsMappingConsistent(mem, q)
                  /\ pages[q].frame \in OccupiedFrames(mem) \ OccupiedFrames(mem')]_vars

-----------------------------------------------------------------------------
(* What the documentation says, and the code does not do *)

(***************************************************************************)
(* "A registered page becomes available for subsequent memory accesses":   *)
(* its own virtual page leads to it.                                       *)
(***************************************************************************)
RegisteredIsAvailable ==
  [][\A registration \in IdRegistrations :
       LET p == registration[1]  pid == registration[2]
       IN  RegisterPage(p, pid) => vmap'[pid][p] = p]_vars
=============================================================================
