----------------------------- MODULE Simulation -----------------------------
(***************************************************************************)
(* Simulation: a configuration validated once and run any number of times. *)
(* run() clears what the last run left, builds the policy, the unit and    *)
(* the workload anew, drains the workload and executes its accesses one by *)
(* one, calling the progress callback after each.  One thread does all of  *)
(* it, and the callback is the only foreign code in between: it may throw, *)
(* and it may reach the physical memory, to which physicalMemoryManager()  *)
(* hands out a reference; so may the owner, between runs.                  *)
(*                                                                         *)
(*   mem .. result   the unit and what it refers to (MemoryManagementUnit) *)
(*   log             activityLog_, which the unit reports to               *)
(*   manager         processManager_                                       *)
(*   config          configuration_                                        *)
(*   program         the accesses the configured workload yields: its      *)
(*                   generators are seeded from the configuration, so it   *)
(*                   is the same in every run                              *)
(*   phase           idle, running, completed, or how run() threw          *)
(*   statistics      executionResult.statistics_                           *)
(*   records         the results in executionResult.records_               *)
(*   outcomes        history: what the completed runs returned, except     *)
(*                   those whose callback reached the physical memory      *)
(*   reaches         how often the memory was reached since the run began  *)
(***************************************************************************)
EXTENDS Workloads

CONSTANTS NumFrames, NoPage, NoFrame, NoProcess, NoCreator, NoPolicy,
          PageSize, AddressBound, Configurations,
          MaxReaches  \* bounds reaches

(* The processes workloads name, whatever the manager calls its own. *)
Processes == 1 .. ProcessCount

Pages == 1 .. ProcessCount * PageCount

VirtualPages == 0 .. PageCount - 1

(* registerPages() numbers pages over all processes, from 1. *)
PageOf(index, v) == (index - 1) * PageCount + v + 1

(* The process a page is created for, in the order of creation. *)
OwnerIndex(p) == ((p - 1) \div PageCount) + 1

(* A model value in the place of an empty optional or a null pointer is    *)
(* none of the values there are.                                           *)
ASSUME NothingAssumption ==
  /\ NoPage \notin Pages \cup VirtualPages
  /\ NoFrame \notin 0 .. NumFrames
  /\ NoProcess \notin Processes
  /\ NoCreator \notin {"FIFO", "LRU", "CLOCK", "OPTIMAL"}

(* FrameCount refuses zero; an address space refuses a page size of zero,  *)
(* but only once a run creates one.                                        *)
ASSUME SizesAssumption ==
  /\ NumFrames \in Nat \ {0}
  /\ PageSize \in Nat
  /\ AddressBound \in Nat \ {0}

VARIABLES mem, owner, pages, vmap, pol, counts, procStats, result, log

mmuVars == <<mem, owner, pages, vmap, pol, counts, procStats, result, log>>

Mmu == INSTANCE MemoryManagementUnit WITH
  IdRegistrations  <- {},
  VpnRegistrations <- {},
  Addresses        <- {v * PageSize : v \in VirtualPages},
  Kinds            <- {config.policy : config \in Configurations},
  References       <- {},
  DirectEntries    <- {},
  DirectFrames     <- {},
  MaxAccesses      <- 0

Activity == INSTANCE ActivityLog

Manager == INSTANCE ProcessManager

Factory == INSTANCE PolicyFactory

VARIABLES manager, config, program, phase, statistics, records, outcomes, reaches

runVars == <<statistics, records>>

vars == <<mmuVars, manager, config, program, phase, runVars, outcomes, reaches>>

NoStatistics == [accesses |-> 0, succeeded |-> 0, failed |-> 0,
                 faults |-> 0, replacements |-> 0, dirtyEvictions |-> 0]

(* What the types of a configuration's parts allow. *)
ASSUME ConfigurationsAssumption ==
  LET SegmentKinds == {"SEQUENTIAL", "RANDOM", "LOCALITY"}
  IN  \A c \in Configurations :
        /\ c.policy \in Mmu!PolicyKinds
        /\ Mmu!NewPolicy(c.policy) # NoPolicy
        /\ c.workload \in SegmentKinds \cup {"MIXED"}
        /\ c.accesses \in Nat
        /\ c.segments \in Seq([workload : SegmentKinds \cup {"MIXED"}, count : Nat])

(* A simulation as its constructor leaves it. *)
NewSimulation ==
  /\ mem = Mmu!EmptyMemory
  /\ owner = [p \in Pages |-> NoProcess]
  /\ pages = [p \in Pages |-> Mmu!AbsentPage]
  /\ vmap = [process \in Processes |-> [v \in VirtualPages |-> NoPage]]
  /\ pol = Mmu!NewPolicy(config.policy)
  /\ counts = Mmu!NoCounts
  /\ procStats = Mmu!NoProcStats
  /\ result = Mmu!Failure
  /\ log = Activity!NewLog
  /\ manager = Manager!NewManager
  /\ statistics = NoStatistics
  /\ records = <<>>
  /\ outcomes = {}
  /\ reaches = 0

(* The constructor throws unless the configuration is valid. *)
Init ==
  /\ config \in {c \in Configurations : IsValid(c)}
  /\ program \in IF IsConstructible(config) THEN Programs(config) ELSE {<<>>}
  /\ NewSimulation
  /\ phase = "idle"

-----------------------------------------------------------------------------
(* Faulty: the frames of the last run stay occupied. *)
ClearedTableOnly(m) == Mmu!ClearPageTable(m)

(* What run() does before it creates anything. *)
Cleared(m) == Mmu!ClearPhysicalMemory(Mmu!ClearPageTable(m))

(* The pages whose registration with a new unit succeeds; registerPages()  *)
(* ignores the answer.                                                     *)
Accepted(m) == {p \in Pages : ~Mmu!IsMapped(m, p) /\ ~Mmu!IsPageMapped(m, p)}

(* initialize() registers a creator for each type before it creates one.   *)
Registry ==
  LET Register(registry, type) == Factory!RegisterPolicy(registry, type, type)
  IN  Register(Register(Register(Register(
        Factory!EmptyRegistry, "FIFO"), "LRU"), "CLOCK"), "OPTIMAL")

(* A new policy, a new unit with every page registered for the process it  *)
(* is created for, and the workload; the address space of a process and    *)
(* the construction of the workload may throw.                             *)
StartRun ==
  LET cleared == Manager!Clear(manager)
      first   == cleared.next
      created == Manager!CreateProcesses(cleared, ProcessCount, PageCount, PageSize)
      Index(process) == process - first + 1
  IN  /\ phase # "running"
      /\ log' = Activity!Clear(log)
      /\ mem' = Cleared(mem)
      /\ manager' = created
      /\ owner' = [p \in Pages |->
                    IF p \in Accepted(mem') /\ created.processes # {}
                    THEN first + OwnerIndex(p) - 1 ELSE NoProcess]
      /\ pages' = [p \in Pages |-> Mmu!AbsentPage]
      /\ vmap' = [process \in Processes |-> [v \in VirtualPages |->
                   LET p == PageOf(Index(process), v)
                   IN  IF process \in created.processes /\ p \in Accepted(mem')
                       THEN p ELSE NoPage]]
      /\ pol' = Factory!Create(Registry, config.policy)
      /\ counts' = Mmu!NoCounts
      /\ procStats' = Mmu!NoProcStats
      /\ result' = Mmu!Failure
      /\ statistics' = NoStatistics
      /\ records' = <<>>
      /\ phase' = IF /\ pol' # NoPolicy
                     /\ Manager!IsAddressSpace(PageCount, PageSize)
                     /\ IsConstructible(config)
                  THEN "running" ELSE "not started"
      /\ reaches' = 0
      /\ UNCHANGED <<config, program, outcomes>>

(* Faulty: a fault served from a free frame is not counted. *)
RecordedReplacementsAsFaults(s, r) ==
  LET One(b) == IF b THEN 1 ELSE 0
  IN  [accesses       |-> s.accesses + 1,
       succeeded      |-> s.succeeded + One(r.success),
       failed         |-> s.failed + One(~r.success),
       faults         |-> s.faults + One(r.replaced),
       replacements   |-> s.replacements + One(r.replaced),
       dirtyEvictions |-> s.dirtyEvictions + One(r.dirtyEviction)]

(* MemoryAccessExecutor's counters, from the result of an access. *)
Recorded(s, r) ==
  LET One(b) == IF b THEN 1 ELSE 0
  IN  [accesses       |-> s.accesses + 1,
       succeeded      |-> s.succeeded + One(r.success),
       failed         |-> s.failed + One(~r.success),
       faults         |-> s.faults + One(r.pageFault),
       replacements   |-> s.replacements + One(r.replaced),
       dirtyEvictions |-> s.dirtyEvictions + One(r.dirtyEviction)]

ExecuteAccess ==
  /\ phase = "running"
  /\ Len(records) < Len(program)
  /\ LET access == program[Len(records) + 1]
     IN  Mmu!Access(access.process, access.page * PageSize, FALSE)
  /\ records' = Append(records, result')
  /\ statistics' = Recorded(statistics, result')
  /\ UNCHANGED <<manager, config, program, phase, outcomes, reaches>>

(* What run() returns. *)
Outcome ==
  [records |-> records, statistics |-> statistics, byProcess |-> procStats,
   replacements |-> pol.replacements, dirtyEvictions |-> pol.dirtyEvictions,
   activity |-> log]

FinishRun ==
  /\ phase = "running"
  /\ Len(records) = Len(program)
  /\ phase' = "completed"
  /\ outcomes' = IF reaches = 0 THEN outcomes \cup {Outcome} ELSE outcomes
  /\ UNCHANGED <<mmuVars, manager, config, program, runVars, reaches>>

CallbackRuns == phase = "running" /\ records # <<>>

CallbackThrows ==
  /\ CallbackRuns
  /\ phase' = "aborted"
  /\ UNCHANGED <<mmuVars, manager, config, program, runVars, outcomes, reaches>>

PhysicalMemoryCalls ==
  {Mmu!AllocateFrame(mem, p) : p \in Pages}
    \cup {Mmu!ReleasePhysicalFrame(mem, f) : f \in Mmu!Frames}
    \cup {Mmu!ClearPhysicalMemory(mem)}

(* The owner between runs, or the callback during one. *)
ReachPhysicalMemory ==
  /\ reaches < MaxReaches
  /\ phase = "running" => CallbackRuns
  /\ mem' \in PhysicalMemoryCalls
  /\ reaches' = reaches + 1
  /\ UNCHANGED <<owner, pages, vmap, pol, counts, procStats, result, log,
                 manager, config, program, phase, runVars, outcomes>>

Next ==
  \/ StartRun
  \/ ExecuteAccess
  \/ FinishRun
  \/ CallbackThrows
  \/ ReachPhysicalMemory

Spec == Init /\ [][Next]_vars

-----------------------------------------------------------------------------
(***************************************************************************)
(* Every run reaches every page of every process under its virtual page,   *)
(* whatever the run before it, or anyone since by the memory manager's     *)
(* methods, left in the memory: the answers of registerPage(), which would *)
(* say otherwise, are ignored.                                             *)
(***************************************************************************)
EveryPageIsReachable ==
  phase = "running" =>
    /\ Mmu!registered = Pages
    /\ \A process \in Processes : \A v \in VirtualPages :
         vmap[process][v] = PageOf(process, v)

(***************************************************************************)
(* No access of a run fails, unless its callback reached the memory.       *)
(***************************************************************************)
AccessesSucceed == reaches = 0 => statistics.failed = 0

(***************************************************************************)
(* The executor, the unit, its per-process statistics and the policy count *)
(* independently and agree about every run, finished or not, unless its    *)
(* callback reached the memory.                                            *)
(***************************************************************************)
StatisticsAgree ==
  reaches = 0 =>
    /\ statistics.accesses = statistics.succeeded + statistics.failed
    /\ statistics.faults = counts.faults
    /\ statistics.replacements = counts.replacements
    /\ statistics.replacements = pol.replacements
    /\ statistics.dirtyEvictions = pol.dirtyEvictions
    /\ \A process \in Processes :
         LET mine == {i \in 1 .. Len(records) : program[i].process = process}
         IN  /\ procStats[process].accesses = Cardinality(mine)
             /\ procStats[process].faults = Cardinality({i \in mine : records[i].pageFault})

(***************************************************************************)
(* The activity log alone tells what is in memory: replaying its frame     *)
(* assignments and replacements gives every page the frame its Page object *)
(* names, also when the callback allocated, released or cleared memory     *)
(* under the unit.                                                         *)
(***************************************************************************)
Replayed ==
  LET Replay(held, event) ==
        CASE event.type = "FrameAssignment" -> [held EXCEPT ![event.page] = event.frame]
          [] event.type = "PageReplacement" ->
               [held EXCEPT ![event.victim] = NoFrame, ![event.page] = event.frame]
          [] OTHER -> held
  IN  FoldLeft(Replay, [p \in Pages |-> NoFrame], log.events)

LogReplaysResidency == Replayed = [p \in Pages |-> pages[p].frame]

(***************************************************************************)
(* The log accounts for the whole run, whichever methods of the memory     *)
(* manager the callback calls: its numbers run from zero without a gap, it *)
(* tells of each access once with the flags of its result, and of as many  *)
(* faults, replacements and dirty evictions as the unit has counted.       *)
(***************************************************************************)
Events(type) == {i \in 1 .. Len(log.events) : log.events[i].type = type}

LogAccountsForRun ==
  /\ log.next = Len(log.events)
  /\ \A i \in 1 .. log.next : log.events[i].sequence = i - 1
  /\ Cardinality(Events("PageFault")) = counts.faults
  /\ Cardinality(Events("PageReplacement")) = counts.replacements
  /\ Cardinality(Events("DirtyEviction")) = counts.dirtyEvictions
  /\ Cardinality(Events("Access")) = Len(records)
  /\ \A e \in Events("Access") :
       LET i == Cardinality({d \in Events("Access") : d <= e})
       IN  /\ log.events[e].process = program[i].process
           /\ log.events[e].success = records[i].success
           /\ log.events[e].pageFault = records[i].pageFault
           /\ log.events[e].replaced = records[i].replaced

(***************************************************************************)
(* A valid configuration starts, in every run, if every process gets an    *)
(* access, its pages are addressable, and no locality segment has          *)
(* impossible parameters - which is what the validator does not look at.   *)
(***************************************************************************)
EveryRunStarts ==
  phase = "not started" =>
    \/ config.accesses < ProcessCount
    \/ ~Manager!IsAddressSpace(PageCount, PageSize)
    \/ /\ config.workload = "MIXED" /\ ~ValidLocality(config.locality)
       /\ \E s \in ToSet(config.segments) : s.workload = "LOCALITY"

(***************************************************************************)
(* "Each call to run() represents a fresh simulation using the same        *)
(* configuration": the runs whose callback leaves the memory alone return  *)
(* the same result, whatever earlier callbacks and clients did by the      *)
(* memory manager's methods.                                               *)
(***************************************************************************)
RunsRepeat == Cardinality(outcomes) <= 1

(***************************************************************************)
(* A completed run gave every process the accesses it is due: its part of  *)
(* the configured total, of which the parts are all, or what its segments  *)
(* hold where that is less.                                                *)
(***************************************************************************)
Due(process) ==
  LET share == (config.accesses + ProcessCount - process) \div ProcessCount
      held  == FoldLeft(LAMBDA sum, s : sum + s.count, 0, config.segments)
  IN  IF config.workload = "MIXED" THEN Min({share, held}) ELSE share

EveryProcessGetsItsDue ==
  phase = "completed" =>
    \A process \in Processes : procStats[process].accesses = Due(process)

(***************************************************************************)
(* "This guarantees that the total number of generated accesses remains    *)
(* exactly equal to memoryAccessCount()."                                  *)
(***************************************************************************)
GeneratesConfiguredTotal ==
  phase = "completed" => statistics.accesses = config.accesses
=============================================================================
