# Verification of the EMMUS core

EMMUS simulates demand paging: processes access virtual pages, a memory
management unit (MMU) maps them to frames, and one of four policies chooses what
to replace when memory is full. This directory holds TLA+ models of that core,
configurations that model-check them with TLC, and proofs that TLAPS checks.
`PROJECT.json` ties every definition to the lines it models and every property
to a hazard of the code.

To check a run: `tlc -config Mmu.cfg MCMemoryManagementUnit`. To check the
proofs: `tlapm MemoryManagementUnitProofs.tla`.

## 1. Inventory

All of EMMUS is single-threaded. What is hard about it is not parallelism but
redundancy (one fact kept in several components that must agree), the order of
calls between components, partial failure of an operation that updates several
of them, and foreign code: callbacks, and clients that hold references to
components shared with the MMU.

| part (under `src/src/emmus/`) | state | operations | interacts with | correct when |
|---|---|---|---|---|
| `memory/physical` PhysicalMemoryManager | frames with their page, an allocation counter | allocate, release, clear, lookup | owned by the simulation, referenced by the MMU, reachable from outside | the counter is exact, no page has two frames |
| `memory/mmu` PageTable | page -> frame, one key space for all processes | map, update, unmap, clear | as above | it is the inverse of the frames |
| `memory/mmu` PageTablePhysicalMemoryIntegration | none | mapPage, unmapPage, releaseFrame, consistency checks | updates both | both change or neither; the check is exact |
| `memory/virtual_memory` Page | frame, dirty, referenced | map, unmap, mark | stored in the MMU, exposed by `page()` | agrees with the two above |
| `algorithms/replacement` FIFO, LRU, Clock, Optimal | tracked page/frame pairs in an order of their own, statistics | pageLoaded, pageAccessed, pageRemoved, chooseVictim, recordDirtyEviction, reset, setReferenceSequence | told of everything by the MMU, ask nothing back | they track the resident pages and choose by their rule |
| `memory/mmu` MemoryManagementUnit | registered pages, virtual-page maps, counters | registerPage (two forms), access, reset | all of the above, activity log | it is demand paging; an access succeeds or changes no memory |
| `simulation/workload` | generated accesses and cursors | hasNext, nextAccess, reset | drained by the simulation | one stream, in order, repeatable |
| `simulation` Simulation, `infrastructure/configuration` | configuration and the objects of a run | construct, run, physicalMemoryManager | creates everything anew per run | runs are independent and repeatable |
| `application` MemoryAccessExecutor | result of a run | execute | MMU, progress callback | its counters agree with the MMU's |
| `simulation` ProcessManager, Process | processes, next id | createProcess, clear | numbers processes for the MMU and the workload | ids start at 1 in every run |
| `statistics` | counters | record, reset | MMU, policies | agree with each other |
| `algorithms/replacement` PageReplacementPolicyFactory | creators by type of policy | registerPolicy, create, clear | filled and asked by the simulation in every run | creates what was registered |
| `simulation/activity` SimulationActivityLog | events with a sequence number | one recorder per type of event, clear | written by the MMU, cleared and copied by the simulation | tells what happened, in order, of this run only |
| `simulation` SimulationComparison, `statistics` comparisons | one row per policy, ranked | run, record | four simulations | same accesses for every policy, all rows or none |
| `apps/emmus-demo`, `apps/emmus-gui` | - | controlled trace; views | the public API | documented counts |

`PROJECT.json` lists every part with its status and every hazard with its line.

## 2. The models

| module | models | its state and actions |
|---|---|---|
| `PageMapping` | PageTable, PhysicalMemoryManager and the boundary as operators on a record `mem` | `mem.frames`, `mem.allocated`, `mem.table`; one operator per method, returning the record after the call |
| `MappingBoundary` | clients of the three, through the boundary and around it | one action per mutating method |
| `FifoPolicy`, `LruPolicy`, `ClockPolicy`, `OptimalPolicy` | the four policies as operators on their state | LRU keeps the list and both iterator maps; Clock runs its bounded scan |
| `ReplacementPolicy` | the interface: dispatch on the kind, and the statistics | used by everything below |
| `PolicyContract` | what the interface promises whatever the algorithm | abstract specification |
| `PolicyCalls` | a policy under any calls, with history of loads and uses | one action per method |
| `ActivityLog` | SimulationActivityLog as operators on a log that may be absent | one operator per recorder; `RecordAll` is `record` for several events in turn |
| `MemoryManagementUnit` | the MMU over `PageMapping`, `ReplacementPolicy` and `ActivityLog` | one action per outcome of `access` with what it logs, two registrations, reset as the loop it is, over the pages in any order; clients of the page table, of physical memory and of the Page objects as a separate disjunct |
| `PagedMemory` | demand paging without frames, tables or policies | abstract specification |
| `Workloads` | what each generator can produce, the validator, and how a configuration becomes accesses | operators only |
| `LocalityGeneration` | the locality generator's loop, one access per step | |
| `WorkloadCursor` | cursors of MultiProcessWorkload, MixedWorkload and their segments | hasNext (which moves an index), nextAccess, reset |
| `AccessStream` | a sequence with a position | abstract specification |
| `ProcessManager` | ProcessManager, with the address space a process needs | operators on its processes and its next identifier |
| `PolicyFactory` | PageReplacementPolicyFactory | operators on a registry, a function from types to creators |
| `Simulation` | configuration, run after run, executor, callback, outside access | instantiates `MemoryManagementUnit`, `ActivityLog`, `ProcessManager` and `PolicyFactory`; one action for all that `run` does before its loop, one per access, one for its end |
| `ControlledTrace` | the demonstration's trace loop with its activity log | extends `MemoryManagementUnit` |
| `Comparison` | SimulationComparison, BenchmarkConfiguration, PageFaultComparison | extends `Simulation`: constructs one for each policy, lets it run once and records its row, behind those of the ranked rows that come before it |
| `MC...` | finite instances | constants of the runs |

A definition that a comment calls *Faulty* is a plausible bug in the definition
after it. None is used by the models: each exists to show that the property it
is paired with in `PROJECT.json` really fails when the code goes wrong that way.

Each public method of the code runs to its end without handing control to
anyone else (only the executor's callback does that, between two accesses), so
each method is one step. `access()` is the disjunction of its outcomes; the
guards of the outcomes are its early returns, in their order. Random draws are
nondeterministic choices. Counters are unbounded integers in the models, except
where the address arithmetic wraps (`% AddressBound`).

## 3. The runs

| run | module, configuration | bounds | states | what it shows |
|---|---|---|---|---|
| `mapping_boundary` | `MappingBoundary` | 3 frames, 4 pages, a frame id outside memory | 45 625 | The counter is exact and no page is in two frames for every caller; the consistency check is exact; boundary calls meet no half-known page without refusing and make none. |
| `policy_calls` | `MCPolicyCalls` | 3 pages, 3 frames, 3 decisions, three reference sequences | 498 750 | Every policy keeps the contract under contradictory calls; LRU evicts the least recently used page and its maps match its list; FIFO evicts the first loaded, Optimal the farthest used; Clock's scan is second chance and its hand survives removals. |
| `mmu` | `MCMemoryManagementUnit`, `Mmu` | 2 processes, 3 pages, 2 frames, 3 accesses per process between resets, all policies | 97 448 | Records agree, the policy tracks the residents, address spaces are disjoint, counters agree, known accesses succeed with the right physical address, results tell the truth; the MMU refines `PagedMemory`. |
| `mmu_direct` | the same, `MmuDirect` | 1 process, 2 registrable pages and a foreign one, 2 frames, FIFO, direct entries of page 1 in frame 1 and of page 2 in frame 0, Page objects mapped to frame 0 | 283 712 | With clients that call every method of the table, of the frames and of the Page objects, a failed access changes no memory, a successful one harms no other page, and `reset` takes both halves of a mapping or none, and none but those a Page object named. (That the counter stays exact and no page gets two frames is checked in `mapping_boundary`, and proved with accesses and `reset`: `StaysExactTheorem`.) |
| `locality_generation` | `MCLocalityGeneration` | 4 pages, 2 remembered, radius 1, 4 accesses | 3 041 | Accesses stay in the working set, and the loop yields `LocalityStreams`. |
| `workload_cursor` | `MCWorkloadCursor` | up to 3 processes, 2 segments, 2 accesses | 6 060 | The composition refines `AccessStream`. |
| `simulation` | `MCSimulation`, `Simulation` | 2 processes of 2 pages, 2 frames, up to 7 accesses, memory reached twice per run | 814 648 | Every run starts that can; runs repeat, log included; every page is reachable; no access fails; the four counts agree; replaying the log gives the residency, also after outside changes; every process gets its accesses. |
| `comparison` | `MCComparison`, `Comparison` | 1 process of 3 pages, 2 frames, four benchmarks | 9 821 | A comparison ends with every row or by throwing; rows are ranked and comparable; without the future, Optimal is FIFO. |
| `controlled_trace` | `MCControlledTrace` | 5 pages, 3 frames, all traces of length 8 up to renaming, and the demonstration's | 138 472 | Optimal attains the lower bound; LRU keeps the most recent pages; a written page is written back once, and logged directly after the replacement that evicted it. |
| `mmu_registration` | `MmuRegistration` | as `mmu` | - | violation: a registered page that cannot be reached |
| `optimal_consumption` | `OptimalConsumption` | as `policy_calls` | - | violation: the header's "next matching occurrence" |
| `simulation_total` | `SimulationTotal` | one mixed configuration | - | violation: fewer accesses than configured |

Why the bounds suffice. Two frames and three pages make memory full, a
replacement necessary and its victim come back; three frames give Clock's hand
entries before and after it and LRU's list a middle. In `mmu`, page 1 and page 2
can be registered under numbers of others, and addresses are bounded so that
exactly one byte of the second frame has no address. In `mmu_direct`, two pages
are loaded into frames 0 and 1, and the direct entries are those by which they
can exchange frames, so that a Page object names the frame of the other page
while its own mapping is consistent; one policy is enough, because `access`
checks what any policy names. In `simulation`, sharing
5 or 7 accesses leaves a remainder, one configuration cuts its segments and
another runs out of them, one gives a process no access, and two are accepted by
the validator but cannot start. `Max...` constants bound counters only.

`comparison` enumerates every stream its generators can produce: 3^5 random
ones, in which the policies' rows come in different orders, a sequential one
that wraps around twice, locality streams, and a mixed benchmark, which is
always refused since a benchmark has no segments.

Deadlock is not checked where the system ends: the generator, the trace and the
comparison.

**Fairness.** Only `comparison` assumes any: weak fairness of `Compare`, the
whole of the comparison's next-state relation. One thread runs
`SimulationComparison::run()` to its end, and nothing in it blocks or waits;
there is no callback. Nothing is assumed of clients, of callbacks or of
`Simulation`'s `StartRun`.

### Disagreements between documents and code

* **Registration** (`mmu_registration`). `registerPage(Page)` ignores that its
  virtual page is taken and answers true. `IMemoryManagementUnit.hpp:45` says a
  registered page becomes available.
* **Optimal** (`optimal_consumption`). The header of `advanceReferencePosition`
  (line 258) says the next matching occurrence is consumed; the code, and the
  comment in it, advance only when the current reference matches.
* **Total** (`simulation_total`). `Simulation.cpp:198` says the number of
  generated accesses is exactly the configured one; segments may hold fewer.

Smaller observations, modelled but without a run: `completeAccess` computes a
physical address that wraps at 2^64 where `makePhysicalAddress` would throw;
`reset` leaves alone the pages whose records disagree, and it releases the frame
a Page object names after checking the mapping of that page, which a direct
client may have moved to another frame (`updateMapping`, `mapToFrame`) - it then
takes the memory of the page that is there, whose turn comes in vain, so that its
object stays resident although its three records agreed
(`ResetTakesWholeMappings` says what goes; `IMemoryManagementUnit.hpp:89` says
that reset clears residency); the validator accepts
fewer accesses than processes, an address space too large for its addresses, and
a mixed configuration with impossible locality parameters, for all of which
`run` then throws (phase `not started`; `EveryRunStarts` says there are no other
reasons). A replacement that is refused because of its victim has already been
counted and logged as a page fault, while its result, and so its `Access` event,
says there was none. The Optimal row of a comparison is a second FIFO row
(`UninformedOptimalIsFifo`): `docs/requirements/page-fault-comparison.md` says
that the normal path supplies no future, and with no future every choice is a
tie, which the page loaded first loses.

## 4. The proofs

All constants are arbitrary within the named assumptions of the modules: the
number of frames is a natural number, which may be zero for the unit
(`PhysicalMemoryManager` takes a `std::size_t`) but not for a simulation, whose
configuration refuses it, nor for a controlled trace; `NoFrame` is no frame, page size and address bound are
positive, `Processes` is finite (the counters are summed over it), the kinds are
among the four the factory knows, and a reference sequence has a length (it is a
vector). A configuration is what the types of its parts allow: one of the four
policies, counts that are naturals, a sequence of segments; whether it is valid
is left to the validator. A controlled trace is one process's, over the pages it
has registered under their own numbers, at addresses that fit
(`TraceAssumption`). The simulations of a comparison are configured as
simulations can be (`BenchmarksAssumption`). TLC evaluates every assumption on
the runs.

| module | theorems | argument |
|---|---|---|
| `PageMappingLemmas` | - | what each operator of `PageMapping` keeps and changes |
| `StandaloneProofs` | `OccupancyTheorem`, `ConsistencyCheckTheorem`, `BoundaryTheorem`, `CleanTheorem` | The inductive invariant is type correctness with an exact counter and no page in two frames. It is needed for the check: only with it does the comparison of two counts rule out table entries without a frame. |
| | `GeneratorTheorem`, `WorkingSetTheorem` | `GInv`: what has been generated is a prefix of a stream of `LocalityStreams`, and what is remembered is its last pages. It says of every prefix what `RelativeStreams` says of the whole, because the loop forgets what it drew from. |
| | `StreamTheorem` | refinement of `AccessStream`: `CInv` says that what is before the indices is drained and what is after them has not been touched; `hasNext` moves an index without moving the position they stand for. |
| `MemoryManagementUnitProofs` | `TypeTheorem`, `CoherenceTheorem`, `AddressSpacesTheorem` | `IInv`, which is `TypeOK /\ MappingCoherent`, is inductive. The victim may be any frame: the proof uses what `access` verifies about it, never the policy, so it holds for all four and for any other. |
| | `StaysExactTheorem`, `ResetTheorem`, `FailureTheorem`, `HarmTheorem` | With clients that change table, frames and pages on their own, coherence is lost: entry, frame and Page object of a page may name three frames. What survives is `DInv`: the types, an exact counter with no page in two frames, and that only registered pages are resident. It is enough to follow every early return of `access` and to see that what precedes it is undone or was never done. For `reset`, the set of pages it releases is characterised by the turns of the hash map: a page is released unless the frame it names, or its own mapping, was given back by a page met before it. |
| | `PagedMemoryTheorem` | refinement: each outcome of `access` is `Touch`, `Load`, `Replace`, `Refuse` or a stutter of `PagedMemory` |
| | `PolicyTracksTheorem`, `ResultTheorem`, `AccessTheorem`, `CountersTheorem` | The unit with its policy. `PInv` adds to `IInv` that the policy is in a state of its class and tracks exactly the resident pages; neither half is inductive alone, since the unit is only sure of a victim while the policy tracks something, and the policy loses its place only through what the unit tells it. In a memory without frames nothing is resident, the policy never has a victim, and a known access faults and fails. `CInv` adds the counters: a decision and its completion are counted by the policy in two calls, so that they agree only because no decision is refused. |
| `ReplacementPolicyLemmas` | - | what each call does to each of the four policies: the state it leads to, the pairs of page and frame it then tracks, the victim it would name, and the order its entries are in (`Ordered`, and `Renews` for what moves to the end). `IsPolicy` says what a state of each class is: FIFO, LRU and Optimal hold no page twice, LRU's maps match its list, Clock's hand is on its ring. |
| `PolicyCallsProofs` | `EveryPolicyKeepsContract`, `LruMapsAlwaysMatch`, `LruEvictsLeastRecentlyUsed`, `FifoEvictsFirstLoaded`, `OptimalEvictsFarthest`, `ClockGivesSecondChance`, `ClockHandAlwaysSurvives` | The inductive invariant is `IsPolicy` with `InOrder`: LRU's list is in the order of the last uses, FIFO's and Optimal's in that of the loads. The histories alone do not say it; the list is what the victim is read from. |
| `ControlledTraceProofs` | `TraceServedTheorem`, `WriteBackTheorem`, `LruTheorem`, `LogTheorem`, `OptimalTheorem` | `UnitReady`: the unit of a trace keeps `PInv` and every page of the trace is registered, so every reference succeeds. `DirtyOnce`: only the first page of the trace is ever dirty, and it is so until it has been written back once; the trace writes it only then. `KeepsRecent`: LRU's list is in the order of the last references, and whatever has left memory was last referenced before all that is in it, so its victim is the one that leaves the set of the most recent. `LogExact` says of the log what `LogTellsWriteBacks` says, event by event, for the log so far. |
| | (`OptimalTheorem`) | Belady's theorem, for the unit as it is. The recursion `FewestFaults` is first shown to have a solution (`SettledExists`, `CountingEquation`), and that solution to be the least over all choices of a victim (`BestExists`). Then, backwards through the trace (`Backwards`): to hold more pages is no worse (`MoreIsNoWorse`), to miss one costs at most one fault (`OneMissing`), and to hold `x` in place of `y` is no worse if `y` is not referenced before `x` (`SoonerIsNoWorse`, by the exchange of the two, `ExchangeSucceeds`). So the page whose next use is farthest is a best victim (`FarthestIsBest`). The invariant `KeepsToBest` says that Optimal's position is the trace's, because every reference is reported exactly once and the victim is chosen before it is, and that the faults so far and the fewest still to come make up the bound. |
| `SimulationProofs` | `ReachableTheorem`, `ReplayTheorem`, `LogAccountsTheorem`, `StartTheorem` | Four invariants of the simulation that need nothing of the policy. `Registered`: what a run registers, page by page, whatever was left in memory, because it clears both tables first. `Telling`: the log replays to the frames the Page objects name; each outcome of `access` appends a few events, and the replay moves on by exactly what the outcome does to the pages. `Accounted`: the log accounts for what the counters have counted, which are numbers; each outcome of `access` ends with the one `Access` event, which says what the result does, and tells of each thing that is counted at most once, exactly when it counts it. `Refusing`: what a run that did not start lacked. |
| | `DueTheorem` | Two halves. For every configuration a run accepts, every program gives every process what it is due (`ProgramsCount`): segments are cut to as much as is asked for or left (`MixedSegmentsTally`), a process's stream has that many accesses, and one process's stream adds nothing to another's. And `Served`: each access of a run is counted for its process, whatever becomes of it. |
| `RunProofs` | `RepeatTheorem` | What the unit does with an access of a run is a function of its state (`AccessDetermined`), so a run is one of its configuration and program, and two such runs agree by their least difference (`RunsAgree`). The invariant `Repeating` says that the run under way, if it is left alone, and every one that has returned are this run. The first state is the same in every run because `run` clears both tables and the log: that clearing the frames leaves an exact counter is the one thing used of the unit. |
| | `SuccessTheorem`, `StatisticsTheorem` | What is proved of the unit, for the unit of a simulation. `Unit` instantiates the unit once more, with its proofs, under the same substitutions as `Mmu`; the lemmas ending in `Same` say operator by operator that the two mean the same. What is used is not the unit's theorems but the steps of their proofs (a run registers its pages in one step and reuses its memory, so it is no behaviour of the unit's own specification): an empty unit satisfies the invariants, and an access keeps them. The invariant `UnitFollows` carries `DInv` through everything and `PInv` until the callback reaches the memory. With `PInv`, an access of the program succeeds and is counted alike everywhere (`Counted`). |
| | `UninformedTheorem` | Optimal without references and FIFO are twins: they hold the same pages, loaded in the same order; every next use is unknown, so the search for the farthest keeps the page at the head, which is FIFO's victim (`UntoldVictim`). Every step of a run then leaves twins alike (`TwinUnits`), and since a run is a function of its configuration and program, the runs under the two policies fault alike (`TwinsRun`). The invariant `Comparing` says of each row already recorded that it tells of such a run, wherever the ranking has put it since, and of the simulation under way that it will: its object is new, so its memory and log are empty. |
| | `ComparableTheorem` | `IsCold`, of the accesses of a run so far: what is resident has been referenced, there are at least as many faults as pages referenced, and while all pages of the program fit in memory everything referenced is resident and has faulted once. An access keeps it because a page that is not resident faults and is loaded, and only a full memory loses another for it (`KnownAccessLoads`). `Tallied` adds that the per-process statistics, which the totals of a row are folded from, sum to the accesses and to those faults. `IsRanking` says that the rows recorded are true and in order; the policy of a new row is the last of the policies so far, so it ties with none, and those that come before it are the first ones (`FirstOnes`). |

That `AccessTheorem` holds means that the refusals of `access` (records that
contradict each other, a fault for a page still held, no victim, a victim that is
not resident) are not taken while only the unit touches its memory, except for a
victim whose address is not representable and for the missing victim of a memory
without frames. They are modelled, and `mmu_direct` takes them. The runs all have
frames: what happens without any follows from the proofs.

`SuccessTheorem`, `StatisticsTheorem` and `ComparableTheorem` assume
`AddressesFit`: the physical address of every byte of every frame is
representable. It is a condition on the constants, and the runs of the
simulation and of the comparison satisfy it. Without it a victim may have no
representable address, and an access that has already been counted as a decision
of the policy fails.

Several results are about loops, which the model writes as folds and recursive
functions: Clock's scan, Optimal's search for the farthest use, the sum of the
processes' counters, the replay of the log, the cutting of segments to a
process's share, the drawing of a workload. Each is characterised first by what it computes, and the
characterisation proved by its least counterexample (`LeastNatural`): the
smallest number of passes after which the loop and the characterisation differ
cannot be zero and cannot have a predecessor.

`StandaloneProofs` holds the proofs of three parts that know nothing of each
other. `RunProofs` extends `Comparison` and `SimulationProofs`; its theorems about
one simulation use nothing of the comparison.

To check the proofs of a module: `tlapm RunProofs.tla`. That is the longest and
takes twenty minutes or more.

Only model-checked: liveness (`ComparisonEnds`), which TLAPS does not prove here.

## 5. What is not modelled

The GUI, printed output, the texts of log events, execution and decision times
and rates, and with them `runExecutionTimeComparison()`, the loop of
`Comparison` with rows ranked by measured times.

Direct clients call every mutating method of the page table, of the physical
memory manager and of the Page objects, except `markReferenced` and
`clearReferenced`, whose bit nothing reads. What they do not do is change a
Frame through the pointer of `PhysicalMemoryManager::frame()`, behind the
manager's counter. That is a limit of every statement here about what clients or
callbacks may do to the memory ("whatever", "whichever"): with a changed Frame
the counter is wrong, and `access` can find no frame, or another one, where it
has just released one. So the branch for that, `restoreVictim`, is not modelled,
nor is the refusal between the log entry of a replacement and its mapping: a
victim's frame, once released by the manager, is the only free one, and so the
one the requested page gets. The Page a client passes to `registerPage` is always
a new one: one that is already resident is refused without any effect, and one
marked dirty beforehand is as one marked through `page()` afterwards, which is
modelled. `setActivityLog` is called before the
first access and not again. `unregisterPolicy` and `Process::terminate` have no
caller. A callback that calls `run()` again would destroy the executor that is
calling it, which is undefined. The pseudo-random
engines are abstracted to the sets of values they draw from, so that streams are
more than the code can produce, never fewer. In a simulation, Optimal is never
given a reference sequence by the code; its look-ahead is examined in
`ControlledTrace` and `MemoryManagementUnit`, where a client supplies one.

## 6. Plan

1. *Done:* the page mapping and its boundary; the policies and their contract;
   the MMU with its activity log; workloads and cursors; the process manager and
   the policy registry; the simulation; the controlled trace; the comparison;
   the proofs above.
2. *Proved:* every invariant and action property the passing runs check; termination of a
   comparison is a matter of fairness and stays with TLC.
3. *Model only if the code grows into it:* re-entrant runs, and clients that
   change a Frame behind the memory manager.
