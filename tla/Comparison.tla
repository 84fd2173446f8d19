----------------------------- MODULE Comparison -----------------------------
(***************************************************************************)
(* SimulationComparison::run(): the same benchmark under each replacement  *)
(* policy in turn, each in a Simulation object of its own that lives for   *)
(* one run without a callback, and the page faults of each recorded in a   *)
(* PageFaultComparison, which keeps its results ranked.  Whatever a        *)
(* simulation throws, the comparison throws.                               *)
(*                                                                         *)
(*   benchmark  benchmark_                                                 *)
(*   results    comparison.results_                                        *)
(* and the simulation's variables, its phase being "none" while there is   *)
(* no object and "refused" once a configuration was.                       *)
(***************************************************************************)
EXTENDS Simulation

CONSTANT Benchmarks  \* the [workload, accesses] of the benchmarks compared

VARIABLES benchmark, results

comparisonVars == <<vars, benchmark, results>>

SupportedPolicies == <<"FIFO", "LRU", "CLOCK", "OPTIMAL">>

(* toSimulationConfiguration(): the shorter constructor, with no segments, *)
(* no locality, and the whole address space as working set.                *)
ConfigurationFor(b, policy) ==
  [policy |-> policy, workload |-> b.workload, accesses |-> b.accesses,
   segments |-> <<>>,
   locality |-> [temporal |-> "NONE", spatial |-> "NONE", workingSet |-> PageCount]]

(* The simulations of a comparison are simulations. *)
ASSUME BenchmarksAssumption ==
  \A b \in Benchmarks : \A policy \in ToSet(SupportedPolicies) :
    ConfigurationFor(b, policy) \in Configurations

IsRunnable(c) == IsValid(c) /\ IsConstructible(c)

(* The policy is no part of what a workload is made from, the seed is.     *)
ComparisonInit ==
  /\ benchmark \in Benchmarks
  /\ config = ConfigurationFor(benchmark, Head(SupportedPolicies))
  /\ program \in IF IsRunnable(config) THEN Programs(config) ELSE {<<>>}
  /\ NewSimulation
  /\ phase = "none"
  /\ results = <<>>

(* Faulty: a configuration with errors is skipped in silence. *)
ConstructedIgnoringErrors(c) == IF IsValid(c) THEN "idle" ELSE "none"

(* toSimulationConfiguration() throws the first error, if there is one.    *)
Constructed(c) == IF IsValid(c) THEN "idle" ELSE "refused"

(* The next policy's simulation, unless its configuration is not valid.    *)
Construct ==
  /\ phase = "none"
  /\ Len(results) < Len(SupportedPolicies)
  /\ config' = ConfigurationFor(benchmark, SupportedPolicies[Len(results) + 1])
  /\ mem' = Mmu!EmptyMemory
  /\ owner' = [p \in Pages |-> NoProcess]
  /\ pages' = [p \in Pages |-> Mmu!AbsentPage]
  /\ vmap' = [process \in Processes |-> [v \in VirtualPages |-> NoPage]]
  /\ pol' = Mmu!NewPolicy(config'.policy)
  /\ counts' = Mmu!NoCounts
  /\ procStats' = Mmu!NoProcStats
  /\ result' = Mmu!Failure
  /\ log' = Activity!NewLog
  /\ manager' = Manager!NewManager
  /\ statistics' = NoStatistics
  /\ records' = <<>>
  /\ outcomes' = {}
  /\ reaches' = 0
  /\ phase' = Constructed(config')
  /\ UNCHANGED <<program, benchmark, results>>

Rank(policy) == CHOOSE i \in 1 .. Len(SupportedPolicies) : SupportedPolicies[i] = policy

(* Faulty: the results stay in the order in which they were recorded. *)
RankedLast(rows, row) == Append(rows, row)

(* By faults, then in the order of the policies. *)
ComesBefore(left, right) ==
  \/ left.faults < right.faults
  \/ left.faults = right.faults /\ Rank(left.policy) < Rank(right.policy)

(* sortResults(), which every recordResult() ends with: the rows before    *)
(* this one are sorted already, so that the new row goes behind those that *)
(* come before it.                                                         *)
Ranked(rows, row) ==
  InsertAt(rows, Cardinality({i \in 1 .. Len(rows) : ComesBefore(rows[i], row)}) + 1, row)

(* The totals of PageFaultStatistics. *)
Total(field) == FoldFunction(LAMBDA row, sum : row[field] + sum, 0, procStats)

Record ==
  /\ phase = "completed"
  /\ results' = Ranked(results, [policy   |-> config.policy,
                                 accesses |-> Total("accesses"),
                                 faults   |-> Total("faults")])
  /\ phase' = "none"
  /\ UNCHANGED <<mmuVars, manager, config, program, runVars, outcomes, reaches, benchmark>>

Simulate ==
  /\ (phase = "idle" /\ StartRun) \/ ExecuteAccess \/ FinishRun
  /\ UNCHANGED <<benchmark, results>>

Compare == Construct \/ Simulate \/ Record

(* One thread executes the comparison to its end. *)
ComparisonSpec == ComparisonInit /\ [][Compare]_comparisonVars /\ WF_comparisonVars(Compare)

-----------------------------------------------------------------------------
(***************************************************************************)
(* The comparison ends, with a result for each policy or by throwing.      *)
(***************************************************************************)
Returned == phase = "none" /\ Len(results) = Len(SupportedPolicies)

ComparisonEnds == <>(Returned \/ phase \in {"refused", "not started"})

(***************************************************************************)
(* The results can be compared: every policy has one, they are ranked by   *)
(* faults with ties in the order of the policies, all served the same      *)
(* number of accesses, and each policy faults at least once for every      *)
(* page referenced, exactly once when all of them fit in memory.           *)
(***************************************************************************)
Referenced == {PageOf(program[i].process, program[i].page) : i \in 1 .. Len(program)}

ResultsComparable ==
  Returned =>
    /\ {results[i].policy : i \in 1 .. Len(results)} = ToSet(SupportedPolicies)
    /\ \A i, j \in 1 .. Len(results) :
         i < j => \/ results[i].faults < results[j].faults
                  \/ /\ results[i].faults = results[j].faults
                     /\ Rank(results[i].policy) < Rank(results[j].policy)
    /\ \A row \in ToSet(results) :
         /\ row.accesses = Len(program)
         /\ row.faults \in Cardinality(Referenced) .. Len(program)
         /\ Cardinality(Referenced) <= NumFrames => row.faults = Cardinality(Referenced)

(***************************************************************************)
(* "the normal Simulation path does not provide the future-reference       *)
(* sequence": what Optimal then does is what FIFO does, since every        *)
(* resident page is as far from its next use as any other and the one      *)
(* loaded first is taken.  Its row is a second FIFO row, no lower bound.   *)
(***************************************************************************)
FaultsUnder(policy) ==
  results[CHOOSE i \in 1 .. Len(results) : results[i].policy = policy].faults

UninformedOptimalIsFifo == Returned => FaultsUnder("OPTIMAL") = FaultsUnder("FIFO")
=============================================================================
