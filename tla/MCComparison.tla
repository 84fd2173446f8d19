---------------------------- MODULE MCComparison ----------------------------
(* Benchmarks of one process; a mixed one is always refused, since a       *)
(* benchmark has no segments.                                              *)
EXTENDS Comparison

MCBenchmarks ==
  {[workload |-> "SEQUENTIAL", accesses |-> 7],
   [workload |-> "RANDOM", accesses |-> 5],
   [workload |-> "LOCALITY", accesses |-> 3],
   [workload |-> "MIXED", accesses |-> 3]}

MCConfigurations ==
  {ConfigurationFor(b, policy) : b \in MCBenchmarks, policy \in ToSet(SupportedPolicies)}
=============================================================================
