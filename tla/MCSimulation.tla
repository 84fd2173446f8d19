---------------------------- MODULE MCSimulation ----------------------------
(* Configurations of two processes, of every kind of workload and policy.  *)
EXTENDS Simulation

Segment(workload, count) == [workload |-> workload, count |-> count]

Loc(temporal, spatial, workingSet) ==
  [temporal |-> temporal, spatial |-> spatial, workingSet |-> workingSet]

MCConfiguration(policy, workload, accesses, segments, locality) ==
  [policy |-> policy, workload |-> workload, accesses |-> accesses,
   segments |-> segments, locality |-> locality]

Configured(workload, accesses, segments, locality) ==
  {MCConfiguration(policy, workload, accesses, segments, locality) :
     policy \in {"FIFO", "LRU", "CLOCK", "OPTIMAL"}}

(* Two the validator accepts although no workload can be constructed from  *)
(* them: fewer accesses than processes, and a locality segment larger than *)
(* the address space.                                                      *)
MCUnstartable ==
  {MCConfiguration("FIFO", "RANDOM", 1, <<>>, Loc("NONE", "NONE", 1)),
   MCConfiguration("FIFO", "MIXED", 4, <<Segment("LOCALITY", 4)>>, Loc("SOME", "SOME", 3))}

(* Among them: a process with one access more than the other, segments     *)
(* that are cut short and segments that do not suffice.                    *)
MCConfigurations ==
  Configured("SEQUENTIAL", 5, <<>>, Loc("NONE", "NONE", 1))
  \cup Configured("RANDOM", 5, <<>>, Loc("NONE", "NONE", 1))
  \cup Configured("LOCALITY", 6, <<>>, Loc("SOME", "SOME", 2))
  \cup Configured("MIXED", 7,
                  <<Segment("SEQUENTIAL", 2), Segment("RANDOM", 1), Segment("SEQUENTIAL", 2)>>,
                  Loc("NONE", "NONE", 1))
  \cup Configured("MIXED", 7, <<Segment("RANDOM", 2)>>, Loc("NONE", "NONE", 1))
  \cup Configured("MIXED", 1, <<Segment("LOCALITY", 3)>>, Loc("ALL", "NONE", 2))
  \cup MCUnstartable

MCShortMix ==
  {MCConfiguration("FIFO", "MIXED", 7, <<Segment("SEQUENTIAL", 2)>>, Loc("NONE", "NONE", 1))}
=============================================================================
