------------------------------ MODULE Workloads ------------------------------
(***************************************************************************)
(* The workloads a simulation runs.  Every generated access is a read of   *)
(* the first byte of a page, so an access is a process and a virtual page; *)
(* a generator seeded with a fixed seed is any one stream it can produce.  *)
(*                                                                         *)
(* A configuration is a record:                                            *)
(*   policy    the replacement policy                                      *)
(*   workload  "SEQUENTIAL", "RANDOM", "LOCALITY" or "MIXED"               *)
(*   accesses  memoryAccessCount()                                         *)
(*   segments  the [workload, count] segments of a mixed workload          *)
(*   locality  temporal and spatial strength, and the working-set size     *)
(* A strength is NONE (0), SOME (between), ALL (1) or INVALID (outside).   *)
(***************************************************************************)
EXTENDS Naturals, SequencesExt

CONSTANTS
  ProcessCount,        \* processes, numbered from 1
  PageCount,           \* pages per process, numbered from 0
  MaximumRecentPages,  \* pages the locality generator remembers, 16 in the code
  SpatialRadius        \* 2 in the code

ASSUME CountsAssumption ==
  /\ ProcessCount \in Nat \ {0}
  /\ PageCount \in Nat \ {0}
  /\ MaximumRecentPages \in Nat \ {0}
  /\ SpatialRadius \in Nat

SequentialStream(n) == [i \in 1 .. n |-> (i - 1) % PageCount]

RandomStreams(n) == [1 .. n -> 0 .. PageCount - 1]

-----------------------------------------------------------------------------
(* Locality: pages are generated relative to the start of a working set.   *)

Strengths == {"NONE", "SOME", "ALL"}

Uniform(loc) == 0 .. loc.workingSet - 1

(* Faulty: the end of the working set is not respected. *)
NearbyUnbounded(loc, previous) ==
  (IF previous > SpatialRadius THEN previous - SpatialRadius ELSE 0) .. previous + SpatialRadius

Nearby(loc, previous) ==
  IF loc.workingSet <= 1
  THEN {previous}
  ELSE (IF previous > SpatialRadius THEN previous - SpatialRadius ELSE 0)
         .. Min({loc.workingSet - 1, previous + SpatialRadius})

(* A draw below the temporal strength repeats a recent page when there is  *)
(* one; of the rest, the spatial strength's share stays near the last      *)
(* page, and everything else is uniform.                                   *)
NextPages(loc, recent) ==
  (IF recent # <<>> /\ loc.temporal # "NONE" THEN ToSet(recent) ELSE {})
  \cup
  (IF loc.temporal # "ALL" /\ loc.spatial # "NONE"
   THEN Nearby(loc, IF recent = <<>> THEN 0 ELSE Last(recent)) ELSE {})
  \cup
  (IF \/ recent = <<>> /\ loc.temporal # "NONE"
      \/ loc.temporal # "ALL" /\ loc.spatial # "ALL"
   THEN Uniform(loc) ELSE {})

(* Faulty: the oldest pages are kept. *)
RememberFirst(recent, page) ==
  IF Len(recent) = MaximumRecentPages THEN recent ELSE Append(recent, page)

Remember(recent, page) ==
  Append(IF Len(recent) = MaximumRecentPages THEN Tail(recent) ELSE recent, page)

WorkingSetStarts(loc) == 0 .. PageCount - loc.workingSet

(* The last pages generated before the i-th. *)
RecentBefore(stream, i) ==
  SubSeq(stream, IF i > MaximumRecentPages THEN i - MaximumRecentPages ELSE 1, i - 1)

RelativeStreams(loc, n) ==
  {s \in [1 .. n -> Uniform(loc)] : \A i \in 1 .. n : s[i] \in NextPages(loc, RecentBefore(s, i))}

LocalityStreams(loc, n) ==
  {[i \in 1 .. n |-> start + s[i]] : start \in WorkingSetStarts(loc), s \in RelativeStreams(loc, n)}

-----------------------------------------------------------------------------
(* From a configuration to the accesses of a run *)

(* SimulationConfigurationValidator: the locality parameters are looked at *)
(* only when the whole workload is of that kind.                           *)
ValidLocality(loc) ==
  /\ loc.temporal \in Strengths
  /\ loc.spatial \in Strengths
  /\ loc.workingSet \in 1 .. PageCount

IsValid(config) ==
  /\ config.accesses > 0
  /\ config.workload = "LOCALITY" => ValidLocality(config.locality)
  /\ config.workload = "MIXED" =>
       /\ config.segments # <<>>
       /\ \A s \in ToSet(config.segments) : s.count > 0 /\ s.workload # "MIXED"

(* Faulty: one process too few gets a part of the remainder. *)
ProcessAccessCountShort(config, process) ==
  config.accesses \div ProcessCount
    + IF process < config.accesses % ProcessCount THEN 1 ELSE 0

(* The total is divided evenly, and the first processes get the remainder. *)
ProcessAccessCount(config, process) ==
  config.accesses \div ProcessCount
    + IF process - 1 < config.accesses % ProcessCount THEN 1 ELSE 0

(* Faulty: segments that are cut to nothing are kept. *)
MixedSegmentsPadded(segments, n) ==
  LET Cut(cut, segment) ==
        LET count == Min({segment.count, n - cut.allocated})
        IN  [list      |-> Append(cut.list, [segment EXCEPT !.count = count]),
             allocated |-> cut.allocated + count]
  IN  FoldLeft(Cut, [list |-> <<>>, allocated |-> 0], segments).list

(* Segments are taken in order until the process's accesses are used up;   *)
(* when they end first, the process makes fewer accesses.                  *)
MixedSegments(segments, n) ==
  LET Cut(cut, segment) ==
        LET count == Min({segment.count, n - cut.allocated})
        IN  IF count = 0 THEN cut
            ELSE [list      |-> Append(cut.list, [segment EXCEPT !.count = count]),
                  allocated |-> cut.allocated + count]
  IN  FoldLeft(Cut, [list |-> <<>>, allocated |-> 0], segments).list

ProcessSegments(config, process) ==
  LET n == ProcessAccessCount(config, process)
  IN  IF config.workload = "MIXED" THEN MixedSegments(config.segments, n)
      ELSE <<[workload |-> config.workload, count |-> n]>>

(* The constructors of the workloads refuse a segment without accesses and *)
(* impossible locality parameters.                                         *)
IsConstructible(config) ==
  \A process \in 1 .. ProcessCount :
    \A s \in ToSet(ProcessSegments(config, process)) :
      s.count > 0 /\ (s.workload = "LOCALITY" => ValidLocality(config.locality))

SegmentStreams(config, segment) ==
  CASE segment.workload = "SEQUENTIAL" -> {SequentialStream(segment.count)}
    [] segment.workload = "RANDOM"     -> RandomStreams(segment.count)
    [] segment.workload = "LOCALITY"   -> LocalityStreams(config.locality, segment.count)

ProcessStreams(config, process) ==
  LET Extend(streams, segment) ==
        {s \o [i \in 1 .. segment.count |-> [process |-> process, page |-> t[i]]] :
           s \in streams, t \in SegmentStreams(config, segment)}
  IN  FoldLeft(Extend, {<<>>}, ProcessSegments(config, process))

(* What draining the workload yields: all of a process, then the next.     *)
Programs(config) ==
  LET Extend(programs, process) ==
        {p \o s : p \in programs, s \in ProcessStreams(config, process)}
  IN  FoldLeft(Extend, {<<>>}, [process \in 1 .. ProcessCount |-> process])
=============================================================================
