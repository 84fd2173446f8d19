-------------------------- MODULE MCWorkloadCursor --------------------------
(* Up to three processes with up to two segments of one or two accesses:   *)
(* workloads without any access come first, in between and last.           *)
EXTENDS WorkloadCursor

MCSegmentLengths == UNION {[1 .. n -> 1 .. 2] : n \in 0 .. 2}

MCCompositions == UNION {[1 .. n -> MCSegmentLengths] : n \in 0 .. 3}
=============================================================================
