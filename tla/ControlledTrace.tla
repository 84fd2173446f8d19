--------------------------- MODULE ControlledTrace ---------------------------
(***************************************************************************)
(* The controlled trace of the demonstration: one process, every page      *)
(* registered, one reference after the other, the first of them a write.   *)
(* Optimal is told the whole trace beforehand.                             *)
(*                                                                         *)
(*   trace  kReferenceTrace, here any of References                        *)
(*   index  the loop's index: how many references have been made           *)
(***************************************************************************)
EXTENDS MemoryManagementUnit

(* The byte of page p the demonstration touches, where it has 32 for 1: it *)
(* is a byte inside the page that is not its first.                        *)
AddressIn(p) == p * PageSize + 1

(***************************************************************************)
(* The demonstration's unit: it has frames, the pages are numbers, each is *)
(* the page of the same virtual number of the only process, and every      *)
(* address fits.                                                           *)
(***************************************************************************)
ASSUME TraceAssumption ==
  /\ NumFrames > 0
  /\ Processes = {1}
  /\ Pages \subseteq Nat
  /\ VirtualPages = Pages
  /\ PageSize > 1
  /\ {AddressIn(p) : p \in Pages} \subseteq Addresses
  /\ AddressesFit
  /\ References \subseteq Seq(Pages)

(* The trace of the demonstration itself. *)
DemonstrationTrace == <<1, 2, 3, 4, 1, 2, 5, 1, 2, 3, 4, 5>>

VARIABLES trace, index

traceVars == <<vars, trace, index>>

(* Faulty: Optimal is not told the trace. *)
PreparedWithoutTrace(kind) == NewPolicy(kind)

Prepared(kind) ==
  IF kind = "OPTIMAL"
  THEN SetReferenceSequence(NewPolicy(kind), trace)
  ELSE NewPolicy(kind)

TraceInit ==
  /\ trace \in References
  /\ index = 0
  /\ mem = EmptyMemory
  /\ owner = [p \in Pages |-> 1]
  /\ pages = [p \in Pages |-> AbsentPage]
  /\ vmap = [pid \in Processes |-> [p \in VirtualPages |-> p]]
  /\ pol \in {Prepared(kind) : kind \in Kinds}
  /\ counts = NoCounts
  /\ procStats = NoProcStats
  /\ result = Failure
  /\ log = Activity!NewLog

Reference ==
  /\ index < Len(trace)
  /\ Access(1, AddressIn(trace[index + 1]), index = 0)
  /\ index' = index + 1
  /\ UNCHANGED trace

TraceSpec == TraceInit /\ [][Reference]_traceVars

-----------------------------------------------------------------------------
Done == index = Len(trace)

(***************************************************************************)
(* The fewest faults with which any choice of victims serves the trace     *)
(* from its first position on; from[i][held], from position i on with the  *)
(* pages in held resident.                                                 *)
(***************************************************************************)
FewestFaults ==
  LET from[i \in 1 .. Len(trace) + 1] ==
        [held \in SUBSET Pages |->
           CASE i > Len(trace)                       -> 0
             [] i <= Len(trace) /\ trace[i] \in held -> from[i + 1][held]
             [] OTHER ->
                  1 + IF Cardinality(held) < NumFrames
                      THEN from[i + 1][held \cup {trace[i]}]
                      ELSE Min({from[i + 1][(held \ {victim}) \cup {trace[i]}] :
                                  victim \in held})]
  IN  from[1][{}]

(***************************************************************************)
(* "This is the trace's true lower bound": Optimal serves a trace with the *)
(* fewest faults possible, because the unit reports the accesses to it in  *)
(* step with the trace, the choice of a victim before the access that      *)
(* needs it.                                                               *)
(***************************************************************************)
OptimalIsLowerBound ==
  Done /\ pol.kind = "OPTIMAL" => counts.faults = FewestFaults

(***************************************************************************)
(* Under LRU the resident pages are the NumFrames pages referenced last,   *)
(* however the accesses and loads were reported to the policy.             *)
(***************************************************************************)
LastReference(p) == Max({i \in 1 .. index : trace[i] = p})

ReferencedPages == {trace[i] : i \in 1 .. index}

LruKeepsMostRecent ==
  pol.kind = "LRU" =>
    Resident = {p \in ReferencedPages :
      Cardinality({q \in ReferencedPages : LastReference(q) > LastReference(p)}) < NumFrames}

(***************************************************************************)
(* What the first reference wrote is written back exactly once, when its   *)
(* page first leaves memory, and is dirty in memory until then.            *)
(***************************************************************************)
DirtyDataWrittenBackOnce ==
  index > 0 =>
    /\ {p \in Pages : pages[p].dirty} \subseteq {trace[1]}
    /\ counts.dirtyEvictions = IF pages[trace[1]].dirty THEN 0 ELSE 1

(***************************************************************************)
(* The activity log tells of each write-back once: directly after the      *)
(* replacement that evicted the page, from the same frame.                 *)
(***************************************************************************)
LogTellsWriteBacks ==
  LET events == log.events
      writeBacks == {i \in 1 .. Len(events) : events[i].type = "DirtyEviction"}
  IN  /\ Cardinality(writeBacks) = counts.dirtyEvictions
      /\ \A i \in writeBacks :
           /\ i > 1 /\ events[i - 1].type = "PageReplacement"
           /\ events[i - 1].victim = events[i].page
           /\ events[i - 1].frame = events[i].frame
=============================================================================
