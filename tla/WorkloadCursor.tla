--------------------------- MODULE WorkloadCursor ---------------------------
(***************************************************************************)
(* The cursors of a composed workload: a MultiProcessWorkload over one     *)
(* MixedWorkload per process, over segments that each hold their accesses. *)
(* The composition keeps no accesses of its own, only indices at three     *)
(* levels that have to agree; hasNext() is const, and yet it moves one of  *)
(* them (currentWorkload_ is mutable) and deliberately not another.        *)
(*                                                                         *)
(*   lengths          accesses_.size() of each segment of each process     *)
(*   nextIndex        nextIndex_ of each segment of each process           *)
(*   currentSegment   currentSegment_ of each MixedWorkload, from 1 here   *)
(*   currentWorkload  currentWorkload_, from 1 here                        *)
(*   answer           what the last call returned                          *)
(*                                                                         *)
(* A process whose workload is not mixed is one with a single segment: the *)
(* segment index then never matters.  A MixedWorkload may have no segment  *)
(* at all, when its process is given no access; a segment has at least one *)
(* access, as the constructors demand.                                     *)
(***************************************************************************)
EXTENDS Naturals, SequencesExt

CONSTANT Compositions  \* the values lengths may have

ASSUME CompositionsAssumption == Compositions \subseteq Seq(Seq(Nat \ {0}))

VARIABLES lengths, nextIndex, currentSegment, currentWorkload, answer

cursorVars == <<lengths, nextIndex, currentSegment, currentWorkload, answer>>

NoAnswer == <<"none">>
Told(isLeft) == <<"hasNext", isLeft>>
Given(access) == <<"access", access>>
Threw == <<"threw">>

Workloads == 1 .. Len(lengths)

Segments(w) == 1 .. Len(lengths[w])

CursorInit ==
  /\ lengths \in Compositions
  /\ nextIndex = [w \in Workloads |-> [s \in Segments(w) |-> 0]]
  /\ currentSegment = [w \in Workloads |-> 1]
  /\ currentWorkload = 1
  /\ answer = NoAnswer

SegmentHasNext(w, s) == nextIndex[w][s] < lengths[w][s]

(* The first segment from the current one on that has an access left.      *)
FirstSegmentLeft(w) ==
  Min({s \in Segments(w) : s >= currentSegment[w] /\ SegmentHasNext(w, s)}
      \cup {Len(lengths[w]) + 1})

(* MixedWorkload::hasNext() looks ahead without moving.                    *)
MixedHasNext(w) == FirstSegmentLeft(w) \in Segments(w)

(* The first workload from the current one on that has an access left.     *)
FirstWorkloadLeft ==
  Min({w \in Workloads : w >= currentWorkload /\ MixedHasNext(w)} \cup {Len(lengths) + 1})

(* MultiProcessWorkload::hasNext() moves to it.                            *)
HasNext ==
  /\ currentWorkload' = FirstWorkloadLeft
  /\ answer' = Told(FirstWorkloadLeft \in Workloads)
  /\ UNCHANGED <<lengths, nextIndex, currentSegment>>

(* nextAccess() calls hasNext() first; MixedWorkload::nextAccess() then    *)
(* moves to the segment and the segment delivers its next access.          *)
NextAccess ==
  LET w == FirstWorkloadLeft
      s == FirstSegmentLeft(w)
  IN  /\ w \in Workloads
      /\ currentWorkload' = w
      /\ UNCHANGED lengths
      /\ currentSegment' = [currentSegment EXCEPT ![w] = s]
      /\ nextIndex' = [nextIndex EXCEPT ![w][s] = @ + 1]
      /\ answer' = Given([workload |-> w, segment |-> s, index |-> nextIndex[w][s]])

NextAccessThrows ==
  /\ FirstWorkloadLeft \notin Workloads
  /\ currentWorkload' = FirstWorkloadLeft
  /\ answer' = Threw
  /\ UNCHANGED <<lengths, nextIndex, currentSegment>>

(* Faulty: the segment index is not reset. *)
ResetSegmentsOnly ==
  /\ nextIndex' = [w \in Workloads |-> [s \in Segments(w) |-> 0]]
  /\ currentWorkload' = 1
  /\ answer' = NoAnswer
  /\ UNCHANGED <<lengths, currentSegment>>

Reset ==
  /\ nextIndex' = [w \in Workloads |-> [s \in Segments(w) |-> 0]]
  /\ currentSegment' = [w \in Workloads |-> 1]
  /\ currentWorkload' = 1
  /\ answer' = NoAnswer
  /\ UNCHANGED lengths

CursorNext == HasNext \/ NextAccess \/ NextAccessThrows \/ Reset

CursorSpec == CursorInit /\ [][CursorNext]_cursorVars

-----------------------------------------------------------------------------
(* The accesses of all segments in order. *)
SegmentAccesses(w, s) ==
  [i \in 1 .. lengths[w][s] |-> [workload |-> w, segment |-> s, index |-> i - 1]]

AllAccesses ==
  FlattenSeq([w \in Workloads |->
    FlattenSeq([s \in Segments(w) |-> SegmentAccesses(w, s)])])

(* How many accesses the segments have delivered since the reset. *)
Delivered ==
  LET Sum(counts) == FoldLeft(LAMBDA a, b : a + b, 0, counts)
  IN  Sum([w \in Workloads |-> Sum(nextIndex[w])])

(***************************************************************************)
(* The composition is one stream: the accesses of all segments in order,   *)
(* each once, hasNext() true exactly while one is left, and the same again *)
(* after a reset.                                                          *)
(***************************************************************************)
Stream == INSTANCE AccessStream WITH
  accesses <- AllAccesses,
  position <- Delivered

IsAccessStream == Stream!Spec

=============================================================================
