----------------------------- MODULE PageMapping -----------------------------
(***************************************************************************)
(* The page-to-frame relation EMMUS keeps twice, and the boundary that     *)
(* keeps the two copies together.                                          *)
(*                                                                         *)
(*   - PhysicalMemoryManager: which page each frame holds, and how many    *)
(*     frames are allocated (a counter of its own, never recomputed);      *)
(*   - PageTable: which frame each page is mapped to;                      *)
(*   - PageTablePhysicalMemoryIntegration: the only operations that are    *)
(*     supposed to change both.                                            *)
(*                                                                         *)
(* The three are pure operators on one record m, so that the memory        *)
(* management unit, the simulation and the clients that bypass the         *)
(* boundary can be composed from them:                                     *)
(*                                                                         *)
(*   m.frames[f]   the page frame f holds, or NoPage                       *)
(*   m.allocated   PhysicalMemoryManager::allocatedFrameCount_             *)
(*   m.table[p]    the frame the page table gives for p, or NoFrame        *)
(*                                                                         *)
(* A PageId carries no process, in the code as here: the table has one key *)
(* space for all processes.                                                *)
(***************************************************************************)
EXTENDS Integers, FiniteSets, FiniteSetsExt

CONSTANTS
  NumFrames,  \* capacity of physical memory
  Pages,      \* the PageId values clients use
  NoPage,     \* an empty std::optional<PageId>
  NoFrame     \* an empty std::optional<FrameId>

(* PhysicalMemoryManager::FrameCount is a size, which may be zero. *)
ASSUME NumFramesAssumption == NumFrames \in Nat
ASSUME PagesAssumption     == IsFiniteSet(Pages) /\ NoPage \notin Pages

Frames == 0 .. NumFrames - 1

(* A FrameId is any integer: NumFrames stands for the ones outside memory. *)
FrameIds == 0 .. NumFrames

ASSUME NoFrameAssumption == NoFrame \notin FrameIds

Memory == [frames    : [Frames -> Pages \cup {NoPage}],
           allocated : Int,
           table     : [Pages -> FrameIds \cup {NoFrame}]]

EmptyMemory == [frames    |-> [f \in Frames |-> NoPage],
                allocated |-> 0,
                table     |-> [p \in Pages |-> NoFrame]]

-----------------------------------------------------------------------------
(* PhysicalMemoryManager *)

IsOccupied(m, f) == m.frames[f] # NoPage

OccupiedFrames(m) == {f \in Frames : IsOccupied(m, f)}

FreeFrames(m) == Frames \ OccupiedFrames(m)

HasFreeFrame(m) == m.allocated < NumFrames

FramesHolding(m, p) == {f \in Frames : m.frames[f] = p}

IsPageMapped(m, p) == FramesHolding(m, p) # {}

(* Faulty: frames are numbered from one. *)
FrameForPageFromOne(m, p) ==
  IF IsPageMapped(m, p) THEN Min(FramesHolding(m, p)) + 1 ELSE NoFrame

(* The scan runs in frame order, so the lowest frame wins. *)
FrameForPage(m, p) ==
  IF IsPageMapped(m, p) THEN Min(FramesHolding(m, p)) ELSE NoFrame

(* Faulty: a page that holds a frame is given another. *)
AllocateFrameAgain(m, p) ==
  IF FreeFrames(m) = {}
  THEN m
  ELSE [m EXCEPT !.frames[Min(FreeFrames(m))] = p, !.allocated = @ + 1]

AllocateFrame(m, p) ==
  IF IsPageMapped(m, p) \/ FreeFrames(m) = {}
  THEN m
  ELSE [frames    |-> [m.frames EXCEPT ![Min(FreeFrames(m))] = p],
        allocated |-> m.allocated + 1,
        table     |-> m.table]

ReleasePhysicalFrame(m, f) ==
  IF f \in OccupiedFrames(m)
  THEN [frames    |-> [m.frames EXCEPT ![f] = NoPage],
        allocated |-> m.allocated - 1,
        table     |-> m.table]
  ELSE m

(* Faulty: the counter is forgotten. *)
ClearFramesOnly(m) == [m EXCEPT !.frames = [f \in Frames |-> NoPage]]

(* clear() releases the occupied frames one by one. *)
ClearPhysicalMemory(m) ==
  [frames    |-> [f \in Frames |-> NoPage],
   allocated |-> m.allocated - Cardinality(OccupiedFrames(m)),
   table     |-> m.table]

-----------------------------------------------------------------------------
(* PageTable *)

IsMapped(m, p) == m.table[p] # NoFrame

TableSize(m) == Cardinality({p \in Pages : IsMapped(m, p)})

MapEntry(m, p, f) == IF IsMapped(m, p) THEN m ELSE [m EXCEPT !.table[p] = f]

UpdateMapping(m, p, f) == IF IsMapped(m, p) THEN [m EXCEPT !.table[p] = f] ELSE m

UnmapEntry(m, p) == [m EXCEPT !.table[p] = NoFrame]

ClearPageTable(m) == [m EXCEPT !.table = [p \in Pages |-> NoFrame]]

-----------------------------------------------------------------------------
(* PageTablePhysicalMemoryIntegration *)

(* Both components know the page, name the same frame, and it holds it. *)
IsMappingConsistent(m, p) ==
  /\ IsMapped(m, p)
  /\ IsPageMapped(m, p)
  /\ m.table[p] = FrameForPage(m, p)
  /\ m.frames[m.table[p]] = p

(* Faulty: entries without a frame are not noticed. *)
FramesConsistent(m) ==
  \A f \in OccupiedFrames(m) : IsMappingConsistent(m, m.frames[f])

IsConsistent(m) ==
  /\ TableSize(m) = m.allocated
  /\ \A f \in OccupiedFrames(m) : IsMappingConsistent(m, m.frames[f])

CanMapPage(m, p) ==
  ~IsMapped(m, p) /\ ~IsPageMapped(m, p) /\ FreeFrames(m) # {}

(* Allocation first, publication second.  The entry cannot be present any  *)
(* more when it is published, so the code's rollback there is never taken. *)
MapPage(m, p) ==
  IF CanMapPage(m, p)
  THEN LET allocation == AllocateFrame(m, p)
       IN  MapEntry(allocation, p, FrameForPage(allocation, p))
  ELSE m

(* Faulty: the frame is released unseen. *)
CanUnmapEntry(m, p) == IsMapped(m, p)

CanUnmapPage(m, p) == IsMapped(m, p) /\ IsMappingConsistent(m, p)

(* Faulty: the frame is not given back. *)
UnmapPageKeepingFrame(m, p) ==
  IF CanUnmapPage(m, p) THEN UnmapEntry(m, p) ELSE m

UnmapPage(m, p) ==
  IF CanUnmapPage(m, p)
  THEN ReleasePhysicalFrame(UnmapEntry(m, p), m.table[p])
  ELSE m

CanReleaseFrame(m, f) ==
  f \in OccupiedFrames(m) /\ m.frames[f] \in Pages /\ m.table[m.frames[f]] = f

ReleaseFrame(m, f) ==
  IF CanReleaseFrame(m, f)
  THEN ReleasePhysicalFrame(UnmapEntry(m, m.frames[f]), f)
  ELSE m

-----------------------------------------------------------------------------
(* The relation the two components should hold: each the inverse of the    *)
(* other.                                                                  *)
MutuallyInverse(m) ==
  \A p \in Pages, f \in FrameIds :
    m.table[p] = f <=> f \in Frames /\ m.frames[f] = p

(* Neither component knows the page. *)
KnownNowhere(m, p) == ~IsMapped(m, p) /\ ~IsPageMapped(m, p)
=============================================================================
