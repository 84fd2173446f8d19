--------------------------- MODULE MappingBoundary ---------------------------
(***************************************************************************)
(* Clients of the page mapping: some go through the integration boundary,  *)
(* some call PageTable and PhysicalMemoryManager directly, as the tests    *)
(* that provoke inconsistent states do.  Every public operation that       *)
(* changes either component is an action.                                  *)
(***************************************************************************)
EXTENDS PageMapping

VARIABLE mem

Init == mem = EmptyMemory

(* Operations of the boundary. *)
MapPageStep(p)      == mem' = MapPage(mem, p)
UnmapPageStep(p)    == mem' = UnmapPage(mem, p)
ReleaseFrameStep(f) == mem' = ReleaseFrame(mem, f)

BoundaryStep ==
  \/ \E p \in Pages : MapPageStep(p) \/ UnmapPageStep(p)
  \/ \E f \in FrameIds : ReleaseFrameStep(f)

(* Operations of the two components. *)
AllocateStep(p)         == mem' = AllocateFrame(mem, p)
ReleasePhysicalStep(f)  == mem' = ReleasePhysicalFrame(mem, f)
ClearPhysicalStep       == mem' = ClearPhysicalMemory(mem)
MapEntryStep(p, f)      == mem' = MapEntry(mem, p, f)
UpdateMappingStep(p, f) == mem' = UpdateMapping(mem, p, f)
UnmapEntryStep(p)       == mem' = UnmapEntry(mem, p)
ClearTableStep          == mem' = ClearPageTable(mem)

DirectStep ==
  \/ \E p \in Pages : AllocateStep(p) \/ UnmapEntryStep(p)
  \/ \E f \in FrameIds : ReleasePhysicalStep(f)
  \/ \E p \in Pages, f \in FrameIds : MapEntryStep(p, f) \/ UpdateMappingStep(p, f)
  \/ ClearPhysicalStep
  \/ ClearTableStep

Next == BoundaryStep \/ DirectStep

Spec == Init /\ [][Next]_mem

-----------------------------------------------------------------------------
TypeOK == mem \in Memory

(***************************************************************************)
(* Whoever calls, in whatever order: the counter that decides whether      *)
(* memory is full (PhysicalMemoryManager::hasFreeFrame) is the number of   *)
(* occupied frames, and no page ever holds two frames.                     *)
(***************************************************************************)
OccupancyExact ==
  /\ mem.allocated = Cardinality(OccupiedFrames(mem))
  /\ \A f, g \in Frames :
       mem.frames[f] = mem.frames[g] /\ IsOccupied(mem, f) => f = g

(***************************************************************************)
(* isConsistent() walks the frames only and trusts two counts to rule out  *)
(* table entries without a frame; it still answers exactly the question    *)
(* whether the two components are mutually inverse.                        *)
(***************************************************************************)
ConsistencyCheckExact == IsConsistent(mem) <=> MutuallyInverse(mem)

(***************************************************************************)
(* "A stale or conflicting relationship is rejected without modifying      *)
(* either component": whatever state direct callers left, a boundary       *)
(* operation touches a page's entry or frames only to take it from unknown *)
(* in both components to consistent, or from consistent to unknown in      *)
(* both.                                                                   *)
(***************************************************************************)
BoundaryStepsAreClean ==
  [][BoundaryStep =>
       \A p \in Pages :
         \/ mem'.table[p] = mem.table[p] /\ FramesHolding(mem', p) = FramesHolding(mem, p)
         \/ KnownNowhere(mem, p) /\ IsMappingConsistent(mem', p)
         \/ IsMappingConsistent(mem, p) /\ KnownNowhere(mem', p)]_mem

(***************************************************************************)
(* Callers that use only the boundary from a consistent state stay in      *)
(* consistent states, the count comparison included.                       *)
(***************************************************************************)
BoundaryPreservesConsistency ==
  [][BoundaryStep /\ IsConsistent(mem) => IsConsistent(mem')]_mem
=============================================================================
