-------------------------- MODULE PageMappingLemmas --------------------------
(***************************************************************************)
(* What the operators of PageMapping do to a memory whose allocation       *)
(* counter is exact, for every number of frames and every set of pages.    *)
(***************************************************************************)
EXTENDS PageMapping, TLAPS, FiniteSetTheorems, WellFoundedInduction

(* Exactness of one memory: the counter counts the occupied frames, and no *)
(* page holds two frames.                                                  *)
Exact(m) ==
  /\ m \in Memory
  /\ m.allocated = Cardinality(OccupiedFrames(m))
  /\ \A f, g \in Frames : m.frames[f] = m.frames[g] /\ IsOccupied(m, f) => f = g

(* A memory is the record of its three fields. *)
LEMMA MemoryFields ==
  ASSUME NEW m \in Memory
  PROVE  /\ m = [frames |-> m.frames, allocated |-> m.allocated, table |-> m.table]
         /\ m.frames \in [Frames -> Pages \cup {NoPage}]
         /\ m.allocated \in Int
         /\ m.table \in [Pages -> FrameIds \cup {NoFrame}]
BY DEF Memory

(***************************************************************************)
(* The frame scans of PhysicalMemoryManager return a frame of the set they *)
(* look for.                                                               *)
(***************************************************************************)
LEMMA LowestFrame ==
  ASSUME NEW S \in SUBSET Frames, S # {}
  PROVE  Min(S) \in S
<1>1. S \subseteq Nat
  BY NumFramesAssumption DEF Frames
<1>2. PICK x \in S : \A y \in S : ~(<<y, x>> \in OpToRel(<, Nat))
  BY <1>1, NatLessThanWellFounded, WFMin
<1>3. \A y \in S : ~(y < x)
  BY <1>1, <1>2 DEF OpToRel
<1>4. \A y \in S : x =< y
  BY <1>1, <1>3
<1> QED
  BY <1>4 DEF Min

(***************************************************************************)
(* Every set of frames is finite, and a memory is full by its counter just *)
(* when every frame is occupied.                                           *)
(***************************************************************************)
LEMMA FramesAreFinite ==
  /\ IsFiniteSet(Frames)
  /\ Cardinality(Frames) = NumFrames
  /\ \A S \in SUBSET Frames :
       /\ IsFiniteSet(S)
       /\ Cardinality(S) \in Nat
       /\ Cardinality(S) <= NumFrames
       /\ Cardinality(S) = NumFrames => S = Frames
<1>1. IsFiniteSet(Frames) /\ Cardinality(Frames) = NumFrames
  BY FS_Interval, NumFramesAssumption DEF Frames
<1>2. ASSUME NEW S \in SUBSET Frames
      PROVE  /\ IsFiniteSet(S)
             /\ Cardinality(S) \in Nat
             /\ Cardinality(S) <= NumFrames
             /\ Cardinality(S) = NumFrames => S = Frames
  BY <1>1, FS_Subset, FS_CardinalityType
<1> QED
  BY <1>1, <1>2

(* allocatedFrames_ tells the truth: it is within the frame count, and
   allocateFrame() finds no frame only when all are occupied. *)
LEMMA FullIffAllOccupied ==
  ASSUME NEW m, Exact(m)
  PROVE  /\ m.allocated \in 0 .. NumFrames
         /\ HasFreeFrame(m) <=> FreeFrames(m) # {}
         /\ ~HasFreeFrame(m) => OccupiedFrames(m) = Frames
<1>1. OccupiedFrames(m) \in SUBSET Frames
  BY DEF OccupiedFrames
<1>2. m.allocated \in 0 .. NumFrames
  BY <1>1, FramesAreFinite, NumFramesAssumption DEF Exact
<1>3. m.allocated = NumFrames <=> OccupiedFrames(m) = Frames
  BY <1>1, FramesAreFinite DEF Exact
<1> QED
  BY <1>1, <1>2, <1>3, NumFramesAssumption DEF HasFreeFrame, FreeFrames

-----------------------------------------------------------------------------
(* PhysicalMemoryManager *)

(***************************************************************************)
(* allocateFrame() gives the page one free frame and changes nothing else, *)
(* or changes nothing.                                                     *)
(***************************************************************************)
LEMMA AllocateFrameExact ==
  ASSUME NEW m, Exact(m), NEW p \in Pages
  PROVE  /\ Exact(AllocateFrame(m, p))
         /\ AllocateFrame(m, p).table = m.table
         /\ ~IsPageMapped(m, p) /\ FreeFrames(m) # {} =>
              /\ Min(FreeFrames(m)) \in FreeFrames(m)
              /\ AllocateFrame(m, p).frames =
                   [m.frames EXCEPT ![Min(FreeFrames(m))] = p]
<1>1. CASE IsPageMapped(m, p) \/ FreeFrames(m) = {}
  BY <1>1 DEF AllocateFrame
<1>2. CASE ~IsPageMapped(m, p) /\ FreeFrames(m) # {}
  <2> DEFINE f == Min(FreeFrames(m))
             n == AllocateFrame(m, p)
  <2>1. f \in FreeFrames(m) /\ f \in Frames
    BY <1>2, LowestFrame DEF FreeFrames
  <2>2. m.frames[f] = NoPage /\ p # NoPage
    BY <2>1, PagesAssumption DEF FreeFrames, OccupiedFrames, IsOccupied
  <2> HIDE DEF f
  <2>3. /\ n = [frames    |-> [m.frames EXCEPT ![f] = p],
                allocated |-> m.allocated + 1,
                table     |-> m.table]
        /\ m \in Memory
    BY <1>2 DEF AllocateFrame, f, Exact
  <2> HIDE DEF n
  <2>4. /\ n \in Memory
        /\ n.frames = [m.frames EXCEPT ![f] = p]
        /\ n.allocated = m.allocated + 1
        /\ n.table = m.table
    BY <2>1, <2>3, MemoryFields DEF Memory
  <2>5. OccupiedFrames(n) = OccupiedFrames(m) \cup {f} /\ f \notin OccupiedFrames(m)
    BY <2>1, <2>2, <2>4 DEF OccupiedFrames, IsOccupied, Exact, Memory
  <2>6. Cardinality(OccupiedFrames(n)) = Cardinality(OccupiedFrames(m)) + 1
    BY <2>5, FS_AddElement, FramesAreFinite DEF OccupiedFrames
  <2>7. \A g \in Frames : m.frames[g] # p
    BY <1>2 DEF IsPageMapped, FramesHolding
  <2>8. \A g, h \in Frames : n.frames[g] = n.frames[h] /\ IsOccupied(n, g) => g = h
    BY <2>1, <2>3, <2>4, <2>7 DEF IsOccupied, Exact, Memory
  <2> QED
    BY <1>2, <2>1, <2>4, <2>6, <2>8 DEF Exact, f, n
<1> QED
  BY <1>1, <1>2

(***************************************************************************)
(* releaseFrame() of an occupied frame empties it alone, and counts it.    *)
(***************************************************************************)
LEMMA ReleasePhysicalFrameExact ==
  ASSUME NEW m, Exact(m), NEW f
  PROVE  /\ Exact(ReleasePhysicalFrame(m, f))
         /\ ReleasePhysicalFrame(m, f).table = m.table
         /\ f \in OccupiedFrames(m) =>
              /\ ReleasePhysicalFrame(m, f).frames = [m.frames EXCEPT ![f] = NoPage]
              /\ OccupiedFrames(ReleasePhysicalFrame(m, f)) = OccupiedFrames(m) \ {f}
<1>1. CASE f \notin OccupiedFrames(m)
  BY <1>1 DEF ReleasePhysicalFrame
<1>2. CASE f \in OccupiedFrames(m)
  <2> DEFINE n == ReleasePhysicalFrame(m, f)
  <2>1. f \in Frames
    BY <1>2 DEF OccupiedFrames
  <2>2. /\ n = [frames    |-> [m.frames EXCEPT ![f] = NoPage],
                allocated |-> m.allocated - 1,
                table     |-> m.table]
        /\ m \in Memory
    BY <1>2 DEF ReleasePhysicalFrame, Exact
  <2> HIDE DEF n
  <2>3. /\ n \in Memory
        /\ n.frames = [m.frames EXCEPT ![f] = NoPage]
        /\ n.allocated = m.allocated - 1
        /\ n.table = m.table
    BY <2>1, <2>2, MemoryFields DEF Memory
  <2>4. OccupiedFrames(n) = OccupiedFrames(m) \ {f}
    BY <2>1, <2>2, <2>3 DEF OccupiedFrames, IsOccupied, Memory
  <2>5. Cardinality(OccupiedFrames(n)) = Cardinality(OccupiedFrames(m)) - 1
    BY <1>2, <2>4, FS_RemoveElement, FramesAreFinite DEF OccupiedFrames
  <2>6. \A g, h \in Frames : n.frames[g] = n.frames[h] /\ IsOccupied(n, g) => g = h
    BY <2>1, <2>2, <2>3 DEF IsOccupied, Exact, Memory
  <2> QED
    BY <2>3, <2>4, <2>5, <2>6 DEF Exact, n
<1> QED
  BY <1>1, <1>2

(* Clearing the frames frees all of them and leaves the page table alone. *)
LEMMA ClearPhysicalMemoryExact ==
  ASSUME NEW m, Exact(m)
  PROVE  /\ Exact(ClearPhysicalMemory(m))
         /\ ClearPhysicalMemory(m).table = m.table
         /\ OccupiedFrames(ClearPhysicalMemory(m)) = {}
<1> DEFINE n == ClearPhysicalMemory(m)
<1>1. /\ n.frames = [f \in Frames |-> NoPage]
      /\ n.allocated = m.allocated - Cardinality(OccupiedFrames(m))
      /\ n.table = m.table
      /\ n \in Memory
  <2>1. m \in Memory /\ Cardinality(OccupiedFrames(m)) \in Int
    BY FramesAreFinite DEF Exact, OccupiedFrames
  <2>2. n = [frames    |-> [f \in Frames |-> NoPage],
             allocated |-> m.allocated - Cardinality(OccupiedFrames(m)),
             table     |-> m.table]
    BY <2>1, MemoryFields DEF ClearPhysicalMemory
  <2> QED
    BY <2>1, <2>2, MemoryFields DEF Memory
<1> HIDE DEF n
<1>2. OccupiedFrames(n) = {}
  BY <1>1 DEF OccupiedFrames, IsOccupied
<1>3. n.allocated = 0
  BY <1>1, FramesAreFinite DEF Exact, OccupiedFrames
<1> QED
  BY <1>1, <1>2, <1>3, FS_EmptySet DEF Exact, OccupiedFrames, IsOccupied, n

-----------------------------------------------------------------------------
(* PageTable *)

(***************************************************************************)
(* A change of the page table alone keeps a memory exact.                  *)
(***************************************************************************)
LEMMA TableOnly ==
  ASSUME NEW m, Exact(m), NEW t \in [Pages -> FrameIds \cup {NoFrame}]
  PROVE  Exact([m EXCEPT !.table = t])
BY DEF Exact, Memory, OccupiedFrames, IsOccupied

(* The page table's own operations do not disturb the frame bookkeeping. *)
LEMMA TableOperationsExact ==
  ASSUME NEW m, Exact(m), NEW p \in Pages, NEW f \in FrameIds
  PROVE  /\ Exact(MapEntry(m, p, f))
         /\ Exact(UpdateMapping(m, p, f))
         /\ Exact(UnmapEntry(m, p))
         /\ Exact(ClearPageTable(m))
<1> DEFINE put   == [m.table EXCEPT ![p] = f]
           gone  == [m.table EXCEPT ![p] = NoFrame]
           empty == [q \in Pages |-> NoFrame]
<1>1. /\ m \in Memory
      /\ put \in [Pages -> FrameIds \cup {NoFrame}]
      /\ gone \in [Pages -> FrameIds \cup {NoFrame}]
      /\ empty \in [Pages -> FrameIds \cup {NoFrame}]
  BY DEF Exact, Memory
<1>2. /\ [m EXCEPT !.table[p] = f] = [m EXCEPT !.table = put]
      /\ UnmapEntry(m, p) = [m EXCEPT !.table = gone]
      /\ ClearPageTable(m) = [m EXCEPT !.table = empty]
  BY <1>1 DEF UnmapEntry, ClearPageTable, Memory
<1> HIDE DEF put, gone, empty
<1>3. /\ Exact([m EXCEPT !.table = put])
      /\ Exact([m EXCEPT !.table = gone])
      /\ Exact([m EXCEPT !.table = empty])
  BY <1>1, TableOnly
<1> QED
  BY <1>2, <1>3 DEF MapEntry, UpdateMapping

-----------------------------------------------------------------------------
(* PageTablePhysicalMemoryIntegration *)

(***************************************************************************)
(* In an exact memory a page is in one frame at most, which is the one     *)
(* frameForPage() finds.                                                   *)
(***************************************************************************)
LEMMA FrameOfPage ==
  ASSUME NEW m, Exact(m), NEW f \in Frames, NEW p \in Pages, m.frames[f] = p
  PROVE  /\ FramesHolding(m, p) = {f}
         /\ IsPageMapped(m, p)
         /\ FrameForPage(m, p) = f
<1>1. p # NoPage
  BY PagesAssumption
<1>2. FramesHolding(m, p) = {f}
  BY <1>1 DEF FramesHolding, Exact, IsOccupied
<1> QED
  BY <1>2, LowestFrame DEF IsPageMapped, FrameForPage

(* The page an occupied frame holds is a page. *)
LEMMA HeldPage ==
  ASSUME NEW m, Exact(m), NEW f \in OccupiedFrames(m)
  PROVE  f \in Frames /\ m.frames[f] \in Pages
BY MemoryFields DEF Exact, OccupiedFrames, IsOccupied

(***************************************************************************)
(* mapPage() of a page neither component knows, while there is room,       *)
(* records the page and the lowest free frame in both.                     *)
(***************************************************************************)
LEMMA MapPageEffect ==
  ASSUME NEW m, Exact(m), NEW p \in Pages, CanMapPage(m, p)
  PROVE  LET f == Min(FreeFrames(m))
         IN  /\ f \in FreeFrames(m) /\ f \in Frames
             /\ Exact(MapPage(m, p))
             /\ MapPage(m, p).frames = [m.frames EXCEPT ![f] = p]
             /\ MapPage(m, p).table = [m.table EXCEPT ![p] = f]
<1> DEFINE f == Min(FreeFrames(m))
           a == AllocateFrame(m, p)
<1>1. /\ f \in FreeFrames(m)
      /\ Exact(a)
      /\ a.frames = [m.frames EXCEPT ![f] = p]
      /\ a.table = m.table
  BY AllocateFrameExact DEF CanMapPage
<1>2. f \in Frames /\ f \in FrameIds
  BY <1>1, NumFramesAssumption DEF FreeFrames, Frames, FrameIds
<1>3. m \in Memory /\ a \in Memory
  BY <1>1 DEF Exact
<1>4. a.frames[f] = p
  BY <1>1, <1>2, <1>3, MemoryFields
<1> HIDE DEF f, a
<1>5. FrameForPage(a, p) = f
  BY <1>1, <1>2, <1>4, FrameOfPage
<1>6. ~IsMapped(a, p)
  BY <1>1 DEF CanMapPage, IsMapped
<1>7. MapPage(m, p) = [a EXCEPT !.table[p] = f]
  BY <1>5, <1>6 DEF MapPage, MapEntry, a
<1>8. Exact(MapPage(m, p))
  BY <1>1, <1>2, <1>5, <1>7, TableOperationsExact DEF MapPage, a
<1>9. /\ MapPage(m, p).frames = a.frames
      /\ MapPage(m, p).table = [a.table EXCEPT ![p] = f]
  BY <1>3, <1>7 DEF Memory
<1> QED
  BY <1>1, <1>2, <1>8, <1>9 DEF f

(***************************************************************************)
(* releaseFrame() of a frame whose page the table maps to it removes the   *)
(* relation from both components.                                          *)
(***************************************************************************)
LEMMA ReleaseFrameEffect ==
  ASSUME NEW m, Exact(m), NEW f, CanReleaseFrame(m, f)
  PROVE  /\ f \in Frames /\ m.frames[f] \in Pages
         /\ Exact(ReleaseFrame(m, f))
         /\ ReleaseFrame(m, f).frames = [m.frames EXCEPT ![f] = NoPage]
         /\ ReleaseFrame(m, f).table = [m.table EXCEPT ![m.frames[f]] = NoFrame]
         /\ OccupiedFrames(ReleaseFrame(m, f)) = OccupiedFrames(m) \ {f}
<1> DEFINE p == m.frames[f]
           u == UnmapEntry(m, p)
<1>1. f \in Frames /\ f \in FrameIds /\ p \in Pages /\ f \in OccupiedFrames(m)
  BY NumFramesAssumption DEF CanReleaseFrame, OccupiedFrames, Frames, FrameIds
<1>2. Exact(u)
  BY <1>1, TableOperationsExact
<1>3. m \in Memory
  BY DEF Exact
<1> HIDE DEF p
<1>4. u.frames = m.frames /\ u.table = [m.table EXCEPT ![p] = NoFrame]
  BY <1>3 DEF UnmapEntry, Memory
<1>5. OccupiedFrames(u) = OccupiedFrames(m)
  BY <1>4 DEF OccupiedFrames, IsOccupied
<1>6. ReleaseFrame(m, f) = ReleasePhysicalFrame(u, f)
  BY DEF ReleaseFrame, p
<1> HIDE DEF u
<1>7. /\ Exact(ReleasePhysicalFrame(u, f))
      /\ ReleasePhysicalFrame(u, f).table = u.table
      /\ ReleasePhysicalFrame(u, f).frames = [u.frames EXCEPT ![f] = NoPage]
      /\ OccupiedFrames(ReleasePhysicalFrame(u, f)) = OccupiedFrames(u) \ {f}
  BY <1>1, <1>2, <1>5, ReleasePhysicalFrameExact
<1> QED
  BY <1>1, <1>4, <1>5, <1>6, <1>7 DEF p

(***************************************************************************)
(* unmapPage() is releaseFrame() of the frame the table gives.             *)
(***************************************************************************)
LEMMA UnmapPageEffect ==
  ASSUME NEW m, Exact(m), NEW p \in Pages, CanUnmapPage(m, p)
  PROVE  /\ CanReleaseFrame(m, m.table[p])
         /\ UnmapPage(m, p) = ReleaseFrame(m, m.table[p])
<1>1. m.frames[m.table[p]] = p /\ IsPageMapped(m, p) /\ m.table[p] = FrameForPage(m, p)
  BY DEF CanUnmapPage, IsMappingConsistent
<1>2. m.table[p] \in Frames
  BY <1>1, LowestFrame DEF IsPageMapped, FramesHolding, FrameForPage
<1>3. m.table[p] \in OccupiedFrames(m)
  BY <1>1, <1>2, PagesAssumption DEF OccupiedFrames, IsOccupied
<1> QED
  BY <1>1, <1>2, <1>3 DEF CanReleaseFrame, UnmapPage, ReleaseFrame

(***************************************************************************)
(* Whatever the boundary does, the memory stays exact.                     *)
(***************************************************************************)
LEMMA BoundaryExact ==
  ASSUME NEW m, Exact(m), NEW p \in Pages, NEW f
  PROVE  Exact(MapPage(m, p)) /\ Exact(UnmapPage(m, p)) /\ Exact(ReleaseFrame(m, f))
<1>1. Exact(MapPage(m, p))
  <2>1. CASE CanMapPage(m, p)
    BY <2>1, MapPageEffect
  <2>2. CASE ~CanMapPage(m, p)
    BY <2>2 DEF MapPage
  <2> QED
    BY <2>1, <2>2
<1>2. \A g : Exact(ReleaseFrame(m, g))
  <2> TAKE g
  <2>1. CASE CanReleaseFrame(m, g)
    BY <2>1, ReleaseFrameEffect
  <2>2. CASE ~CanReleaseFrame(m, g)
    BY <2>2 DEF ReleaseFrame
  <2> QED
    BY <2>1, <2>2
<1>3. Exact(UnmapPage(m, p))
  <2>1. CASE CanUnmapPage(m, p)
    BY <1>2, <2>1, UnmapPageEffect
  <2>2. CASE ~CanUnmapPage(m, p)
    BY <2>2 DEF UnmapPage
  <2> QED
    BY <2>1, <2>2
<1> QED
  BY <1>1, <1>2, <1>3

-----------------------------------------------------------------------------
(* Mutually inverse memories *)

(***************************************************************************)
(* From mutually inverse components the boundary leads to mutually inverse *)
(* components.                                                             *)
(***************************************************************************)
LEMMA MapPageInverse ==
  ASSUME NEW m, Exact(m), MutuallyInverse(m), NEW p \in Pages, CanMapPage(m, p)
  PROVE  MutuallyInverse(MapPage(m, p))
<1> DEFINE f == Min(FreeFrames(m))
           n == MapPage(m, p)
<1>1. /\ f \in FreeFrames(m) /\ f \in Frames
      /\ n.frames = [m.frames EXCEPT ![f] = p]
      /\ n.table = [m.table EXCEPT ![p] = f]
  BY MapPageEffect
<1>2. m \in Memory /\ p # NoPage /\ m.frames[f] = NoPage
  BY <1>1, PagesAssumption DEF Exact, FreeFrames, OccupiedFrames, IsOccupied
<1>3. \A g \in Frames : m.frames[g] # p
  BY DEF CanMapPage, IsPageMapped, FramesHolding
<1>4. m.table[p] = NoFrame
  BY DEF CanMapPage, IsMapped
<1> HIDE DEF f, n
<1>5. ASSUME NEW q \in Pages, NEW g \in FrameIds
      PROVE  n.table[q] = g <=> g \in Frames /\ n.frames[g] = q
  <2>1. q # NoPage
    BY PagesAssumption
  <2>2. CASE q = p
    BY <1>1, <1>2, <1>3, <2>1, <2>2, MemoryFields
  <2>3. CASE q # p
    <3>1. m.table[q] = g <=> g \in Frames /\ m.frames[g] = q
      BY DEF MutuallyInverse
    <3> QED
      BY <1>1, <1>2, <2>1, <2>3, <3>1, MemoryFields
  <2> QED
    BY <2>2, <2>3
<1> QED
  BY <1>5 DEF MutuallyInverse, n

(* Releasing a frame removes the pair from both sides, so the maps stay
   inverse. *)
LEMMA ReleaseFrameInverse ==
  ASSUME NEW m, Exact(m), MutuallyInverse(m), NEW f, CanReleaseFrame(m, f)
  PROVE  MutuallyInverse(ReleaseFrame(m, f))
<1> DEFINE p == m.frames[f]
           n == ReleaseFrame(m, f)
<1>1. /\ f \in Frames /\ p \in Pages
      /\ n.frames = [m.frames EXCEPT ![f] = NoPage]
      /\ n.table = [m.table EXCEPT ![p] = NoFrame]
  BY ReleaseFrameEffect
<1>2. m \in Memory
  BY DEF Exact
<1>3. \A g \in Frames : m.frames[g] = p => g = f
  BY <1>1, PagesAssumption DEF Exact, IsOccupied
<1> HIDE DEF n
<1>4. ASSUME NEW q \in Pages, NEW g \in FrameIds
      PROVE  n.table[q] = g <=> g \in Frames /\ n.frames[g] = q
  <2>1. q # NoPage /\ g # NoFrame
    BY PagesAssumption, NoFrameAssumption
  <2>2. m.table[q] = g <=> g \in Frames /\ m.frames[g] = q
    BY DEF MutuallyInverse
  <2> QED
    BY <1>1, <1>2, <1>3, <2>1, <2>2, MemoryFields
<1> QED
  BY <1>4 DEF MutuallyInverse, n

(***************************************************************************)
(* isMappingConsistent() of a page holds, in mutually inverse components,  *)
(* just when the table maps the page, and then its frame can be released.  *)
(***************************************************************************)
LEMMA InverseConsistent ==
  ASSUME NEW m, Exact(m), MutuallyInverse(m), NEW p \in Pages
  PROVE  /\ IsMappingConsistent(m, p) <=> IsMapped(m, p)
         /\ IsPageMapped(m, p) <=> IsMapped(m, p)
         /\ IsMapped(m, p) =>
              /\ m.table[p] \in OccupiedFrames(m)
              /\ m.frames[m.table[p]] = p
              /\ CanReleaseFrame(m, m.table[p])
<1>1. m.table[p] \in FrameIds \cup {NoFrame}
  BY MemoryFields DEF Exact
<1>2. IsMapped(m, p) =>
        /\ m.table[p] \in Frames
        /\ m.frames[m.table[p]] = p
  BY <1>1 DEF IsMapped, MutuallyInverse
<1>3. IsMapped(m, p) => /\ IsPageMapped(m, p)
                        /\ FrameForPage(m, p) = m.table[p]
                        /\ m.table[p] \in OccupiedFrames(m)
  BY <1>2, FrameOfPage, PagesAssumption DEF OccupiedFrames, IsOccupied
<1>4. IsPageMapped(m, p) => IsMapped(m, p)
  <2> HAVE IsPageMapped(m, p)
  <2>1. PICK g \in Frames : m.frames[g] = p
    BY DEF IsPageMapped, FramesHolding
  <2>2. g \in FrameIds
    BY NumFramesAssumption DEF Frames, FrameIds
  <2>3. m.table[p] = g
    BY <2>1, <2>2 DEF MutuallyInverse
  <2> QED
    BY <2>2, <2>3, NoFrameAssumption DEF IsMapped
<1> QED
  BY <1>2, <1>3, <1>4 DEF IsMappingConsistent, CanReleaseFrame

(***************************************************************************)
(* The page-table entries of mutually inverse components are as many as    *)
(* the occupied frames, the table being a bijection between them.          *)
(***************************************************************************)
LEMMA InverseCounts ==
  ASSUME NEW m, Exact(m), MutuallyInverse(m)
  PROVE  TableSize(m) = m.allocated
<1> DEFINE Mapped == {p \in Pages : IsMapped(m, p)}
           held   == [f \in OccupiedFrames(m) |-> m.frames[f]]
<1>1. \A p \in Mapped : m.table[p] \in OccupiedFrames(m) /\ m.frames[m.table[p]] = p
  BY InverseConsistent
<1>2. \A f \in OccupiedFrames(m) : m.frames[f] \in Mapped
  <2> TAKE f \in OccupiedFrames(m)
  <2>1. f \in Frames /\ f \in FrameIds /\ m.frames[f] \in Pages
    BY HeldPage, NumFramesAssumption DEF Frames, FrameIds
  <2>2. m.table[m.frames[f]] = f
    BY <2>1 DEF MutuallyInverse
  <2> QED
    BY <2>1, <2>2, NoFrameAssumption DEF IsMapped
<1>3. \A f, g \in OccupiedFrames(m) : m.frames[f] = m.frames[g] => f = g
  BY DEF Exact, OccupiedFrames
<1> HIDE DEF Mapped
<1>4. held \in Bijection(OccupiedFrames(m), Mapped)
  BY <1>1, <1>2, <1>3 DEF Bijection, Injection, Surjection, IsInjective
<1>5. IsFiniteSet(OccupiedFrames(m))
  BY FramesAreFinite DEF OccupiedFrames
<1>6. Cardinality(Mapped) = Cardinality(OccupiedFrames(m))
  BY <1>4, <1>5, FS_Bijection DEF ExistsBijection
<1> QED
  BY <1>6 DEF TableSize, Exact, Mapped

-----------------------------------------------------------------------------
(* Both components keep what they know of a page. *)
Untouched(m, n, p) ==
  n.table[p] = m.table[p] /\ FramesHolding(n, p) = FramesHolding(m, p)

(* mapPage() takes its page from unknown in both components to consistent, *)
(* and releaseFrame() the other way; neither touches any other page.       *)
LEMMA MapPageClean ==
  ASSUME NEW m, Exact(m), NEW p \in Pages, CanMapPage(m, p), NEW q \in Pages
  PROVE  LET n == MapPage(m, p)
         IN  IF q = p THEN KnownNowhere(m, q) /\ IsMappingConsistent(n, q)
                      ELSE Untouched(m, n, q)
<1> DEFINE f == Min(FreeFrames(m))
           n == MapPage(m, p)
<1>1. /\ f \in FreeFrames(m) /\ f \in Frames
      /\ Exact(n)
      /\ n.frames = [m.frames EXCEPT ![f] = p]
      /\ n.table = [m.table EXCEPT ![p] = f]
  BY MapPageEffect
<1>2. f \in FrameIds
  BY <1>1, NumFramesAssumption DEF Frames, FrameIds
<1>3. m \in Memory /\ q # NoPage /\ m.frames[f] = NoPage
  BY <1>1, PagesAssumption DEF Exact, FreeFrames, OccupiedFrames, IsOccupied
<1> HIDE DEF f, n
<1>4. CASE q = p
  <2>1. n.frames[f] = p /\ n.table[p] = f
    BY <1>1, <1>3, MemoryFields
  <2>2. FrameForPage(n, p) = f /\ IsPageMapped(n, p)
    <3>1. Exact(n) /\ f \in Frames /\ n.frames[f] = p
      BY <1>1, <2>1
    <3> QED
      BY <3>1, FrameOfPage
  <2>3. IsMappingConsistent(n, p)
    BY <1>2, <2>1, <2>2, NoFrameAssumption DEF IsMappingConsistent, IsMapped
  <2> QED
    BY <1>4, <2>3 DEF CanMapPage, KnownNowhere, n
<1>5. CASE q # p
  <2>1. \A g \in Frames : n.frames[g] = q <=> m.frames[g] = q
    BY <1>1, <1>3, <1>5, MemoryFields
  <2>2. n.table[q] = m.table[q]
    BY <1>1, <1>3, <1>5, MemoryFields
  <2> QED
    BY <1>5, <2>1, <2>2 DEF Untouched, FramesHolding, n
<1> QED
  BY <1>4, <1>5

(* The page of the released frame was consistent and is then known nowhere. *)
LEMMA ReleaseFrameClean ==
  ASSUME NEW m, Exact(m), NEW f, CanReleaseFrame(m, f), NEW q \in Pages
  PROVE  LET n == ReleaseFrame(m, f)
         IN  IF q = m.frames[f] THEN IsMappingConsistent(m, q) /\ KnownNowhere(n, q)
                                ELSE Untouched(m, n, q)
<1> DEFINE p == m.frames[f]
           n == ReleaseFrame(m, f)
<1>1. /\ f \in Frames /\ p \in Pages
      /\ n.frames = [m.frames EXCEPT ![f] = NoPage]
      /\ n.table = [m.table EXCEPT ![p] = NoFrame]
  BY ReleaseFrameEffect
<1>2. m \in Memory /\ q # NoPage /\ f # NoFrame
  BY <1>1, PagesAssumption, NoFrameAssumption, NumFramesAssumption
     DEF Exact, Frames, FrameIds
<1>3. m.table[p] = f
  BY DEF CanReleaseFrame
<1> HIDE DEF n
<1>4. CASE q = p
  <2>1. FramesHolding(m, p) = {f} /\ IsPageMapped(m, p) /\ FrameForPage(m, p) = f
    BY <1>1, FrameOfPage
  <2>2. IsMappingConsistent(m, p)
    BY <1>2, <1>3, <2>1 DEF IsMappingConsistent, IsMapped
  <2>3. \A g \in Frames : n.frames[g] # p
    BY <1>1, <1>2, <1>4, <2>1, MemoryFields DEF FramesHolding
  <2>4. n.table[p] = NoFrame
    BY <1>1, <1>2, MemoryFields
  <2> QED
    BY <1>4, <2>2, <2>3, <2>4 DEF KnownNowhere, IsMapped, IsPageMapped, FramesHolding, n
<1>5. CASE q # p
  <2>1. \A g \in Frames : n.frames[g] = q <=> m.frames[g] = q
    BY <1>1, <1>2, <1>5, MemoryFields
  <2>2. n.table[q] = m.table[q]
    BY <1>1, <1>2, <1>5, MemoryFields
  <2> QED
    BY <1>5, <2>1, <2>2 DEF Untouched, FramesHolding, n
<1> QED
  BY <1>4, <1>5

(***************************************************************************)
(* A consistent page is in the frame its entry names, which is occupied    *)
(* and can be released, whatever else direct clients have left.            *)
(***************************************************************************)
LEMMA ConsistentFrame ==
  ASSUME NEW m, Exact(m), NEW p \in Pages, IsMappingConsistent(m, p)
  PROVE  /\ m.table[p] \in Frames
         /\ m.frames[m.table[p]] = p
         /\ CanReleaseFrame(m, m.table[p])
<1>1. FramesHolding(m, p) \in SUBSET Frames /\ FramesHolding(m, p) # {}
  BY DEF IsMappingConsistent, IsPageMapped, FramesHolding
<1>2. m.table[p] \in Frames /\ m.frames[m.table[p]] = p
  BY <1>1, LowestFrame DEF IsMappingConsistent, FrameForPage, IsPageMapped
<1> QED
  BY <1>2, PagesAssumption DEF CanReleaseFrame, OccupiedFrames, IsOccupied

(***************************************************************************)
(* A replacement: the frame released is then the only free one, so that    *)
(* mapPage() gives it to the requested page.                               *)
(***************************************************************************)
LEMMA ReplacementMemory ==
  ASSUME NEW m, Exact(m), ~HasFreeFrame(m),
         NEW f, CanReleaseFrame(m, f),
         NEW p \in Pages, ~IsMapped(m, p), ~IsPageMapped(m, p)
  PROVE  LET r == ReleaseFrame(m, f)
             n == MapPage(r, p)
         IN  /\ f \in Frames /\ m.frames[f] \in Pages /\ m.frames[f] # p
             /\ Exact(r) /\ CanMapPage(r, p)
             /\ Exact(n)
             /\ MutuallyInverse(m) => MutuallyInverse(n)
             /\ \A q \in Pages :
                  n.table[q] = IF q = p THEN f
                               ELSE IF q = m.frames[f] THEN NoFrame
                               ELSE m.table[q]
<1> DEFINE r == ReleaseFrame(m, f)
           v == m.frames[f]
<1>1. /\ f \in Frames /\ v \in Pages
      /\ Exact(r)
      /\ r.table = [m.table EXCEPT ![v] = NoFrame]
      /\ r.frames = [m.frames EXCEPT ![f] = NoPage]
      /\ OccupiedFrames(r) = OccupiedFrames(m) \ {f}
  BY ReleaseFrameEffect
<1>2. OccupiedFrames(m) = Frames
  BY FullIffAllOccupied
<1>3. FreeFrames(r) = {f}
  BY <1>1, <1>2 DEF FreeFrames
<1>4. m \in Memory /\ r \in Memory /\ p # NoPage /\ v # p
  BY <1>1, PagesAssumption DEF Exact, IsPageMapped, FramesHolding
<1>5. r.table[p] = NoFrame /\ \A g \in Frames : r.frames[g] # p
  BY <1>1, <1>4, MemoryFields DEF IsMapped, IsPageMapped, FramesHolding
<1>6. MutuallyInverse(m) => MutuallyInverse(r)
  BY ReleaseFrameInverse
<1> HIDE DEF r
<1>7. CanMapPage(r, p)
  BY <1>3, <1>5 DEF CanMapPage, IsMapped, IsPageMapped, FramesHolding
<1>8. Min(FreeFrames(r)) = f
  BY <1>1, <1>3, LowestFrame
<1>9. /\ Exact(MapPage(r, p))
      /\ MapPage(r, p).table = [r.table EXCEPT ![p] = f]
  BY <1>1, <1>7, <1>8, MapPageEffect
<1>10. MutuallyInverse(m) => MutuallyInverse(MapPage(r, p))
  BY <1>1, <1>6, <1>7, MapPageInverse
<1>11. \A q \in Pages : MapPage(r, p).table[q] = IF q = p THEN f
                                                 ELSE IF q = v THEN NoFrame
                                                 ELSE m.table[q]
  BY <1>1, <1>4, <1>9, MemoryFields
<1> QED
  BY <1>1, <1>4, <1>7, <1>9, <1>10, <1>11 DEF r

(* It takes the victim's page from consistent to unknown, the requested    *)
(* one the other way, and touches no third page.                           *)
LEMMA ReplacementClean ==
  ASSUME NEW m, Exact(m), ~HasFreeFrame(m),
         NEW f, CanReleaseFrame(m, f),
         NEW p \in Pages, ~IsMapped(m, p), ~IsPageMapped(m, p), NEW q \in Pages
  PROVE  LET n == MapPage(ReleaseFrame(m, f), p)
         IN  IF q = p THEN IsMappingConsistent(n, q)
             ELSE IF q = m.frames[f] THEN IsMappingConsistent(m, q) /\ KnownNowhere(n, q)
             ELSE Untouched(m, n, q)
<1> DEFINE r == ReleaseFrame(m, f)
           n == MapPage(r, p)
           v == m.frames[f]
<1>1. Exact(r) /\ CanMapPage(r, p) /\ v # p
  BY ReplacementMemory
<1>2. IF q = v THEN IsMappingConsistent(m, q) /\ KnownNowhere(r, q)
               ELSE Untouched(m, r, q)
  BY ReleaseFrameClean
<1> HIDE DEF r, v
<1>3. IF q = p THEN KnownNowhere(r, q) /\ IsMappingConsistent(n, q)
               ELSE Untouched(r, n, q)
  BY <1>1, MapPageClean
<1> HIDE DEF n
<1>4. IF q = p THEN IsMappingConsistent(n, q)
      ELSE IF q = v THEN IsMappingConsistent(m, q) /\ KnownNowhere(n, q)
      ELSE Untouched(m, n, q)
  BY <1>1, <1>2, <1>3 DEF Untouched, KnownNowhere, IsMapped, IsPageMapped
<1> QED
  BY <1>4 DEF n, r, v
=============================================================================
