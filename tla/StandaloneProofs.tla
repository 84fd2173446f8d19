-------------------------- MODULE StandaloneProofs --------------------------
(***************************************************************************)
(* The parts that have a specification of their own, each proved without   *)
(* the rest of the system.                                                 *)
(*                                                                         *)
(* The mapping boundary, for every number of frames and set of pages.  The *)
(* inductive invariant is Exact(mem): no relation between the page table   *)
(* and the frames survives direct clients, so none is needed.              *)
(*                                                                         *)
(* The workloads of a simulation.  The locality generator, for every size  *)
(* of address space, working set and memory of recent pages, generates     *)
(* what Workloads says it does and never leaves its working set.  The      *)
(* composition of workloads, for every number of processes and segments,   *)
(* implements AccessStream: its indices at three levels behave as one      *)
(* position in one sequence of accesses.                                   *)
(***************************************************************************)
EXTENDS MappingBoundary, PageMappingLemmas, LocalityGeneration, WorkloadCursor,
        SequenceTheorems

-----------------------------------------------------------------------------
(* The mapping boundary *)

IInv == Exact(mem)

(* A fresh manager has every frame free and the scan at frame 0, so IInv
   holds. *)
LEMMA InitExact == Init => IInv
<1> SUFFICES ASSUME Init PROVE Exact(EmptyMemory)
  BY DEF Init, IInv
<1>1. EmptyMemory \in Memory
  BY DEF EmptyMemory, Memory
<1>2. OccupiedFrames(EmptyMemory) = {}
  BY DEF EmptyMemory, OccupiedFrames, IsOccupied
<1> QED
  BY <1>1, <1>2, FS_EmptySet DEF Exact, EmptyMemory, OccupiedFrames, IsOccupied

(* Each of the boundary's operations keeps both maps well formed and the
   free-frame bookkeeping exact. *)
LEMMA NextExact == IInv /\ [Next]_mem => IInv'
<1> SUFFICES ASSUME Exact(mem), Next PROVE Exact(mem')
  BY DEF IInv
<1>1. CASE BoundaryStep
  <2>1. ASSUME NEW p \in Pages, MapPageStep(p) \/ UnmapPageStep(p)
        PROVE  Exact(mem')
    BY <2>1, BoundaryExact DEF MapPageStep, UnmapPageStep
  <2>2. ASSUME NEW f \in FrameIds, ReleaseFrameStep(f)
        PROVE  Exact(mem')
    <3>1. CASE CanReleaseFrame(mem, f)
      BY <2>2, <3>1, ReleaseFrameEffect DEF ReleaseFrameStep
    <3>2. CASE ~CanReleaseFrame(mem, f)
      BY <2>2, <3>2 DEF ReleaseFrameStep, ReleaseFrame
    <3> QED
      BY <3>1, <3>2
  <2> QED
    BY <1>1, <2>1, <2>2 DEF BoundaryStep
<1>2. CASE DirectStep
  <2>1. ASSUME NEW p \in Pages, AllocateStep(p)
        PROVE  Exact(mem')
    BY <2>1, AllocateFrameExact DEF AllocateStep
  <2>2. ASSUME NEW p \in Pages, UnmapEntryStep(p)
        PROVE  Exact(mem')
    <3>1. NumFrames \in FrameIds
      BY NumFramesAssumption DEF FrameIds
    <3> QED
      BY <2>2, <3>1, TableOperationsExact DEF UnmapEntryStep
  <2>3. ASSUME NEW f \in FrameIds, ReleasePhysicalStep(f)
        PROVE  Exact(mem')
    BY <2>3, ReleasePhysicalFrameExact DEF ReleasePhysicalStep
  <2>4. ASSUME NEW p \in Pages, NEW f \in FrameIds,
               MapEntryStep(p, f) \/ UpdateMappingStep(p, f)
        PROVE  Exact(mem')
    BY <2>4, TableOperationsExact DEF MapEntryStep, UpdateMappingStep
  <2>5. CASE ClearPhysicalStep
    BY <2>5, ClearPhysicalMemoryExact DEF ClearPhysicalStep
  <2>6. CASE ClearTableStep
    <3> DEFINE empty == [p \in Pages |-> NoFrame]
    <3>1. empty \in [Pages -> FrameIds \cup {NoFrame}]
      OBVIOUS
    <3> HIDE DEF empty
    <3>2. Exact([mem EXCEPT !.table = empty])
      BY <3>1, TableOnly
    <3> QED
      BY <2>6, <3>2 DEF ClearTableStep, ClearPageTable, empty
  <2> QED
    BY <1>2, <2>1, <2>2, <2>3, <2>4, <2>5, <2>6 DEF DirectStep
<1> QED
  BY <1>1, <1>2 DEF Next

(***************************************************************************)
(* The allocation counter of PhysicalMemoryManager is exact and no page    *)
(* holds two frames, whoever calls in whatever order; type correctness     *)
(* with it.                                                                *)
(***************************************************************************)
THEOREM OccupancyTheorem == Spec => [](TypeOK /\ OccupancyExact)
<1>1. IInv => TypeOK /\ OccupancyExact
  BY DEF IInv, Exact, TypeOK, OccupancyExact
<1> QED
  BY InitExact, NextExact, <1>1, PTL DEF Spec

(***************************************************************************)
(* Equal counts rule out table entries without a frame: the injection of   *)
(* the occupied frames into the mapped pages is then onto.                 *)
(***************************************************************************)
LEMMA ConsistentInverse ==
  ASSUME NEW m, Exact(m), IsConsistent(m)
  PROVE  MutuallyInverse(m)
<1> DEFINE Mapped == {p \in Pages : IsMapped(m, p)}
           held   == [f \in OccupiedFrames(m) |-> m.frames[f]]
<1>1. \A f \in OccupiedFrames(m) :
        /\ f \in Frames /\ m.frames[f] \in Pages
        /\ m.table[m.frames[f]] = f
        /\ m.frames[f] \in Mapped
  <2> TAKE f \in OccupiedFrames(m)
  <2>1. f \in Frames /\ m.frames[f] \in Pages
    BY HeldPage
  <2>2. FrameForPage(m, m.frames[f]) = f
    BY <2>1, FrameOfPage
  <2>3. IsMappingConsistent(m, m.frames[f])
    BY DEF IsConsistent
  <2> QED
    BY <2>1, <2>2, <2>3 DEF IsMappingConsistent
<1>2. \A f, g \in OccupiedFrames(m) : m.frames[f] = m.frames[g] => f = g
  BY <1>1
<1>3. IsFiniteSet(OccupiedFrames(m)) /\ IsFiniteSet(Mapped)
  BY FramesAreFinite, FS_Subset, PagesAssumption DEF OccupiedFrames
<1>4. Cardinality(Mapped) = Cardinality(OccupiedFrames(m))
  BY DEF IsConsistent, TableSize, Exact
<1> HIDE DEF Mapped
<1>5. held \in Injection(OccupiedFrames(m), Mapped)
  BY <1>1, <1>2 DEF Injection, IsInjective
<1>6. held \in Surjection(OccupiedFrames(m), Mapped)
  BY <1>3, <1>4, <1>5, FS_Injection
<1>7. \A p \in Mapped : \E f \in OccupiedFrames(m) : m.frames[f] = p
  BY <1>6 DEF Surjection
<1>8. ASSUME NEW p \in Pages, NEW g \in FrameIds
      PROVE  m.table[p] = g <=> g \in Frames /\ m.frames[g] = p
  <2>1. ASSUME m.table[p] = g PROVE g \in Frames /\ m.frames[g] = p
    <3>1. p \in Mapped
      BY <2>1, NoFrameAssumption DEF Mapped, IsMapped
    <3>2. PICK f \in OccupiedFrames(m) : m.frames[f] = p
      BY <1>7, <3>1
    <3> QED
      BY <1>1, <2>1, <3>2
  <2>2. ASSUME g \in Frames, m.frames[g] = p PROVE m.table[p] = g
    <3>1. g \in OccupiedFrames(m)
      BY <2>2, PagesAssumption DEF OccupiedFrames, IsOccupied
    <3> QED
      BY <1>1, <2>2, <3>1
  <2> QED
    BY <2>1, <2>2
<1> QED
  BY <1>8 DEF MutuallyInverse

(* What isConsistent() computes by walking the pages and then the frames is
   that the two maps are each other's inverse. *)
LEMMA ConsistentIffInverse ==
  ASSUME NEW m, Exact(m)
  PROVE  IsConsistent(m) <=> MutuallyInverse(m)
<1>1. ASSUME MutuallyInverse(m) PROVE IsConsistent(m)
  <2>1. ASSUME NEW f \in OccupiedFrames(m)
        PROVE  IsMappingConsistent(m, m.frames[f])
    <3>1. f \in Frames /\ f \in FrameIds /\ m.frames[f] \in Pages
      BY HeldPage, NumFramesAssumption DEF Frames, FrameIds
    <3>2. m.table[m.frames[f]] = f
      BY <1>1, <3>1 DEF MutuallyInverse
    <3>3. IsMapped(m, m.frames[f])
      BY <3>1, <3>2, NoFrameAssumption DEF IsMapped
    <3> QED
      BY <1>1, <3>1, <3>3, InverseConsistent
  <2> QED
    BY <1>1, <2>1, InverseCounts DEF IsConsistent
<1> QED
  BY <1>1, ConsistentInverse

(***************************************************************************)
(* isConsistent() decides whether the two components are mutually inverse. *)
(***************************************************************************)
THEOREM ConsistencyCheckTheorem == Spec => []ConsistencyCheckExact
<1>1. IInv => ConsistencyCheckExact
  BY ConsistentIffInverse DEF IInv, ConsistencyCheckExact
<1> QED
  BY InitExact, NextExact, <1>1, PTL DEF Spec

(***************************************************************************)
(* Clients that use only the boundary never make a consistent state        *)
(* inconsistent.                                                           *)
(***************************************************************************)
THEOREM BoundaryTheorem == Spec => BoundaryPreservesConsistency
<1>1. IInv /\ IInv' /\ BoundaryStep /\ IsConsistent(mem) => IsConsistent(mem')
  <2> SUFFICES ASSUME Exact(mem), Exact(mem'), BoundaryStep, IsConsistent(mem)
               PROVE  IsConsistent(mem')
    BY DEF IInv
  <2>1. MutuallyInverse(mem)
    BY ConsistentIffInverse
  <2>2. ASSUME NEW f, mem' = ReleaseFrame(mem, f) PROVE MutuallyInverse(mem')
    BY <2>1, <2>2, ReleaseFrameInverse DEF ReleaseFrame
  <2>3. ASSUME NEW p \in Pages, mem' = MapPage(mem, p) PROVE MutuallyInverse(mem')
    BY <2>1, <2>3, MapPageInverse DEF MapPage
  <2>4. ASSUME NEW p \in Pages, mem' = UnmapPage(mem, p) PROVE MutuallyInverse(mem')
    <3>1. CASE CanUnmapPage(mem, p)
      BY <2>2, <2>4, <3>1, UnmapPageEffect
    <3>2. CASE ~CanUnmapPage(mem, p)
      BY <2>1, <2>4, <3>2 DEF UnmapPage
    <3> QED
      BY <3>1, <3>2
  <2>5. MutuallyInverse(mem')
    BY <2>2, <2>3, <2>4
       DEF BoundaryStep, MapPageStep, UnmapPageStep, ReleaseFrameStep
  <2> QED
    BY <2>5, ConsistentIffInverse
<1>2. IInv /\ IInv' /\ [Next]_mem =>
        [BoundaryStep /\ IsConsistent(mem) => IsConsistent(mem')]_mem
  BY <1>1
<1> QED
  BY InitExact, NextExact, <1>2, PTL DEF Spec, BoundaryPreservesConsistency

-----------------------------------------------------------------------------
(***************************************************************************)
(* Whatever state direct clients left, the boundary never leaves a page    *)
(* half mapped or half removed, and leaves every other page alone.         *)
(***************************************************************************)
THEOREM CleanTheorem == Spec => BoundaryStepsAreClean
<1> DEFINE Clean(q) == \/ Untouched(mem, mem', q)
                       \/ KnownNowhere(mem, q) /\ IsMappingConsistent(mem', q)
                       \/ IsMappingConsistent(mem, q) /\ KnownNowhere(mem', q)
<1>1. IInv /\ BoundaryStep => \A q \in Pages : Clean(q)
  <2> SUFFICES ASSUME Exact(mem), BoundaryStep, NEW q \in Pages PROVE Clean(q)
    BY DEF IInv
  <2>1. ASSUME mem' = mem PROVE Clean(q)
    BY <2>1 DEF Untouched
  <2>2. ASSUME NEW f, mem' = ReleaseFrame(mem, f) PROVE Clean(q)
    <3>1. CASE CanReleaseFrame(mem, f)
      BY <2>2, <3>1, ReleaseFrameClean
    <3>2. CASE ~CanReleaseFrame(mem, f)
      BY <2>1, <2>2, <3>2 DEF ReleaseFrame
    <3> QED
      BY <3>1, <3>2
  <2>3. ASSUME NEW p \in Pages, mem' = MapPage(mem, p) PROVE Clean(q)
    <3>1. CASE CanMapPage(mem, p)
      BY <2>3, <3>1, MapPageClean
    <3>2. CASE ~CanMapPage(mem, p)
      BY <2>1, <2>3, <3>2 DEF MapPage
    <3> QED
      BY <3>1, <3>2
  <2>4. ASSUME NEW p \in Pages, mem' = UnmapPage(mem, p) PROVE Clean(q)
    <3>1. CASE CanUnmapPage(mem, p)
      BY <2>2, <2>4, <3>1, UnmapPageEffect
    <3>2. CASE ~CanUnmapPage(mem, p)
      BY <2>1, <2>4, <3>2 DEF UnmapPage
    <3> QED
      BY <3>1, <3>2
  <2> QED
    BY <2>2, <2>3, <2>4 DEF BoundaryStep, MapPageStep, UnmapPageStep, ReleaseFrameStep
<1>2. IInv /\ [Next]_mem =>
        [BoundaryStep =>
           \A p \in Pages :
             \/ mem'.table[p] = mem.table[p] /\ FramesHolding(mem', p) = FramesHolding(mem, p)
             \/ KnownNowhere(mem, p) /\ IsMappingConsistent(mem', p)
             \/ IsMappingConsistent(mem, p) /\ KnownNowhere(mem', p)]_mem
  BY <1>1 DEF Untouched
<1> QED
  BY InitExact, NextExact, <1>2, PTL DEF Spec, BoundaryStepsAreClean

-----------------------------------------------------------------------------
(* The locality generator *)

(* The smaller of two numbers. *)
LEMMA MinOfTwo ==
  ASSUME NEW a \in Int, NEW b \in Int
  PROVE  Min({a, b}) = IF a <= b THEN a ELSE b
<1>1. \A x \in {a, b} : (\A y \in {a, b} : x <= y) <=> x = IF a <= b THEN a ELSE b
  OBVIOUS
<1> QED
  BY <1>1 DEF Min

(* What the generator may generate next is in the working set, if what it  *)
(* remembers is.                                                           *)
LEMMA NextPagesInWorkingSet ==
  ASSUME NEW loc, ValidLocality(loc), NEW memory \in Seq(Uniform(loc))
  PROVE  NextPages(loc, memory) \subseteq Uniform(loc)
<1> DEFINE w == loc.workingSet
           last == IF memory = <<>> THEN 0 ELSE Last(memory)
           low == IF last > SpatialRadius THEN last - SpatialRadius ELSE 0
           high == Min({w - 1, last + SpatialRadius})
<1>1. w \in Nat \ {0} /\ SpatialRadius \in Nat /\ Uniform(loc) = 0 .. w - 1
  BY CountsAssumption DEF ValidLocality, Uniform
<1>2. last \in 0 .. w - 1
  <2>1. CASE memory = <<>>
    BY <1>1, <2>1
  <2>2. CASE memory # <<>>
    <3>1. Len(memory) \in 1 .. Len(memory)
      BY <2>2
    <3>2. memory[Len(memory)] \in Uniform(loc)
      BY <3>1, ElementOfSeq
    <3> QED
      BY <1>1, <2>2, <3>2 DEF Last
  <2> QED
    BY <2>1, <2>2
<1>n. Nearby(loc, last) = IF w <= 1 THEN {last} ELSE low .. high
  BY DEF Nearby
<1>3. ToSet(memory) \subseteq Uniform(loc)
  BY ElementOfSeq, LenProperties DEF ToSet
<1>4. Nearby(loc, last) \subseteq Uniform(loc)
  <2> HIDE DEF w, last
  <2>1. high = IF w - 1 <= last + SpatialRadius THEN w - 1 ELSE last + SpatialRadius
    BY <1>1, <1>2, MinOfTwo
  <2> HIDE DEF high
  <2>2. low >= 0 /\ low \in Int /\ high \in Int /\ high <= w - 1
    BY <1>1, <1>2, <2>1
  <2> HIDE DEF low
  <2>3. low .. high \subseteq 0 .. w - 1
    BY <1>1, <2>2
  <2> QED
    BY <1>1, <1>2, <1>n, <2>3
<1> QED
  BY <1>3, <1>4 DEF NextPages

(* The oldest page remembered before the i-th. *)
Oldest(i) == IF i > MaximumRecentPages THEN i - MaximumRecentPages ELSE 1

(* What is remembered before the i-th page, page by page: *)
AreRecent(s, i, A) ==
  /\ Oldest(i) \in 1 .. i
  /\ RecentBefore(s, i) \in Seq(A)
  /\ RecentBefore(s, i) = [k \in 1 .. i - Oldest(i) |-> s[k + Oldest(i) - 1]]
  /\ Len(RecentBefore(s, i)) = i - Oldest(i)

(* the pages from the oldest on. *)
LEMMA RecentPages ==
  ASSUME NEW A, NEW n \in Nat, NEW s \in [1 .. n -> A], NEW i \in 1 .. n + 1
  PROVE  AreRecent(s, i, A)
<1> DEFINE m == MaximumRecentPages
           low == Oldest(i)
           c == i - low
           r == [k \in 1 .. c |-> s[k + low - 1]]
<1>1. m \in Nat \ {0} /\ i \in Nat \ {0}
  BY CountsAssumption
<1>2. low = IF i > m THEN i - m ELSE 1
  BY DEF Oldest
<1>4. RecentBefore(s, i) = SubSeq(s, low, i - 1)
  BY DEF RecentBefore, Oldest
<1> HIDE DEF m, low
<1>3. low \in 1 .. i
  BY <1>1, <1>2
<1>5. (1 + (i - 1)) - low = c /\ c \in Nat
  BY <1>3
<1>6. SubSeq(s, low, i - 1) = r
  BY <1>1, <1>3, <1>5
<1>7. \A k \in 1 .. c : s[k + low - 1] \in A
  <2> SUFFICES ASSUME NEW k \in 1 .. c PROVE s[k + low - 1] \in A
    OBVIOUS
  <2>1. k + low - 1 \in 1 .. n
    BY <1>3
  <2> QED
    BY <2>1
<1>8. r \in Seq(A) /\ Len(r) = c
  <2> HIDE DEF c
  <2> QED
    BY <1>5, <1>7
<1> QED
  BY <1>3, <1>4, <1>6, <1>8 DEF AreRecent, low

(* One page more than s. *)
IsLonger(t, s, n, A) ==
  s \in [1 .. n -> A] /\ t \in [1 .. n + 1 -> A] /\ \A k \in 1 .. n : t[k] = s[k]

(* What is remembered depends on the pages before only. *)
LEMMA RecentStays ==
  ASSUME NEW A, NEW n \in Nat, NEW s, NEW t, IsLonger(t, s, n, A), NEW i \in 1 .. n + 1
  PROVE  RecentBefore(t, i) = RecentBefore(s, i)
<1>0. s \in [1 .. n -> A] /\ t \in [1 .. n + 1 -> A] /\ \A k \in 1 .. n : t[k] = s[k]
  BY DEF IsLonger
<1> DEFINE low == Oldest(i)
<1>1. i \in 1 .. (n + 1) + 1 /\ n + 1 \in Nat
  OBVIOUS
<1>a. AreRecent(s, i, A)
  BY <1>0, RecentPages
<1>b. AreRecent(t, i, A)
  BY <1>0, <1>1, RecentPages
<1>2. low \in 1 .. i /\ RecentBefore(s, i) = [k \in 1 .. i - low |-> s[k + low - 1]]
  BY <1>a DEF AreRecent
<1>3. RecentBefore(t, i) = [k \in 1 .. i - low |-> t[k + low - 1]]
  BY <1>b DEF AreRecent
<1> HIDE DEF low
<1>4. \A k \in 1 .. i - low : k + low - 1 \in 1 .. n
  BY <1>2
<1>5. \A k \in 1 .. i - low : t[k + low - 1] = s[k + low - 1]
  BY <1>0, <1>4
<1> QED
  BY <1>2, <1>3, <1>5

(* A page appended, page by page. *)
LEMMA AppendedPage ==
  ASSUME NEW A, NEW b \in Seq(A), NEW page \in A
  PROVE  Append(b, page) = [k \in 1 .. Len(b) + 1 |-> IF k = Len(b) + 1 THEN page ELSE b[k]]
<1> DEFINE a == Append(b, page)
           n == Len(b)
<1>1. n \in Nat /\ a \in Seq(A) /\ Len(a) = n + 1 /\ a[n + 1] = page
      /\ \A k \in 1 .. n : a[k] = b[k]
  BY AppendProperties
<1>2. a = [k \in 1 .. n + 1 |-> a[k]]
  <2>1. a \in Seq(A) => a = [k \in 1 .. Len(a) |-> a[k]]
    <3> HIDE DEF a
    <3> QED
      OBVIOUS
  <2> QED
    BY <1>1, <2>1
<1> HIDE DEF a, n
<1>3. \A k \in 1 .. n + 1 : a[k] = IF k = n + 1 THEN page ELSE b[k]
  BY <1>1
<1>4. a = [k \in 1 .. n + 1 |-> IF k = n + 1 THEN page ELSE b[k]]
  BY <1>2, <1>3
<1> QED
  BY <1>4 DEF a, n

(* Remembering one more page keeps what is remembered the last pages. *)
LEMMA RememberedRecent ==
  ASSUME NEW A, NEW n \in Nat, NEW s \in [1 .. n -> A], NEW t \in [1 .. n + 1 -> A],
         \A k \in 1 .. n : t[k] = s[k]
  PROVE  Remember(RecentBefore(s, n + 1), t[n + 1]) = RecentBefore(t, n + 2)
<1> DEFINE m == MaximumRecentPages
           low == Oldest(n + 1)
           next == Oldest(n + 2)
           r == RecentBefore(s, n + 1)
           page == t[n + 1]
<1>1. m \in Nat \ {0} /\ n + 1 \in Nat /\ n + 1 \in 1 .. n + 1 /\ n + 2 \in 1 .. (n + 1) + 1
  BY CountsAssumption
<1>2. /\ low \in 1 .. n + 1 /\ r \in Seq(A) /\ Len(r) = (n + 1) - low
      /\ r = [k \in 1 .. (n + 1) - low |-> s[k + low - 1]]
  <2>1. AreRecent(s, n + 1, A)
    BY <1>1, RecentPages
  <2> QED
    BY <2>1 DEF AreRecent
<1>3. /\ next \in 1 .. n + 2
      /\ RecentBefore(t, n + 2) = [k \in 1 .. (n + 2) - next |-> t[k + next - 1]]
  <2>1. AreRecent(t, n + 2, A)
    BY <1>1, RecentPages
  <2> QED
    BY <2>1 DEF AreRecent
<1>4. page \in A
  BY <1>1
<1>5. \A k \in 1 .. n : s[k] = t[k]
  OBVIOUS
<1>6. /\ n + 1 > m => low = n + 1 - m /\ next = low + 1
      /\ ~(n + 1 > m) => low = 1 /\ next = 1
  BY <1>1 DEF Oldest
<1>7. Remember(r, page) = Append(IF Len(r) = m THEN Tail(r) ELSE r, page)
  BY DEF Remember
<1>r. RecentBefore(s, n + 1) = r /\ t[n + 1] = page
  OBVIOUS
<1> HIDE DEF m, low, next, r
<1>8. CASE n + 1 > m
  <2>1. Len(r) = m /\ next = low + 1 /\ r # <<>>
    BY <1>1, <1>2, <1>6, <1>8
  <2> DEFINE b == Tail(r)
  <2>2. /\ b \in Seq(A) /\ Len(b) = m - 1
        /\ \A k \in 1 .. m - 1 : b[k] = r[k + 1]
    <3>1. b = [k \in 1 .. Len(r) - 1 |-> r[k + 1]] /\ Len(r) - 1 \in Nat
      BY <1>1, <1>2, <2>1
    <3>2. b \in Seq(A) /\ Len(b) = m - 1
      BY <1>1, <1>2, <2>1, HeadTailProperties
    <3> QED
      BY <2>1, <3>1, <3>2
  <2> HIDE DEF b, page
  <2>3. Append(b, page) = [k \in 1 .. m |-> IF k = m THEN page ELSE b[k]]
    <3>1. Append(b, page)
            = [k \in 1 .. Len(b) + 1 |-> IF k = Len(b) + 1 THEN page ELSE b[k]]
      BY <1>4, <2>2, AppendedPage
    <3>2. Len(b) + 1 = m
      BY <1>1, <2>2
    <3> QED
      BY <3>1, <3>2
  <2>4. (n + 2) - next = m
    BY <1>1, <1>6, <1>8
  <2>5. ASSUME NEW k \in 1 .. m
        PROVE  (IF k = m THEN page ELSE b[k]) = t[k + next - 1]
    <3>1. CASE k = m
      <4>1. k + next - 1 = n + 1
        BY <1>1, <1>3, <2>4, <3>1
      <4> QED
        BY <3>1, <4>1 DEF page
    <3>2. CASE k # m
      <4>1. /\ k \in 1 .. m - 1 /\ k + 1 \in 1 .. (n + 1) - low
            /\ (k + 1) + low - 1 = k + next - 1 /\ k + next - 1 \in 1 .. n
        BY <1>1, <1>2, <1>6, <1>8, <2>1, <3>2
      <4>2. b[k] = r[k + 1] /\ r[k + 1] = s[(k + 1) + low - 1]
        BY <1>2, <2>2, <4>1
      <4> QED
        BY <1>5, <3>2, <4>1, <4>2
    <3> QED
      BY <3>1, <3>2
  <2>6. Append(b, page) = RecentBefore(t, n + 2)
    <3> DEFINE u == [k \in 1 .. m |-> IF k = m THEN page ELSE b[k]]
               v == [k \in 1 .. m |-> t[k + next - 1]]
    <3>1. u = v
      BY <2>5, Zenon
    <3>2. RecentBefore(t, n + 2) = v
      BY <1>3, <2>4
    <3>3. Append(b, page) = u
      BY <2>3
    <3> HIDE DEF u, v
    <3> QED
      BY <3>1, <3>2, <3>3
  <2> QED
    BY <1>7, <1>r, <2>1, <2>6 DEF b
<1>9. CASE ~(n + 1 > m)
  <2>1. Len(r) = n /\ n # m /\ next = 1 /\ low = 1
    BY <1>1, <1>2, <1>6, <1>9
  <2> HIDE DEF page
  <2>2. Append(r, page) = [k \in 1 .. n + 1 |-> IF k = n + 1 THEN page ELSE r[k]]
    BY <1>2, <1>4, <2>1
  <2>3. (n + 2) - next = n + 1
    BY <2>1
  <2>4. ASSUME NEW k \in 1 .. n + 1
        PROVE  (IF k = n + 1 THEN page ELSE r[k]) = t[k + next - 1]
    <3>1. k + next - 1 = k
      BY <2>1
    <3>2. CASE k = n + 1
      BY <3>1, <3>2 DEF page
    <3>3. CASE k # n + 1
      <4>1. k \in 1 .. n /\ k \in 1 .. (n + 1) - low /\ k + low - 1 = k
        BY <2>1, <3>3
      <4>2. r[k] = s[k]
        BY <1>2, <4>1
      <4> QED
        BY <1>5, <3>1, <3>3, <4>1, <4>2
    <3> QED
      BY <3>2, <3>3
  <2>5. Append(r, page) = RecentBefore(t, n + 2)
    BY <1>3, <2>2, <2>3, <2>4
  <2> QED
    BY <1>7, <1>r, <2>1, <2>5
<1> QED
  BY <1>8, <1>9

(***************************************************************************)
(* The inductive invariant of the generator: its stream is one of those    *)
(* described at once, moved to the start of the working set, and it        *)
(* remembers the last pages of it.                                         *)
(***************************************************************************)
IsGenerated(s) ==
  /\ s \in RelativeStreams(locality, Len(stream))
  /\ stream = [i \in 1 .. Len(stream) |-> start + s[i]]
  /\ recent = RecentBefore(s, Len(stream) + 1)

GInv ==
  /\ locality \in Localities
  /\ start \in WorkingSetStarts(locality)
  /\ Len(stream) \in Nat
  /\ \E s : IsGenerated(s)

(* It holds before the first page, *)
LEMMA InitGenerator == GeneratorInit => GInv
<1> SUFFICES ASSUME GeneratorInit PROVE GInv
  OBVIOUS
<1>1. Len(stream) = 0 /\ stream = <<>> /\ recent = <<>>
  BY DEF GeneratorInit
<1> DEFINE s == [i \in 1 .. 0 |-> 0]
<1>2. 1 .. 0 = {}
  OBVIOUS
<1>3. s \in [1 .. 0 -> Uniform(locality)] /\ s \in RelativeStreams(locality, 0)
  BY <1>2 DEF RelativeStreams
<1>4. stream = [i \in 1 .. 0 |-> start + s[i]]
  BY <1>1, <1>2
<1> HIDE DEF s
<1>5. RecentBefore(s, 0 + 1) = <<>>
  <2> DEFINE n == 0
             one == 1
             low == Oldest(one)
  <2>1. n \in Nat /\ one \in 1 .. n + 1 /\ s \in [1 .. n -> Uniform(locality)]
    BY <1>3
  <2>2. low = 1
    BY CountsAssumption DEF Oldest
  <2> HIDE DEF n, one, low
  <2>3. Oldest(one) = low /\ RecentBefore(s, one) \in Seq(Uniform(locality))
        /\ Len(RecentBefore(s, one)) = one - low
    <3>1. AreRecent(s, one, Uniform(locality))
      BY <2>1, RecentPages
    <3> QED
      BY <3>1 DEF AreRecent, low
  <2>4. Len(RecentBefore(s, one)) = 0
    BY <2>2, <2>3 DEF one
  <2>5. RecentBefore(s, one) = <<>>
    BY <2>3, <2>4
  <2> QED
    BY <2>5 DEF one
<1>6. IsGenerated(s)
  BY <1>1, <1>3, <1>4, <1>5 DEF IsGenerated
<1> QED
  BY <1>1, <1>6 DEF GeneratorInit, GInv

(* and every page it generates keeps it. *)
LEMMA NextGenerator == GInv /\ [GeneratorNext]_generatorVars => GInv'
<1> SUFFICES ASSUME GInv, [GeneratorNext]_generatorVars PROVE GInv'
  OBVIOUS
<1>1. CASE UNCHANGED generatorVars
  BY <1>1 DEF generatorVars, GInv, IsGenerated
<1>2. ASSUME NEW page \in NextPages(locality, recent), Generate(page) PROVE GInv'
  <2> DEFINE n == Len(stream)
             A == Uniform(locality)
  <2>1. /\ stream' = Append(stream, start + page)
        /\ recent' = Remember(recent, page)
        /\ locality' = locality /\ start' = start
    BY <1>2 DEF Generate
  <2>2. PICK s : IsGenerated(s)
    BY DEF GInv
  <2>3. /\ n \in Nat /\ s \in [1 .. n -> A]
        /\ \A i \in 1 .. n : s[i] \in NextPages(locality, RecentBefore(s, i))
        /\ stream = [i \in 1 .. n |-> start + s[i]]
        /\ recent = RecentBefore(s, n + 1)
    BY <2>2 DEF GInv, IsGenerated, RelativeStreams
  <2>4. ValidLocality(locality) /\ A \subseteq Nat /\ start \in Nat
    BY LocalitiesAssumption, CountsAssumption
       DEF GInv, ValidLocality, Uniform, WorkingSetStarts
  <2>5. page \in A
    <3>1. n + 1 \in 1 .. n + 1
      BY <2>3
    <3>2. AreRecent(s, n + 1, A)
      BY <2>3, <3>1, RecentPages
    <3>3. recent \in Seq(A)
      BY <2>3, <3>2 DEF AreRecent
    <3> QED
      BY <2>4, <3>3, NextPagesInWorkingSet
  <2>t. PICK t : t = [i \in 1 .. n + 1 |-> IF i = n + 1 THEN page ELSE s[i]]
    OBVIOUS
  <2>6. t \in [1 .. n + 1 -> A] /\ t[n + 1] = page /\ \A i \in 1 .. n : t[i] = s[i]
    BY <2>3, <2>5, <2>t
  <2>n. n = Len(stream)
    OBVIOUS
  <2> HIDE DEF n, A
  <2>7. \A i \in 1 .. n + 1 : RecentBefore(t, i) = RecentBefore(s, i)
    <3> SUFFICES ASSUME NEW i \in 1 .. n + 1 PROVE RecentBefore(t, i) = RecentBefore(s, i)
      OBVIOUS
    <3>1. n \in Nat /\ IsLonger(t, s, n, A)
      BY <2>3, <2>6 DEF IsLonger
    <3> QED
      BY <3>1, RecentStays
  <2>8. \A i \in 1 .. n + 1 : t[i] \in NextPages(locality, RecentBefore(t, i))
    <3> SUFFICES ASSUME NEW i \in 1 .. n + 1
                 PROVE  t[i] \in NextPages(locality, RecentBefore(t, i))
      OBVIOUS
    <3>1. CASE i = n + 1
      BY <1>2, <2>3, <2>6, <2>7, <3>1
    <3>2. CASE i # n + 1
      <4>1. i \in 1 .. n
        BY <2>3, <3>2
      <4> QED
        BY <2>3, <2>6, <2>7, <4>1
    <3> QED
      BY <3>1, <3>2
  <2>9. Remember(RecentBefore(s, n + 1), t[n + 1]) = RecentBefore(t, n + 2)
    BY <2>3, <2>6, RememberedRecent
  <2>10. stream' = [i \in 1 .. n + 1 |-> start + t[i]] /\ Len(stream') = n + 1
    <3>1. stream \in Seq(Nat) /\ Len(stream) = n /\ start + page \in Nat
      <4>1. \A i \in 1 .. n : start + s[i] \in Nat
        <5> SUFFICES ASSUME NEW i \in 1 .. n PROVE start + s[i] \in Nat
          OBVIOUS
        <5>1. s[i] \in Nat
          BY <2>3, <2>4
        <5> QED
          BY <2>4, <5>1
      <4>2. stream \in Seq(Nat)
        BY <2>3, <4>1
      <4>3. start + page \in Nat
        BY <2>4, <2>5
      <4> QED
        BY <4>2, <4>3, <2>n
    <3>2. stream' = [i \in 1 .. n + 1 |-> IF i = n + 1 THEN start + page ELSE stream[i]]
      BY <2>1, <3>1
    <3>3. ASSUME NEW i \in 1 .. n + 1
          PROVE  (IF i = n + 1 THEN start + page ELSE stream[i]) = start + t[i]
      <4>1. CASE i = n + 1
        BY <2>6, <4>1
      <4>2. CASE i # n + 1
        <5>1. i \in 1 .. n
          BY <2>3, <4>2
        <5> QED
          BY <2>3, <2>6, <4>2, <5>1
      <4> QED
        BY <4>1, <4>2
    <3>4. stream' = [i \in 1 .. n + 1 |-> start + t[i]]
      BY <3>2, <3>3
    <3>5. Len(stream') = n + 1
      BY <2>3, <3>4
    <3> QED
      BY <3>4, <3>5
  <2>11. t \in RelativeStreams(locality, n + 1)
    BY <2>6, <2>8 DEF RelativeStreams, A
  <2>12. (n + 1) + 1 = n + 2 /\ n + 1 \in Nat
    BY <2>3
  <2>13. IsGenerated(t)'
    <3>1. t \in RelativeStreams(locality', Len(stream'))
      BY <2>1, <2>10, <2>11
    <3>2. stream' = [i \in 1 .. Len(stream') |-> start' + t[i]]
      BY <2>1, <2>10
    <3>3. recent' = RecentBefore(t, Len(stream') + 1)
      BY <2>1, <2>3, <2>6, <2>9, <2>10, <2>12
    <3>4. RelativeStreams(locality, Len(stream))' = RelativeStreams(locality', Len(stream'))
      BY DEF RelativeStreams, Uniform, NextPages, Nearby, RecentBefore
    <3> QED
      BY <3>1, <3>2, <3>3, <3>4 DEF IsGenerated, RecentBefore
  <2> QED
    BY <2>1, <2>10, <2>12, <2>13 DEF GInv, WorkingSetStarts
<1> QED
  BY <1>1, <1>2 DEF GeneratorNext

(***************************************************************************)
(* The generator generates the streams that are described at once, for     *)
(* every size of memory and working set.                                   *)
(***************************************************************************)
THEOREM GeneratorTheorem == GeneratorSpec => []GeneratesLocalityStream
<1>1. GInv => GeneratesLocalityStream
  BY DEF GInv, IsGenerated, GeneratesLocalityStream, LocalityStreams
<1> QED
  BY <1>1, InitGenerator, NextGenerator, PTL DEF GeneratorSpec

(***************************************************************************)
(* It never leaves the working set or the address space, whichever way it  *)
(* chooses its pages.                                                      *)
(***************************************************************************)
THEOREM WorkingSetTheorem == GeneratorSpec => []StaysInWorkingSet
<1>1. GInv => StaysInWorkingSet
  <2> SUFFICES ASSUME GInv PROVE StaysInWorkingSet
    OBVIOUS
  <2> DEFINE n == Len(stream)
             w == locality.workingSet
  <2>1. PICK s : IsGenerated(s)
    BY DEF GInv
  <2>2. /\ n \in Nat /\ s \in [1 .. n -> Uniform(locality)]
        /\ stream = [i \in 1 .. n |-> start + s[i]]
    BY <2>1 DEF GInv, IsGenerated, RelativeStreams
  <2>3. /\ w \in 1 .. PageCount /\ start \in 0 .. PageCount - w /\ PageCount \in Nat
        /\ Uniform(locality) = 0 .. w - 1
    BY LocalitiesAssumption, CountsAssumption
       DEF GInv, ValidLocality, Uniform, WorkingSetStarts
  <2>4. ASSUME NEW i \in 1 .. n
        PROVE  stream[i] \in start .. start + w - 1 /\ stream[i] \in 0 .. PageCount - 1
    <3>1. stream[i] = start + s[i] /\ s[i] \in 0 .. w - 1
      BY <2>2, <2>3
    <3> HIDE DEF n, w
    <3> QED
      BY <2>3, <3>1
  <2> QED
    BY <2>4 DEF StaysInWorkingSet
<1> QED
  BY <1>1, InitGenerator, NextGenerator, PTL DEF GeneratorSpec

-----------------------------------------------------------------------------
(* Sums and concatenations *)

(* A set of natural numbers has a least element. *)
LEMMA LeastNatural ==
  ASSUME NEW S \in SUBSET Nat, S # {}
  PROVE  \E x \in S : \A y \in S : x <= y
<1>1. PICK x \in S : \A y \in S : ~(<<y, x>> \in OpToRel(<, Nat))
  BY NatLessThanWellFounded, WFMin
<1>2. \A y \in S : ~(y < x)
  BY <1>1 DEF OpToRel
<1> QED
  BY <1>2

(* What holds of 0 and of every number up to N after its predecessor holds *)
(* of every number up to N.                                                *)
LEMMA UpTo ==
  ASSUME NEW N \in Nat, NEW S, 0 \in S, \A k \in 1 .. N : k - 1 \in S => k \in S
  PROVE  \A k \in 0 .. N : k \in S
<1> DEFINE K == {k \in 0 .. N : k \notin S}
<1>1. SUFFICES ASSUME K # {} PROVE FALSE
  OBVIOUS
<1>2. K \in SUBSET Nat
  OBVIOUS
<1>3. PICK m \in K : \A k \in K : m <= k
  BY <1>1, <1>2, LeastNatural
<1>4. m \in 1 .. N /\ m - 1 \in 0 .. N
  BY <1>3
<1>5. m - 1 \notin K
  BY <1>3, <1>4
<1> QED
  BY <1>3, <1>4, <1>5

(* The largest of a set of indices up to k that has k. *)
LEMMA LastIndex ==
  ASSUME NEW k \in Nat, NEW T \in SUBSET (1 .. k), k \in T
  PROVE  Max(T) = k
<1>1. \A x \in T : (\A y \in T : x >= y) <=> x = k
  OBVIOUS
<1> QED
  BY <1>1 DEF Max

(* The partial sums of the numbers c has for 1 .. n. *)
AreSums(p, c, n) ==
  p \in [0 .. n -> Nat] /\ p[0] = 0 /\ \A k \in 1 .. n : p[k] = p[k - 1] + c[k]

(* The fold Delivered adds with. *)
Total(c) == FoldLeft(LAMBDA a, b : a + b, 0, c)

(* What the fold is chosen to be. *)
IsTotal(g, c, n) ==
  g = [T \in SUBSET (1 .. n) |-> IF T = {} THEN 0 ELSE g[T \ {Max(T)}] + c[Max(T)]]

(* It exists, *)
LEMMA TotalExists ==
  ASSUME NEW n \in Nat, NEW c
  PROVE  \E g : IsTotal(g, c, n)
<1> DEFINE S == {k \in 0 .. n : \E g : IsTotal(g, c, k)}
<1>1. 0 \in S
  <2> DEFINE g == [T \in SUBSET {} |-> 0]
  <2>1. 1 .. 0 = {} /\ 0 \in 0 .. n
    OBVIOUS
  <2>2. \A T \in SUBSET {} : T = {}
    OBVIOUS
  <2>3. IsTotal(g, c, 0)
    BY <2>1, <2>2 DEF IsTotal
  <2> QED
    BY <2>1, <2>3
<1>2. ASSUME NEW m \in 1 .. n, m - 1 \in S PROVE m \in S
  <2>1. m \in Nat
    OBVIOUS
  <2>2. PICK g : IsTotal(g, c, m - 1)
    BY <1>2
  <2>3. \A T \in SUBSET (1 .. m - 1) :
          g[T] = IF T = {} THEN 0 ELSE g[T \ {Max(T)}] + c[Max(T)]
    BY <2>2 DEF IsTotal
  <2> DEFINE h == [T \in SUBSET (1 .. m) |-> IF m \in T THEN g[T \ {m}] + c[m] ELSE g[T]]
  <2>4. \A T \in SUBSET (1 .. m) : m \notin T => T \in SUBSET (1 .. m - 1)
    BY <2>1
  <2>5. \A T \in SUBSET (1 .. m) : T \ {m} \in SUBSET (1 .. m - 1) /\ T \ {m} \in SUBSET (1 .. m)
    BY <2>1
  <2>6. \A T \in SUBSET (1 .. m) : m \notin T => h[T] = g[T]
    OBVIOUS
  <2>7. ASSUME NEW T \in SUBSET (1 .. m)
        PROVE  h[T] = IF T = {} THEN 0 ELSE h[T \ {Max(T)}] + c[Max(T)]
    <3>1. CASE m \in T
      <4>1. Max(T) = m /\ T # {}
        BY <2>1, <3>1, LastIndex
      <4>2. h[T \ {m}] = g[T \ {m}]
        BY <2>5, <2>6
      <4>3. h[T] = g[T \ {m}] + c[m]
        BY <3>1
      <4> HIDE DEF h
      <4> QED
        BY <4>1, <4>2, <4>3
    <3>2. CASE m \notin T
      <4>1. T \in SUBSET (1 .. m - 1) /\ T \ {Max(T)} \in SUBSET (1 .. m)
            /\ m \notin T \ {Max(T)}
        BY <2>4, <3>2
      <4>2. h[T] = g[T] /\ h[T \ {Max(T)}] = g[T \ {Max(T)}]
        BY <2>6, <3>2, <4>1
      <4> HIDE DEF h
      <4> QED
        BY <2>3, <4>1, <4>2
    <3> QED
      BY <3>1, <3>2
  <2>8. h = [T \in SUBSET (1 .. m) |-> IF T = {} THEN 0 ELSE h[T \ {Max(T)}] + c[Max(T)]]
    <3>1. h = [T \in SUBSET (1 .. m) |-> h[T]]
      OBVIOUS
    <3> HIDE DEF h
    <3> QED
      BY <2>7, <3>1, Zenon
  <2> HIDE DEF h
  <2>9. IsTotal(h, c, m)
    BY <2>8 DEF IsTotal
  <2> QED
    BY <2>9
<1> HIDE DEF S
<1>3. n \in S
  BY <1>1, <1>2, UpTo
<1> QED
  BY <1>3 DEF S

(* and it is the last of the partial sums. *)
LEMMA TotalIsSum ==
  ASSUME NEW n \in Nat, NEW c \in [1 .. n -> Nat]
  PROVE  \E p : AreSums(p, c, n) /\ Total(c) = p[n]
<1> DEFINE g == CHOOSE g : IsTotal(g, c, n)
<1>1. IsTotal(g, c, n)
  BY TotalExists
<1>2. Total(c) = g[1 .. n]
  BY DEF Total, FoldLeft, MapThenFoldSet, IsTotal
<1> HIDE DEF g
<1>3. \A T \in SUBSET (1 .. n) : g[T] = IF T = {} THEN 0 ELSE g[T \ {Max(T)}] + c[Max(T)]
  BY <1>1 DEF IsTotal
<1>4. g[1 .. 0] = 0
  <2>1. 1 .. 0 = {} /\ {} \in SUBSET (1 .. n)
    OBVIOUS
  <2> QED
    BY <1>3, <2>1
<1>5. ASSUME NEW k \in 1 .. n PROVE g[1 .. k] = g[1 .. k - 1] + c[k]
  <2>1. k \in Nat /\ k \in 1 .. k /\ 1 .. k \in SUBSET (1 .. n)
    OBVIOUS
  <2>2. \A i : i \in (1 .. k) \ {k} <=> i \in 1 .. k - 1
    OBVIOUS
  <2>3. (1 .. k) \ {k} = 1 .. k - 1 /\ 1 .. k # {}
    BY <2>1, <2>2
  <2>4. Max(1 .. k) = k
    BY <2>1, LastIndex
  <2> QED
    BY <1>3, <2>1, <2>3, <2>4
<1> DEFINE S == {k \in 0 .. n : g[1 .. k] \in Nat}
<1>6. \A k \in 0 .. n : k \in S
  <2>1. 0 \in S
    BY <1>4
  <2>2. ASSUME NEW k \in 1 .. n, k - 1 \in S PROVE k \in S
    <3>1. g[1 .. k - 1] \in Nat /\ c[k] \in Nat
      BY <2>2
    <3>2. g[1 .. k - 1] + c[k] \in Nat
      BY <3>1
    <3> QED
      BY <1>5, <3>2
  <2> HIDE DEF S
  <2> QED
    BY <2>1, <2>2, UpTo
<1> DEFINE p == [k \in 0 .. n |-> g[1 .. k]]
<1>7. p \in [0 .. n -> Nat]
  BY <1>6
<1>8. \A k \in 1 .. n : p[k] = p[k - 1] + c[k]
  BY <1>5
<1>9. p[0] = 0 /\ p[n] = g[1 .. n]
  BY <1>4
<1> HIDE DEF p
<1>10. AreSums(p, c, n)
  BY <1>7, <1>8, <1>9 DEF AreSums
<1> QED
  BY <1>2, <1>9, <1>10

(* Partial sums depend on what they are of so far, *)
LEMMA SumsAgree ==
  ASSUME NEW n \in Nat, NEW c, NEW d, NEW p, NEW q, AreSums(p, c, n), AreSums(q, d, n),
         NEW j \in 0 .. n, \A k \in 1 .. j : c[k] = d[k]
  PROVE  p[j] = q[j]
<1> DEFINE S == {k \in 0 .. j : p[k] = q[k]}
<1>1. 0 \in S
  BY DEF AreSums
<1>2. ASSUME NEW k \in 1 .. j, k - 1 \in S PROVE k \in S
  <2>1. k \in 1 .. n
    OBVIOUS
  <2>2. p[k] = p[k - 1] + c[k] /\ q[k] = q[k - 1] + d[k] /\ c[k] = d[k]
    BY <2>1 DEF AreSums
  <2> QED
    BY <1>2, <2>2
<1> HIDE DEF S
<1>3. j \in S
  BY <1>1, <1>2, UpTo
<1> QED
  BY <1>3 DEF S

(* stay where they are while there is nothing to add, *)
LEMMA SumsRest ==
  ASSUME NEW n \in Nat, NEW c, NEW p, AreSums(p, c, n),
         NEW j \in 0 .. n, \A k \in 1 .. n : k > j => c[k] = 0
  PROVE  p[n] = p[j]
<1> DEFINE S == {k \in 0 .. n : k >= j => p[k] = p[j]}
<1>1. 0 \in S
  OBVIOUS
<1>2. ASSUME NEW k \in 1 .. n, k - 1 \in S PROVE k \in S
  <2>1. CASE k <= j
    BY <2>1
  <2>2. CASE k > j
    <3>1. p[k] = p[k - 1] + c[k] /\ c[k] = 0 /\ p[k - 1] \in Nat
      BY <2>2 DEF AreSums
    <3>2. p[k - 1] = p[j]
      BY <1>2, <2>2
    <3> QED
      BY <3>1, <3>2
  <2> QED
    BY <2>1, <2>2
<1> HIDE DEF S
<1>3. \A k \in 0 .. n : k \in S
  BY <1>1, <1>2, UpTo
<1> QED
  BY <1>3 DEF S

(* and never fall. *)
LEMMA SumsGrow ==
  ASSUME NEW n \in Nat, NEW c \in [1 .. n -> Nat], NEW p, AreSums(p, c, n), NEW j \in 0 .. n
  PROVE  p[j] <= p[n]
<1> DEFINE S == {k \in 0 .. n : k >= j => p[j] <= p[k]}
<1>1. 0 \in S
  BY DEF AreSums
<1>2. ASSUME NEW k \in 1 .. n, k - 1 \in S PROVE k \in S
  <2>1. CASE k < j
    BY <2>1
  <2>2. CASE k = j
    BY <2>2 DEF AreSums
  <2>3. CASE k > j
    <3>1. p[k] = p[k - 1] + c[k] /\ c[k] \in Nat /\ p[k - 1] \in Nat /\ p[j] \in Nat
      BY DEF AreSums
    <3>2. p[j] <= p[k - 1]
      BY <1>2, <2>3
    <3> QED
      BY <3>1, <3>2
  <2> QED
    BY <2>1, <2>2, <2>3
<1> HIDE DEF S
<1>3. \A k \in 0 .. n : k \in S
  BY <1>1, <1>2, UpTo
<1> QED
  BY <1>3 DEF S

(* Numbers that are those of d before j and zero after it. *)
ReachesInto(c, d, j, n) ==
  /\ \A k \in 1 .. n : k < j => c[k] = d[k]
  /\ \A k \in 1 .. n : k > j => c[k] = 0

(* Their total. *)
LEMMA TotalAt ==
  ASSUME NEW n \in Nat, NEW c \in [1 .. n -> Nat], NEW d, NEW q, AreSums(q, d, n),
         NEW j \in 1 .. n, ReachesInto(c, d, j, n)
  PROVE  Total(c) = q[j - 1] + c[j]
<1>1. PICK p : AreSums(p, c, n) /\ Total(c) = p[n]
  BY TotalIsSum
<1>2. /\ j - 1 \in 0 .. n /\ j \in 0 .. n
      /\ \A k \in 1 .. j - 1 : c[k] = d[k]
      /\ \A k \in 1 .. n : k > j => c[k] = 0
  BY DEF ReachesInto
<1>3. p[j - 1] = q[j - 1]
  BY <1>1, <1>2, SumsAgree
<1>4. p[n] = p[j]
  BY <1>1, <1>2, SumsRest
<1>5. p[j] = p[j - 1] + c[j]
  BY <1>1 DEF AreSums
<1> QED
  BY <1>1, <1>3, <1>4, <1>5

(* The total of nothing but zeros. *)
LEMMA TotalOfZeros ==
  ASSUME NEW n \in Nat, NEW c \in [1 .. n -> Nat], \A k \in 1 .. n : c[k] = 0
  PROVE  Total(c) = 0
<1>1. PICK p : AreSums(p, c, n) /\ Total(c) = p[n]
  BY TotalIsSum
<1>2. p[n] = p[0]
  BY <1>1, SumsRest
<1> QED
  BY <1>1, <1>2 DEF AreSums

(* Adding one to one of the numbers adds one to the total. *)
LEMMA TotalGrows ==
  ASSUME NEW n \in Nat, NEW c \in [1 .. n -> Nat], NEW j \in 1 .. n, NEW d,
         d = [c EXCEPT ![j] = c[j] + 1]
  PROVE  Total(d) = Total(c) + 1
<1>1. d \in [1 .. n -> Nat] /\ d[j] = c[j] + 1 /\ \A k \in 1 .. n : k # j => d[k] = c[k]
  OBVIOUS
<1>2. PICK p : AreSums(p, c, n) /\ Total(c) = p[n]
  BY TotalIsSum
<1>3. PICK q : AreSums(q, d, n) /\ Total(d) = q[n]
  BY <1>1, TotalIsSum
<1> DEFINE S == {k \in 0 .. n : q[k] = IF k < j THEN p[k] ELSE p[k] + 1}
<1>4. 0 \in S
  BY <1>2, <1>3 DEF AreSums
<1>5. ASSUME NEW k \in 1 .. n, k - 1 \in S PROVE k \in S
  <2>0. k - 1 \in 0 .. n
    OBVIOUS
  <2>1. /\ p[k] = p[k - 1] + c[k] /\ q[k] = q[k - 1] + d[k]
        /\ p[k - 1] \in Nat /\ q[k - 1] \in Nat /\ c[k] \in Nat /\ d[k] \in Nat
    <3>1. p[k] = p[k - 1] + c[k] /\ p[k - 1] \in Nat
      BY <1>2, <2>0 DEF AreSums
    <3>2. q[k] = q[k - 1] + d[k] /\ q[k - 1] \in Nat
      BY <1>3, <2>0 DEF AreSums
    <3>3. c[k] \in Nat /\ d[k] \in Nat
      BY <1>1
    <3> QED
      BY <3>1, <3>2, <3>3
  <2>2. q[k - 1] = IF k - 1 < j THEN p[k - 1] ELSE p[k - 1] + 1
    BY <1>5
  <2>3. d[k] = IF k = j THEN c[k] + 1 ELSE c[k]
    BY <1>1
  <2>4. q[k] = IF k < j THEN p[k] ELSE p[k] + 1
    BY <2>1, <2>2, <2>3
  <2> QED
    BY <2>4
<1> HIDE DEF S
<1>6. \A k \in 0 .. n : k \in S
  BY <1>4, <1>5, UpTo
<1> QED
  BY <1>2, <1>3, <1>6 DEF S

(* The concatenations of the first of the sequences of Q. *)
IsFlattening(g, Q, n) ==
  g = [i \in 1 .. n |-> IF i = 1 THEN Q[i] ELSE g[i - 1] \o Q[i]]

(* What FlattenSeq chooses exists, *)
LEMMA FlatteningExists ==
  ASSUME NEW n \in Nat, NEW Q
  PROVE  \E g : IsFlattening(g, Q, n)
<1> DEFINE S == {k \in 0 .. n : \E g : IsFlattening(g, Q, k)}
<1>1. 0 \in S
  <2> DEFINE g == [i \in {} |-> <<>>]
  <2>1. 1 .. 0 = {}
    OBVIOUS
  <2>2. IsFlattening(g, Q, 0)
    BY <2>1 DEF IsFlattening
  <2> QED
    BY <2>2
<1>2. ASSUME NEW m \in 1 .. n, m - 1 \in S PROVE m \in S
  <2>1. PICK g : IsFlattening(g, Q, m - 1)
    BY <1>2
  <2>2. \A i \in 1 .. m - 1 : g[i] = IF i = 1 THEN Q[i] ELSE g[i - 1] \o Q[i]
    BY <2>1 DEF IsFlattening
  <2> DEFINE h == [i \in 1 .. m |-> IF i < m THEN g[i]
                                    ELSE IF i = 1 THEN Q[i] ELSE g[i - 1] \o Q[i]]
  <2>3. \A i \in 1 .. m : i < m => h[i] = g[i]
    OBVIOUS
  <2>4. h[m] = IF m = 1 THEN Q[m] ELSE g[m - 1] \o Q[m]
    OBVIOUS
  <2>5. h = [i \in 1 .. m |-> h[i]]
    OBVIOUS
  <2> HIDE DEF h
  <2>6. ASSUME NEW i \in 1 .. m PROVE h[i] = IF i = 1 THEN Q[i] ELSE h[i - 1] \o Q[i]
    <3>1. CASE i < m
      <4>1. i \in 1 .. m - 1 /\ h[i] = g[i]
        BY <2>3, <3>1
      <4>2. i # 1 => i - 1 \in 1 .. m /\ i - 1 < m
        BY <3>1
      <4>3. i # 1 => h[i - 1] = g[i - 1]
        BY <2>3, <4>2
      <4> QED
        BY <2>2, <4>1, <4>3
    <3>2. CASE i = m
      <4>1. i # 1 => i - 1 \in 1 .. m /\ i - 1 < m
        BY <3>2
      <4>2. i # 1 => h[i - 1] = g[i - 1]
        BY <2>3, <4>1
      <4> QED
        BY <2>4, <3>2, <4>2
    <3> QED
      BY <3>1, <3>2
  <2>7. IsFlattening(h, Q, m)
    BY <2>5, <2>6, Zenon DEF IsFlattening
  <2> QED
    BY <2>7
<1> HIDE DEF S
<1>3. \A k \in 0 .. n : k \in S
  BY <1>1, <1>2, UpTo
<1> QED
  BY <1>3 DEF S

(* Where the elements of two sequences are in their concatenation. *)
AreJoined(a, b, A) ==
  /\ a \o b \in Seq(A) /\ Len(a \o b) = Len(a) + Len(b)
  /\ \A x \in 1 .. Len(a) : (a \o b)[x] = a[x]
  /\ \A j \in 1 .. Len(b) : (a \o b)[Len(a) + j] = b[j]

(* It has the elements of the one before those of the other. *)
LEMMA ConcatAt == ASSUME NEW A, NEW a \in Seq(A), NEW b \in Seq(A) PROVE AreJoined(a, b, A)
<1> DEFINE L == Len(a)
           M == Len(b)
           ab == a \o b
<1>1. ab \in Seq(A) /\ Len(ab) = L + M
  BY ConcatProperties
<1>2. L \in Nat /\ M \in Nat
  BY LenProperties
<1>3. \A x \in 1 .. L + M : ab[x] = IF x <= L THEN a[x] ELSE b[x - L]
  BY ConcatProperties
<1> HIDE DEF L, M, ab
<1>4. \A x \in 1 .. L : ab[x] = a[x]
  BY <1>2, <1>3
<1>5. ASSUME NEW j \in 1 .. M PROVE ab[L + j] = b[j]
  <2>1. L + j \in 1 .. L + M /\ ~(L + j <= L) /\ (L + j) - L = j
    BY <1>2
  <2> QED
    BY <1>3, <2>1
<1> QED
  BY <1>1, <1>4, <1>5 DEF L, M, ab, AreJoined

(* The lengths of the sequences of Q. *)
AreLengths(d, Q, n) == \A k \in 1 .. n : d[k] = Len(Q[k])

(* A sequence that has the elements of those of Q, one after the other;    *)
(* the partial sums p of their lengths say where.                          *)
IsConcatenation(t, Q, n, p, A) ==
  /\ t \in Seq(A)
  /\ Len(t) = p[n]
  /\ \A k \in 1 .. n : \A j \in 1 .. Len(Q[k]) : t[p[k - 1] + j] = Q[k][j]

(* and is such a sequence. *)
LEMMA FlattenSeqPositions ==
  ASSUME NEW n \in Nat, NEW A, NEW Q \in [1 .. n -> Seq(A)], NEW d,
         AreLengths(d, Q, n), NEW p, AreSums(p, d, n)
  PROVE  IsConcatenation(FlattenSeq(Q), Q, n, p, A)
<1>1. Len(Q) = n
  OBVIOUS
<1>2. \A k \in 1 .. n : Q[k] \in Seq(A) /\ d[k] = Len(Q[k]) /\ d[k] \in Nat
  BY DEF AreLengths
<1>3. CASE n = 0
  <2>1. FlattenSeq(Q) = Q
    BY <1>1, <1>3 DEF FlattenSeq
  <2>2. Q = <<>>
    BY <1>3
  <2> QED
    BY <1>3, <2>1, <2>2 DEF AreSums, IsConcatenation
<1>4. CASE n # 0
  <2> DEFINE g == CHOOSE g : IsFlattening(g, Q, n)
  <2>1. IsFlattening(g, Q, n)
    BY FlatteningExists
  <2>2. FlattenSeq(Q) = g[n]
    BY <1>1, <1>4 DEF FlattenSeq, IsFlattening
  <2> HIDE DEF g
  <2>3. \A i \in 1 .. n : g[i] = IF i = 1 THEN Q[i] ELSE g[i - 1] \o Q[i]
    BY <2>1 DEF IsFlattening
  <2>4. p[0] = 0 /\ \A k \in 1 .. n : p[k] = p[k - 1] + d[k]
    BY DEF AreSums
  <2>5. \A k \in 0 .. n : p[k] \in Nat
    BY DEF AreSums
  <2> DEFINE Placed(i) == /\ g[i] \in Seq(A) /\ Len(g[i]) = p[i]
                          /\ \A k \in 1 .. i : \A j \in 1 .. Len(Q[k]) :
                               /\ p[k - 1] + j \in 1 .. p[i]
                               /\ g[i][p[k - 1] + j] = Q[k][j]
             S == {0} \cup {i \in 1 .. n : Placed(i)}
  <2>6. ASSUME NEW i \in 1 .. n, i - 1 \in S PROVE i \in S
    <3>1. CASE i = 1
      <4>1. g[1] = Q[1] /\ p[1] = Len(Q[1]) /\ p[1 - 1] = 0 /\ Len(Q[1]) \in Nat
        <5>1. p[1] = p[1 - 1] + d[1] /\ p[1 - 1] = 0 /\ 1 \in 1 .. n
          BY <2>4, <3>1
        <5>2. d[1] = Len(Q[1]) /\ d[1] \in Nat
          BY <1>2, <5>1
        <5>3. g[1] = Q[1]
          BY <2>3, <5>1
        <5> QED
          BY <5>1, <5>2, <5>3
      <4>2. Placed(1)
        BY <1>2, <3>1, <4>1
      <4> QED
        BY <3>1, <4>2
    <3>2. CASE i # 1
      <4>1. i - 1 \in 1 .. n /\ Placed(i - 1)
        BY <2>6, <3>2
      <4>2. g[i] = g[i - 1] \o Q[i] /\ Q[i] \in Seq(A) /\ g[i - 1] \in Seq(A)
        BY <1>2, <2>3, <3>2, <4>1
      <4>3. /\ p[i] = p[i - 1] + Len(Q[i]) /\ p[i - 1] \in Nat /\ Len(Q[i]) \in Nat
            /\ Len(g[i - 1]) = p[i - 1]
        <5>1. i - 1 \in 0 .. n /\ i \in 1 .. n
          BY <4>1
        <5>2. p[i] = p[i - 1] + d[i] /\ p[i - 1] \in Nat
          BY <2>4, <2>5, <5>1
        <5>3. d[i] = Len(Q[i]) /\ d[i] \in Nat
          BY <1>2, <5>1
        <5>4. Len(g[i - 1]) = p[i - 1]
          BY <4>1
        <5> QED
          BY <5>2, <5>3, <5>4
      <4>4. /\ g[i] \in Seq(A) /\ Len(g[i]) = p[i]
            /\ \A x \in 1 .. p[i - 1] : g[i][x] = g[i - 1][x]
            /\ \A j \in 1 .. Len(Q[i]) : g[i][p[i - 1] + j] = Q[i][j]
        <5> DEFINE a == g[i - 1]
                   b == Q[i]
        <5>1. a \in Seq(A) /\ b \in Seq(A) /\ g[i] = a \o b /\ Len(a) = p[i - 1]
          BY <4>2, <4>3
        <5>2. p[i] = Len(a) + Len(b)
          BY <4>3
        <5> HIDE DEF a, b
        <5>3. /\ a \o b \in Seq(A) /\ Len(a \o b) = Len(a) + Len(b)
              /\ \A x \in 1 .. Len(a) : (a \o b)[x] = a[x]
              /\ \A j \in 1 .. Len(b) : (a \o b)[Len(a) + j] = b[j]
          <6>1. AreJoined(a, b, A)
            BY <5>1, ConcatAt
          <6> QED
            BY <6>1 DEF AreJoined
        <5>4. g[i] \in Seq(A) /\ Len(g[i]) = p[i]
          BY <5>1, <5>2, <5>3
        <5>5. \A x \in 1 .. p[i - 1] : g[i][x] = g[i - 1][x]
          BY <5>1, <5>3 DEF a
        <5>6. \A j \in 1 .. Len(Q[i]) : g[i][p[i - 1] + j] = Q[i][j]
          BY <5>1, <5>3 DEF b
        <5> QED
          BY <5>4, <5>5, <5>6
      <4>5. ASSUME NEW k \in 1 .. i, NEW j \in 1 .. Len(Q[k])
            PROVE  p[k - 1] + j \in 1 .. p[i] /\ g[i][p[k - 1] + j] = Q[k][j]
        <5>1. CASE k = i
          <6>1. p[i - 1] + j \in 1 .. p[i]
            BY <4>3, <5>1
          <6> QED
            BY <4>4, <5>1, <6>1
        <5>2. CASE k # i
          <6>1. k \in 1 .. i - 1
            BY <5>2
          <6>2. p[k - 1] + j \in 1 .. p[i - 1] /\ g[i - 1][p[k - 1] + j] = Q[k][j]
            BY <4>1, <6>1
          <6>3. p[k - 1] + j \in 1 .. p[i]
            BY <4>3, <6>2
          <6> QED
            BY <4>4, <6>2, <6>3
        <5> QED
          BY <5>1, <5>2
      <4>6. Placed(i)
        BY <4>4, <4>5
      <4> QED
        BY <4>6
    <3> QED
      BY <3>1, <3>2
  <2>7. 0 \in S
    OBVIOUS
  <2> HIDE DEF S
  <2>8. \A k \in 0 .. n : k \in S
    BY <2>6, <2>7, UpTo
  <2>9. Placed(n)
    BY <1>4, <2>8 DEF S
  <2> QED
    BY <2>2, <2>9 DEF IsConcatenation
<1> QED
  BY <1>3, <1>4

-----------------------------------------------------------------------------
(* The indices of a composed workload agree *)

(* Every access of a workload has been delivered. *)
Drained(w) == \A s \in Segments(w) : nextIndex[w][s] = lengths[w][s]

(* None has. *)
Unread(w) == \A s \in Segments(w) : nextIndex[w][s] = 0

(* The indices within their bounds. *)
CursorsTyped ==
  /\ lengths \in Compositions
  /\ DOMAIN nextIndex = Workloads
  /\ \A w \in Workloads : nextIndex[w] \in [Segments(w) -> Nat]
  /\ \A w \in Workloads : \A s \in Segments(w) : nextIndex[w][s] <= lengths[w][s]
  /\ currentSegment \in [Workloads -> Nat \ {0}]
  /\ currentWorkload \in 1 .. Len(lengths) + 1

(***************************************************************************)
(* The inductive invariant: at each level, what is before the index is     *)
(* drained and what is after it has not been touched.  currentWorkload     *)
(* may be behind the workload the next access comes from, as nextAccess()  *)
(* and hasNext() leave it on a workload they have drained, and so may      *)
(* currentSegment, which hasNext() does not move.                          *)
(***************************************************************************)
CInv ==
  /\ CursorsTyped
  /\ \A w \in Workloads :
       /\ w < currentWorkload => Drained(w)
       /\ w > currentWorkload => Unread(w)
       /\ \A s \in Segments(w) :
            /\ s < currentSegment[w] => nextIndex[w][s] = lengths[w][s]
            /\ s > currentSegment[w] => nextIndex[w][s] = 0

(* The lengths of the segments of each workload are positive numbers.      *)
LEMMA LengthsTyped ==
  ASSUME lengths \in Compositions
  PROVE  /\ Len(lengths) \in Nat /\ DOMAIN lengths = 1 .. Len(lengths)
         /\ \A w \in Workloads : /\ lengths[w] \in Seq(Nat \ {0}) /\ Len(lengths[w]) \in Nat
                                 /\ lengths[w] \in [Segments(w) -> Nat \ {0}]
                                 /\ lengths[w] \in [Segments(w) -> Nat]
<1>1. lengths \in Seq(Seq(Nat \ {0}))
  BY CompositionsAssumption
<1>2. Len(lengths) \in Nat /\ DOMAIN lengths = 1 .. Len(lengths)
  BY <1>1
<1>3. ASSUME NEW w \in Workloads
      PROVE  /\ lengths[w] \in Seq(Nat \ {0}) /\ Len(lengths[w]) \in Nat
             /\ lengths[w] \in [Segments(w) -> Nat \ {0}]
             /\ lengths[w] \in [Segments(w) -> Nat]
  <2>1. lengths[w] \in Seq(Nat \ {0})
    BY <1>1 DEF Workloads
  <2>2. /\ Len(lengths[w]) \in Nat /\ DOMAIN lengths[w] = 1 .. Len(lengths[w])
        /\ lengths[w] = [s \in 1 .. Len(lengths[w]) |-> lengths[w][s]]
        /\ \A s \in 1 .. Len(lengths[w]) : lengths[w][s] \in Nat \ {0}
    BY <2>1
  <2>3. lengths[w] \in [Segments(w) -> Nat \ {0}] /\ lengths[w] \in [Segments(w) -> Nat]
    BY <2>2 DEF Segments
  <2> QED
    BY <2>1, <2>2, <2>3
<1> QED
  BY <1>2, <1>3

(* The least of a set of numbers is in it. *)
LEMMA Least ==
  ASSUME NEW S \in SUBSET Nat, S # {}
  PROVE  Min(S) \in S /\ \A x \in S : Min(S) <= x
<1>1. PICK x \in S : \A y \in S : x <= y
  BY LeastNatural
<1> QED
  BY <1>1 DEF Min

(* The first of n places, from c on, where something is left. *)
LEMMA FirstLeft ==
  ASSUME NEW n \in Nat, NEW c \in Nat \ {0}, NEW L, NEW m,
         m = Min({s \in 1 .. n : s >= c /\ s \in L} \cup {n + 1})
  PROVE  /\ m \in 1 .. n + 1
         /\ m \in 1 .. n => m >= c /\ m \in L
         /\ \A s \in 1 .. n : s >= c /\ s < m => s \notin L
<1> DEFINE S == {s \in 1 .. n : s >= c /\ s \in L} \cup {n + 1}
<1>1. S \in SUBSET Nat /\ S # {}
  OBVIOUS
<1>2. m \in S /\ \A x \in S : m <= x
  BY <1>1, Least
<1>3. m \in 1 .. n + 1
  BY <1>2
<1>4. m \in 1 .. n => m >= c /\ m \in L
  BY <1>2
<1>5. ASSUME NEW s \in 1 .. n, s >= c, s < m PROVE s \notin L
  <2>1. s \in L => s \in S
    BY <1>5
  <2> HIDE DEF S
  <2> QED
    BY <1>2, <1>3, <1>5, <2>1
<1> QED
  BY <1>3, <1>4, <1>5

(* The segment the next access of a workload comes from: all before it are *)
(* drained, and none after it has been touched.                            *)
LEMMA FirstSegment ==
  ASSUME CInv, NEW w \in Workloads, NEW f, f = FirstSegmentLeft(w)
  PROVE  /\ f \in 1 .. Len(lengths[w]) + 1
         /\ MixedHasNext(w) <=> f \in Segments(w)
         /\ f \in Segments(w) => nextIndex[w][f] < lengths[w][f]
         /\ f \notin Segments(w) => Drained(w)
         /\ \A s \in Segments(w) : s < f => nextIndex[w][s] = lengths[w][s]
         /\ f \in Segments(w) => \A s \in Segments(w) : s > f => nextIndex[w][s] = 0
<1> DEFINE n == Len(lengths[w])
           c == currentSegment[w]
           L == {s \in Segments(w) : SegmentHasNext(w, s)}
<1>1. /\ n \in Nat /\ c \in Nat \ {0} /\ Segments(w) = 1 .. n
      /\ \A s \in 1 .. n : /\ nextIndex[w][s] \in Nat /\ lengths[w][s] \in Nat
                           /\ nextIndex[w][s] <= lengths[w][s]
                           /\ s < c => nextIndex[w][s] = lengths[w][s]
                           /\ s > c => nextIndex[w][s] = 0
  BY LengthsTyped DEF CInv, CursorsTyped, Segments
<1>2. \A s \in 1 .. n : s \in L <=> nextIndex[w][s] < lengths[w][s]
  BY <1>1 DEF SegmentHasNext
<1>3. f = Min({s \in 1 .. n : s >= c /\ s \in L} \cup {n + 1})
  <2>1. {s \in Segments(w) : s >= c /\ SegmentHasNext(w, s)}
          = {s \in 1 .. n : s >= c /\ s \in L}
    BY <1>1
  <2> QED
    BY <2>1 DEF FirstSegmentLeft
<1>4. MixedHasNext(w) <=> f \in Segments(w)
  BY DEF MixedHasNext
<1> HIDE DEF n, c, L
<1>5. /\ f \in 1 .. n + 1
      /\ f \in 1 .. n => f >= c /\ f \in L
      /\ \A s \in 1 .. n : s >= c /\ s < f => s \notin L
  BY <1>1, <1>3, FirstLeft
<1>6. ASSUME NEW s \in 1 .. n, s < f PROVE nextIndex[w][s] = lengths[w][s]
  <2>1. CASE s < c
    BY <1>1, <2>1
  <2>2. CASE s >= c
    <3>1. ~(nextIndex[w][s] < lengths[w][s])
      BY <1>2, <1>5, <1>6, <2>2
    <3> QED
      BY <1>1, <3>1
  <2> QED
    BY <1>1, <2>1, <2>2
<1>7. f \in 1 .. n => \A s \in 1 .. n : s > f => nextIndex[w][s] = 0
  BY <1>1, <1>5
<1>8. f \notin 1 .. n => Drained(w)
  <2> SUFFICES ASSUME f \notin 1 .. n, NEW s \in 1 .. n
               PROVE  nextIndex[w][s] = lengths[w][s]
    BY <1>1 DEF Drained
  <2> QED
    BY <1>1, <1>5, <1>6
<1>9. f \in 1 .. n => nextIndex[w][f] < lengths[w][f]
  BY <1>2, <1>5
<1>10. f \in 1 .. Len(lengths[w]) + 1
  BY <1>5 DEF n
<1> QED
  BY <1>1, <1>4, <1>6, <1>7, <1>8, <1>9, <1>10

(* A workload that was never touched, or is drained. *)
LEMMA DrainedHasNoNext ==
  ASSUME CInv, NEW w \in Workloads, Drained(w)
  PROVE  ~MixedHasNext(w)
<1> DEFINE f == FirstSegmentLeft(w)
<1>1. /\ MixedHasNext(w) <=> f \in Segments(w)
      /\ f \in Segments(w) => nextIndex[w][f] < lengths[w][f]
  BY FirstSegment
<1> HIDE DEF f
<1>2. f \in Segments(w) => nextIndex[w][f] = lengths[w][f] /\ lengths[w][f] \in Nat
  BY LengthsTyped DEF Drained, CInv, CursorsTyped
<1> QED
  BY <1>1, <1>2

(* The workload the next access comes from. *)
LEMMA FirstWorkload ==
  ASSUME CInv, NEW g, g = FirstWorkloadLeft
  PROVE  /\ g \in 1 .. Len(lengths) + 1
         /\ g \in Workloads => MixedHasNext(g)
         /\ \A w \in Workloads : w < g => Drained(w)
         /\ \A w \in Workloads : w > g => Unread(w)
         /\ g >= currentWorkload
<1> DEFINE n == Len(lengths)
           c == currentWorkload
           L == {w \in Workloads : MixedHasNext(w)}
<1>1. /\ n \in Nat /\ c \in Nat \ {0} /\ c \in 1 .. n + 1 /\ Workloads = 1 .. n
      /\ \A w \in 1 .. n : /\ w < c => Drained(w)
                           /\ w > c => Unread(w)
  BY LengthsTyped DEF CInv, CursorsTyped, Workloads
<1>2. g = Min({w \in 1 .. n : w >= c /\ w \in L} \cup {n + 1})
  <2>1. {w \in Workloads : w >= c /\ MixedHasNext(w)} = {w \in 1 .. n : w >= c /\ w \in L}
    BY <1>1
  <2> QED
    BY <2>1 DEF FirstWorkloadLeft
<1>3. \A w \in 1 .. n : w \in L <=> MixedHasNext(w)
  BY <1>1
<1>4. \A w \in 1 .. n : ~MixedHasNext(w) => Drained(w)
  BY <1>1, FirstSegment
<1>n. g \in 1 .. Len(lengths) + 1 <=> g \in 1 .. n + 1
  OBVIOUS
<1> HIDE DEF n, c, L
<1>5. /\ g \in 1 .. n + 1
      /\ g \in 1 .. n => g >= c /\ g \in L
      /\ \A w \in 1 .. n : w >= c /\ w < g => w \notin L
  BY <1>1, <1>2, FirstLeft
<1>6. \A w \in 1 .. n : w < g => Drained(w)
  BY <1>1, <1>3, <1>4, <1>5
<1>7. g >= c
  BY <1>1, <1>5
<1>8. \A w \in 1 .. n : w > g => Unread(w)
  BY <1>1, <1>5, <1>7
<1>9. g \in 1 .. n => MixedHasNext(g)
  BY <1>3, <1>5
<1> QED
  BY <1>1, <1>5, <1>6, <1>7, <1>8, <1>9, <1>n DEF c

(* The invariant holds at first, *)
LEMMA InitCursors == CursorInit => CInv
<1> SUFFICES ASSUME CursorInit PROVE CInv
  OBVIOUS
<1>1. /\ Len(lengths) \in Nat
      /\ \A w \in Workloads : lengths[w] \in [Segments(w) -> Nat] /\ Len(lengths[w]) \in Nat
  BY LengthsTyped DEF CursorInit
<1>2. /\ DOMAIN nextIndex = Workloads
      /\ \A w \in Workloads : /\ nextIndex[w] = [s \in Segments(w) |-> 0]
                              /\ currentSegment[w] = 1
      /\ currentWorkload = 1 /\ currentSegment = [w \in Workloads |-> 1]
  BY DEF CursorInit
<1>3. \A w \in Workloads : /\ nextIndex[w] \in [Segments(w) -> Nat]
                           /\ \A s \in Segments(w) : /\ nextIndex[w][s] = 0
                                                     /\ lengths[w][s] \in Nat
  BY <1>1, <1>2
<1>4. CursorsTyped
  BY <1>1, <1>2, <1>3 DEF CursorInit, CursorsTyped
<1>5. \A w \in Workloads : ~(w < currentWorkload) /\ Unread(w)
  BY <1>1, <1>2, <1>3 DEF Workloads, Unread
<1>6. \A w \in Workloads : \A s \in Segments(w) : ~(s < currentSegment[w])
  BY <1>1, <1>2 DEF Segments
<1> QED
  BY <1>3, <1>4, <1>5, <1>6 DEF CInv

(* and every call keeps it. *)
LEMMA NextCursors == CInv /\ [CursorNext]_cursorVars => CInv'
<1> SUFFICES ASSUME CInv, [CursorNext]_cursorVars PROVE CInv'
  OBVIOUS
<1>0. /\ lengths \in Compositions /\ Len(lengths) \in Nat
      /\ \A w \in Workloads : lengths[w] \in [Segments(w) -> Nat] /\ Len(lengths[w]) \in Nat
  BY LengthsTyped DEF CInv, CursorsTyped
<1>1. lengths' = lengths
  BY DEF CursorNext, HasNext, NextAccess, NextAccessThrows, Reset, cursorVars
<1>2. Workloads' = Workloads /\ \A w : Segments(w)' = Segments(w)
  BY <1>1 DEF Workloads, Segments
<1> DEFINE g == FirstWorkloadLeft
<1>3. /\ g \in 1 .. Len(lengths) + 1
      /\ g \in Workloads => MixedHasNext(g)
      /\ \A w \in Workloads : w < g => Drained(w)
      /\ \A w \in Workloads : w > g => Unread(w)
  BY FirstWorkload
<1>4. CASE HasNext \/ NextAccessThrows
  <2>1. currentWorkload' = g /\ UNCHANGED <<nextIndex, currentSegment>>
    BY <1>4 DEF HasNext, NextAccessThrows
  <2> HIDE DEF g
  <2>2. \A w \in Workloads : (Drained(w) => Drained(w)') /\ (Unread(w) => Unread(w)')
    BY <1>1, <1>2, <2>1 DEF Drained, Unread
  <2>3. CursorsTyped'
    BY <1>1, <1>2, <1>3, <2>1 DEF CInv, CursorsTyped
  <2>4. \A w \in Workloads : /\ w < currentWorkload' => Drained(w)'
                             /\ w > currentWorkload' => Unread(w)'
    BY <1>3, <2>1, <2>2
  <2>5. \A w \in Workloads : \A s \in Segments(w) :
          /\ s < currentSegment'[w] => nextIndex'[w][s] = lengths'[w][s]
          /\ s > currentSegment'[w] => nextIndex'[w][s] = 0
    BY <1>1, <2>1 DEF CInv
  <2> QED
    BY <1>2, <2>3, <2>4, <2>5 DEF CInv
<1>5. CASE NextAccess
  <2> DEFINE f == FirstSegmentLeft(g)
  <2>1. /\ g \in Workloads /\ currentWorkload' = g
        /\ currentSegment' = [currentSegment EXCEPT ![g] = f]
        /\ nextIndex' = [nextIndex EXCEPT ![g][f] = @ + 1]
    BY <1>5 DEF NextAccess
  <2>2. f \in Segments(g)
    BY <1>3, <2>1 DEF MixedHasNext
  <2>3. /\ f \in Segments(g) => nextIndex[g][f] < lengths[g][f]
        /\ \A s \in Segments(g) : s < f => nextIndex[g][s] = lengths[g][s]
        /\ f \in Segments(g) => \A s \in Segments(g) : s > f => nextIndex[g][s] = 0
    BY <2>1, FirstSegment
  <2> HIDE DEF f, g
  <2>4. /\ DOMAIN nextIndex = Workloads
        /\ \A w \in Workloads : nextIndex[w] \in [Segments(w) -> Nat]
        /\ \A w \in Workloads : \A s \in Segments(w) : nextIndex[w][s] <= lengths[w][s]
        /\ currentSegment \in [Workloads -> Nat \ {0}]
    BY DEF CInv, CursorsTyped
  <2>5. /\ DOMAIN nextIndex' = Workloads
        /\ \A w \in Workloads : w # g => nextIndex'[w] = nextIndex[w]
        /\ nextIndex'[g] = [nextIndex[g] EXCEPT ![f] = nextIndex[g][f] + 1]
    BY <2>1, <2>4
  <2>6. /\ nextIndex'[g] \in [Segments(g) -> Nat]
        /\ nextIndex'[g][f] = nextIndex[g][f] + 1
        /\ \A s \in Segments(g) : s # f => nextIndex'[g][s] = nextIndex[g][s]
    BY <2>1, <2>2, <2>4, <2>5
  <2>7. /\ currentSegment'[g] = f
        /\ \A w \in Workloads : w # g => currentSegment'[w] = currentSegment[w]
    BY <2>1, <2>4
  <2>8. f \in Nat \ {0} /\ f \in 1 .. Len(lengths[g])
    BY <1>0, <2>1, <2>2 DEF Segments
  <2>9. currentSegment' \in [Workloads -> Nat \ {0}]
    BY <2>1, <2>4, <2>8
  <2>10. nextIndex[g][f] \in Nat /\ lengths[g][f] \in Nat /\ nextIndex[g][f] + 1 <= lengths[g][f]
    BY <1>0, <2>1, <2>2, <2>3, <2>4
  <2>11. \A w \in Workloads : \A s \in Segments(w) : nextIndex'[w][s] <= lengths[w][s]
    <3> SUFFICES ASSUME NEW w \in Workloads, NEW s \in Segments(w)
                 PROVE  nextIndex'[w][s] <= lengths[w][s]
      OBVIOUS
    <3>1. CASE w = g /\ s = f
      BY <2>6, <2>10, <3>1
    <3>2. CASE ~(w = g /\ s = f)
      BY <2>4, <2>5, <2>6, <3>2
    <3> QED
      BY <3>1, <3>2
  <2>12. CursorsTyped'
    <3>1. \A w \in Workloads : nextIndex'[w] \in [Segments(w) -> Nat]
      BY <2>4, <2>5, <2>6
    <3> QED
      BY <1>0, <1>1, <1>2, <1>3, <2>1, <2>5, <2>9, <2>11, <3>1 DEF CursorsTyped
  <2>13. \A w \in Workloads : /\ w < currentWorkload' => Drained(w)'
                              /\ w > currentWorkload' => Unread(w)'
    <3>1. \A w \in Workloads : w # g => (Drained(w) => Drained(w)')
                                        /\ (Unread(w) => Unread(w)')
      BY <1>1, <1>2, <2>5 DEF Drained, Unread
    <3>2. \A w \in Workloads : w < g \/ w > g => w # g
      BY <1>0 DEF Workloads
    <3> QED
      BY <1>3, <2>1, <3>1, <3>2
  <2>14. ASSUME NEW w \in Workloads, NEW s \in Segments(w)
         PROVE  /\ s < currentSegment'[w] => nextIndex'[w][s] = lengths'[w][s]
                /\ s > currentSegment'[w] => nextIndex'[w][s] = 0
    <3>1. CASE w = g
      <4>1. s # f => nextIndex'[g][s] = nextIndex[g][s]
        BY <2>6, <2>14, <3>1
      <4>2. s < f \/ s > f => s # f
        BY <2>8
      <4> QED
        BY <1>1, <2>2, <2>3, <2>7, <2>14, <3>1, <4>1, <4>2
    <3>2. CASE w # g
      BY <1>1, <2>5, <2>7, <3>2 DEF CInv
    <3> QED
      BY <3>1, <3>2
  <2> QED
    BY <1>2, <2>12, <2>13, <2>14 DEF CInv
<1>6. CASE Reset
  <2>1. /\ DOMAIN nextIndex' = Workloads
        /\ \A w \in Workloads : nextIndex'[w] = [s \in Segments(w) |-> 0]
        /\ currentWorkload' = 1 /\ currentSegment' = [w \in Workloads |-> 1]
    BY <1>6 DEF Reset
  <2>2. \A w \in Workloads : /\ nextIndex'[w] \in [Segments(w) -> Nat]
                             /\ currentSegment'[w] = 1
                             /\ \A s \in Segments(w) : /\ nextIndex'[w][s] = 0
                                                       /\ lengths[w][s] \in Nat
    BY <1>0, <2>1
  <2>3. \A w \in Workloads : \A s \in Segments(w) : nextIndex'[w][s] <= lengths[w][s]
    BY <2>2
  <2>4. CursorsTyped'
    BY <1>0, <1>1, <1>2, <2>1, <2>2, <2>3 DEF CursorsTyped
  <2>5. \A w \in Workloads : ~(w < currentWorkload') /\ Unread(w)'
    BY <1>0, <1>2, <2>1, <2>2 DEF Workloads, Unread
  <2>6. \A w \in Workloads : \A s \in Segments(w) : ~(s < currentSegment'[w])
    BY <1>0, <2>2 DEF Segments
  <2> QED
    BY <1>2, <2>2, <2>4, <2>5, <2>6 DEF CInv
<1>7. CASE UNCHANGED cursorVars
  BY <1>7 DEF cursorVars, CInv, CursorsTyped, Workloads, Segments, Drained, Unread
<1> QED
  BY <1>4, <1>5, <1>6, <1>7 DEF CursorNext

-----------------------------------------------------------------------------
(* The composed workload delivers one stream *)

(* What the sequences of accesses are made of. *)
AccessRecords == [workload : Workloads, segment : Nat, index : Nat]

(* The accesses of a workload. *)
WorkloadAccesses(w) == FlattenSeq([s \in Segments(w) |-> SegmentAccesses(w, s)])

(* The accesses of a workload, segment after segment. *)
LEMMA WorkloadPositions ==
  ASSUME lengths \in Compositions, NEW w \in Workloads, NEW q,
         AreSums(q, lengths[w], Len(lengths[w]))
  PROVE  /\ WorkloadAccesses(w) \in Seq(AccessRecords)
         /\ Len(WorkloadAccesses(w)) = q[Len(lengths[w])]
         /\ \A s \in Segments(w) : \A i \in 1 .. lengths[w][s] :
              WorkloadAccesses(w)[q[s - 1] + i] = [workload |-> w, segment |-> s, index |-> i - 1]
<1> DEFINE n == Len(lengths[w])
           Q == [s \in 1 .. n |-> SegmentAccesses(w, s)]
           d == [s \in 1 .. n |-> Len(Q[s])]
<1>1. /\ n \in Nat /\ Segments(w) = 1 .. n /\ lengths[w] \in [1 .. n -> Nat]
  BY LengthsTyped DEF Segments
<1>2. ASSUME NEW s \in 1 .. n
      PROVE  /\ SegmentAccesses(w, s) \in Seq(AccessRecords)
             /\ Len(SegmentAccesses(w, s)) = lengths[w][s]
             /\ \A i \in 1 .. lengths[w][s] :
                  SegmentAccesses(w, s)[i] = [workload |-> w, segment |-> s, index |-> i - 1]
  <2>1. lengths[w][s] \in Nat
    BY <1>1
  <2>2. \A i \in 1 .. lengths[w][s] :
          [workload |-> w, segment |-> s, index |-> i - 1] \in AccessRecords
    BY <2>1 DEF AccessRecords
  <2> QED
    BY <2>1, <2>2 DEF SegmentAccesses
<1>3. Q \in [1 .. n -> Seq(AccessRecords)] /\ \A s \in 1 .. n : Q[s] = SegmentAccesses(w, s)
  BY <1>2
<1>4. d = lengths[w]
  BY <1>1, <1>2
<1>5. WorkloadAccesses(w) = FlattenSeq(Q)
  BY <1>1 DEF WorkloadAccesses
<1>6. AreSums(q, d, n) /\ AreLengths(d, Q, n)
  BY <1>4 DEF AreLengths
<1>n. n = Len(lengths[w])
  OBVIOUS
<1> HIDE DEF n, Q, d
<1>7. /\ FlattenSeq(Q) \in Seq(AccessRecords)
      /\ Len(FlattenSeq(Q)) = q[n]
      /\ \A s \in 1 .. n : \A i \in 1 .. Len(Q[s]) : FlattenSeq(Q)[q[s - 1] + i] = Q[s][i]
  <2>1. IsConcatenation(FlattenSeq(Q), Q, n, q, AccessRecords)
    BY <1>1, <1>3, <1>6, FlattenSeqPositions
  <2> QED
    BY <2>1 DEF IsConcatenation
<1>8. \A s \in 1 .. n : Q[s] = SegmentAccesses(w, s) /\ Len(Q[s]) = lengths[w][s]
  BY <1>2, <1>3
<1>9. \A s \in 1 .. n : \A i \in 1 .. lengths[w][s] :
        WorkloadAccesses(w)[q[s - 1] + i] = [workload |-> w, segment |-> s, index |-> i - 1]
  <2> SUFFICES ASSUME NEW s \in 1 .. n, NEW i \in 1 .. lengths[w][s]
               PROVE  WorkloadAccesses(w)[q[s - 1] + i]
                        = [workload |-> w, segment |-> s, index |-> i - 1]
    OBVIOUS
  <2>1. FlattenSeq(Q)[q[s - 1] + i] = Q[s][i] /\ Q[s] = SegmentAccesses(w, s)
    BY <1>7, <1>8
  <2>2. SegmentAccesses(w, s)[i] = [workload |-> w, segment |-> s, index |-> i - 1]
    BY <1>2
  <2> QED
    BY <1>5, <2>1, <2>2
<1> QED
  BY <1>1, <1>5, <1>7, <1>9, <1>n

(* How many accesses each workload has. *)
Sizes == [w \in Workloads |-> Total(lengths[w])]

(* The accesses of all, workload after workload. *)
LEMMA AllPositions ==
  ASSUME lengths \in Compositions, NEW p, AreSums(p, Sizes, Len(lengths))
  PROVE  /\ AllAccesses \in Seq(AccessRecords)
         /\ Len(AllAccesses) = p[Len(lengths)]
         /\ Sizes \in [Workloads -> Nat]
         /\ \A w \in Workloads : /\ Len(WorkloadAccesses(w)) = Sizes[w]
                                 /\ \A j \in 1 .. Sizes[w] :
                                      AllAccesses[p[w - 1] + j] = WorkloadAccesses(w)[j]
<1> DEFINE N == Len(lengths)
           Q == [w \in 1 .. N |-> WorkloadAccesses(w)]
           d == [w \in 1 .. N |-> Len(Q[w])]
<1>1. N \in Nat /\ Workloads = 1 .. N
  BY LengthsTyped DEF Workloads
<1>2. ASSUME NEW w \in Workloads
      PROVE  /\ WorkloadAccesses(w) \in Seq(AccessRecords)
             /\ Len(WorkloadAccesses(w)) = Sizes[w] /\ Sizes[w] \in Nat
  <2>1. Len(lengths[w]) \in Nat /\ lengths[w] \in [1 .. Len(lengths[w]) -> Nat]
    BY LengthsTyped DEF Segments
  <2>2. PICK q : AreSums(q, lengths[w], Len(lengths[w]))
                 /\ Total(lengths[w]) = q[Len(lengths[w])]
    BY <2>1, TotalIsSum
  <2>3. /\ WorkloadAccesses(w) \in Seq(AccessRecords)
        /\ Len(WorkloadAccesses(w)) = q[Len(lengths[w])]
    BY <2>2, WorkloadPositions
  <2>4. Sizes[w] = Total(lengths[w])
    BY DEF Sizes
  <2>5. Len(WorkloadAccesses(w)) \in Nat
    BY <2>3, LenProperties
  <2> QED
    BY <2>2, <2>3, <2>4, <2>5
<1>3. Q \in [1 .. N -> Seq(AccessRecords)] /\ \A w \in 1 .. N : Q[w] = WorkloadAccesses(w)
  BY <1>1, <1>2
<1>4. d = Sizes
  BY <1>1, <1>2 DEF Sizes
<1>5. AllAccesses = FlattenSeq(Q)
  BY <1>1 DEF AllAccesses, WorkloadAccesses
<1>6. AreSums(p, d, N) /\ AreLengths(d, Q, N)
  BY <1>4 DEF AreLengths
<1>n. N = Len(lengths)
  OBVIOUS
<1>s. Sizes \in [Workloads -> Nat]
  BY <1>2 DEF Sizes
<1> HIDE DEF N, Q, d
<1>7. /\ FlattenSeq(Q) \in Seq(AccessRecords)
      /\ Len(FlattenSeq(Q)) = p[N]
      /\ \A w \in 1 .. N : \A j \in 1 .. Len(Q[w]) : FlattenSeq(Q)[p[w - 1] + j] = Q[w][j]
  <2>1. IsConcatenation(FlattenSeq(Q), Q, N, p, AccessRecords)
    BY <1>1, <1>3, <1>6, FlattenSeqPositions
  <2> QED
    BY <2>1 DEF IsConcatenation
<1>8. \A w \in 1 .. N : \A j \in 1 .. Sizes[w] :
        AllAccesses[p[w - 1] + j] = WorkloadAccesses(w)[j]
  BY <1>1, <1>2, <1>3, <1>5, <1>7
<1> QED
  BY <1>1, <1>2, <1>5, <1>7, <1>8, <1>n, <1>s

(* How many accesses each workload has delivered. *)
DeliveredBy == [w \in Workloads |-> Total(nextIndex[w])]

(* Together, they are what has been delivered, *)
LEMMA DeliveredIsTotal == Delivered = Total(DeliveredBy)
BY DEF Delivered, DeliveredBy, Total

(* which are numbers. *)
LEMMA DeliveredTyped ==
  ASSUME CInv
  PROVE  /\ Delivered = Total(DeliveredBy)
         /\ DeliveredBy \in [Workloads -> Nat]
         /\ \A w \in Workloads : DeliveredBy[w] = Total(nextIndex[w])
         /\ \A w \in Workloads : Drained(w) => DeliveredBy[w] = Sizes[w]
         /\ \A w \in Workloads : Unread(w) => DeliveredBy[w] = 0
<1>1. Delivered = Total(DeliveredBy)
  BY DeliveredIsTotal
<1>2. \A w \in Workloads : /\ Len(lengths[w]) \in Nat /\ Segments(w) = 1 .. Len(lengths[w])
                           /\ nextIndex[w] \in [1 .. Len(lengths[w]) -> Nat]
                           /\ lengths[w] \in [1 .. Len(lengths[w]) -> Nat]
  BY LengthsTyped DEF CInv, CursorsTyped, Segments
<1>3. ASSUME NEW w \in Workloads
      PROVE  /\ Total(nextIndex[w]) \in Nat
             /\ Drained(w) => Total(nextIndex[w]) = Total(lengths[w])
             /\ Unread(w) => Total(nextIndex[w]) = 0
  <2> DEFINE n == Len(lengths[w])
  <2>1. n \in Nat /\ nextIndex[w] \in [1 .. n -> Nat] /\ lengths[w] \in [1 .. n -> Nat]
        /\ Segments(w) = 1 .. n
    BY <1>2
  <2> HIDE DEF n
  <2>2. PICK p : AreSums(p, nextIndex[w], n) /\ Total(nextIndex[w]) = p[n]
    BY <2>1, TotalIsSum
  <2>3. Total(nextIndex[w]) \in Nat
    BY <2>1, <2>2 DEF AreSums
  <2>4. ASSUME Drained(w) PROVE nextIndex[w] = lengths[w]
    <3> DEFINE c == nextIndex[w]
               d == lengths[w]
    <3>1. \A s \in 1 .. n : c[s] = d[s]
      BY <2>1, <2>4 DEF Drained
    <3>2. c = [s \in 1 .. n |-> c[s]] /\ d = [s \in 1 .. n |-> d[s]]
      BY <2>1
    <3> HIDE DEF c, d
    <3>3. c = d
      BY <3>1, <3>2
    <3> QED
      BY <3>3 DEF c, d
  <2>5. ASSUME Unread(w) PROVE Total(nextIndex[w]) = 0
    BY <2>1, <2>5, TotalOfZeros DEF Unread
  <2> QED
    BY <2>3, <2>4, <2>5
<1> QED
  BY <1>1, <1>3 DEF DeliveredBy, Sizes

(* The next access is the one at the position that the numbers add up to. *)
LEMMA NextPosition ==
  ASSUME CInv, NEW g, g = FirstWorkloadLeft, g \in Workloads, NEW f, f = FirstSegmentLeft(g)
  PROVE  /\ Delivered \in Nat /\ Len(AllAccesses) \in Nat
         /\ Delivered < Len(AllAccesses)
         /\ AllAccesses[Delivered + 1]
              = [workload |-> g, segment |-> f, index |-> nextIndex[g][f]]
<1> DEFINE N == Len(lengths)
           n == Len(lengths[g])
           x == nextIndex[g][f]
<1>1. /\ N \in Nat /\ Workloads = 1 .. N /\ n \in Nat /\ Segments(g) = 1 .. n
      /\ lengths \in Compositions /\ lengths[g] \in [1 .. n -> Nat]
      /\ nextIndex[g] \in [1 .. n -> Nat]
  BY LengthsTyped DEF CInv, CursorsTyped, Segments, Workloads
<1>2. /\ MixedHasNext(g)
      /\ \A w \in Workloads : w < g => Drained(w)
      /\ \A w \in Workloads : w > g => Unread(w)
  BY FirstWorkload
<1>3. f \in Segments(g)
  BY <1>2, FirstSegment
<1>4. /\ nextIndex[g][f] < lengths[g][f]
      /\ \A s \in Segments(g) : s < f => nextIndex[g][s] = lengths[g][s]
      /\ \A s \in Segments(g) : s > f => nextIndex[g][s] = 0
  BY <1>3, FirstSegment
<1>5. PICK q : AreSums(q, lengths[g], n) /\ Total(lengths[g]) = q[n]
  BY <1>1, TotalIsSum
<1>6. PICK p : AreSums(p, Sizes, N)
  <2>1. Sizes \in [1 .. N -> Nat]
    <3>1. \A w \in Workloads : Total(lengths[w]) \in Nat
      <4> SUFFICES ASSUME NEW w \in Workloads PROVE Total(lengths[w]) \in Nat
        OBVIOUS
      <4>1. Len(lengths[w]) \in Nat /\ lengths[w] \in [1 .. Len(lengths[w]) -> Nat]
        BY <1>1, LengthsTyped DEF Segments
      <4> QED
        <5>1. PICK r : /\ AreSums(r, lengths[w], Len(lengths[w]))
                       /\ Total(lengths[w]) = r[Len(lengths[w])]
          BY <4>1, TotalIsSum
        <5> QED
          BY <4>1, <5>1 DEF AreSums
    <3> QED
      BY <1>1, <3>1 DEF Sizes
  <2> QED
    BY <1>1, <2>1, TotalIsSum
<1>7. /\ Len(WorkloadAccesses(g)) = q[n]
      /\ \A s \in Segments(g) : \A i \in 1 .. lengths[g][s] :
           WorkloadAccesses(g)[q[s - 1] + i] = [workload |-> g, segment |-> s, index |-> i - 1]
  BY <1>1, <1>5, WorkloadPositions
<1>8. /\ Len(AllAccesses) = p[N]
      /\ Sizes \in [Workloads -> Nat]
      /\ Len(WorkloadAccesses(g)) = Sizes[g]
      /\ \A j \in 1 .. Sizes[g] : AllAccesses[p[g - 1] + j] = WorkloadAccesses(g)[j]
  BY <1>1, <1>6, AllPositions
<1>9. /\ Delivered = Total(DeliveredBy)
      /\ DeliveredBy \in [Workloads -> Nat]
      /\ DeliveredBy[g] = Total(nextIndex[g])
      /\ \A w \in Workloads : w < g => DeliveredBy[w] = Sizes[w]
      /\ \A w \in Workloads : w > g => DeliveredBy[w] = 0
  BY <1>2, DeliveredTyped
<1>10. Total(nextIndex[g]) = q[f - 1] + x
  <2> DEFINE c == nextIndex[g]
             d == lengths[g]
  <2>1. /\ c \in [1 .. n -> Nat] /\ f \in 1 .. n /\ AreSums(q, d, n) /\ n \in Nat
        /\ ReachesInto(c, d, f, n)
    BY <1>1, <1>3, <1>4, <1>5 DEF ReachesInto
  <2> HIDE DEF c, d, n
  <2>2. Total(c) = q[f - 1] + c[f]
    BY <2>1, TotalAt
  <2> QED
    BY <2>2 DEF c
<1>11. Delivered = p[g - 1] + Total(nextIndex[g])
  <2> DEFINE c == DeliveredBy
             d == Sizes
  <2>1. /\ c \in [1 .. N -> Nat] /\ g \in 1 .. N /\ AreSums(p, d, N) /\ N \in Nat
        /\ ReachesInto(c, d, g, N)
    BY <1>1, <1>6, <1>9 DEF ReachesInto
  <2> HIDE DEF c, d, N
  <2>2. Total(c) = p[g - 1] + c[g]
    BY <2>1, TotalAt
  <2> QED
    BY <1>9, <2>2 DEF c
<1>12. /\ q[f - 1] \in Nat /\ q[f] \in Nat /\ q[f] = q[f - 1] + lengths[g][f] /\ q[f] <= q[n]
       /\ q[n] \in Nat /\ x \in Nat /\ lengths[g][f] \in Nat
  <2>1. f \in 1 .. n /\ f - 1 \in 0 .. n /\ f \in 0 .. n
    BY <1>1, <1>3
  <2>2. q[f] <= q[n]
    BY <1>1, <1>5, <2>1, SumsGrow
  <2>3. q[f - 1] \in Nat /\ q[f] \in Nat /\ q[f] = q[f - 1] + lengths[g][f] /\ q[n] \in Nat
    BY <1>1, <1>5, <2>1 DEF AreSums
  <2>4. x \in Nat /\ lengths[g][f] \in Nat
    BY <1>1, <2>1
  <2> QED
    BY <2>2, <2>3, <2>4
<1>13. /\ p[g - 1] \in Nat /\ p[g] \in Nat /\ p[g] = p[g - 1] + Sizes[g] /\ p[g] <= p[N]
       /\ p[N] \in Nat
  <2>1. g \in 1 .. N /\ g - 1 \in 0 .. N /\ g \in 0 .. N
    BY <1>1
  <2>2. p[g] <= p[N]
    BY <1>1, <1>6, <1>8, <2>1, SumsGrow
  <2>3. p[g - 1] \in Nat /\ p[g] \in Nat /\ p[g] = p[g - 1] + Sizes[g] /\ p[N] \in Nat
    BY <1>1, <1>6, <2>1 DEF AreSums
  <2> QED
    BY <2>2, <2>3
<1>14. Sizes[g] = q[n] /\ x < lengths[g][f]
  BY <1>4, <1>7, <1>8
<1> HIDE DEF N, n, x
<1>15. /\ Delivered = p[g - 1] + (q[f - 1] + x)
       /\ q[f - 1] + (x + 1) \in 1 .. Sizes[g]
       /\ Delivered + 1 = p[g - 1] + (q[f - 1] + (x + 1))
       /\ x + 1 \in 1 .. lengths[g][f] /\ (x + 1) - 1 = x
       /\ Delivered \in Nat /\ Delivered < p[N]
  BY <1>10, <1>11, <1>12, <1>13, <1>14
<1>16. AllAccesses[Delivered + 1] = WorkloadAccesses(g)[q[f - 1] + (x + 1)]
  BY <1>8, <1>15
<1>17. WorkloadAccesses(g)[q[f - 1] + (x + 1)]
         = [workload |-> g, segment |-> f, index |-> (x + 1) - 1]
  BY <1>3, <1>7, <1>15
<1> QED
  BY <1>8, <1>13, <1>15, <1>16, <1>17 DEF x

(* When no workload has a next access, all have been delivered. *)
LEMMA EndPosition ==
  ASSUME CInv, FirstWorkloadLeft \notin Workloads
  PROVE  Delivered \in Nat /\ Delivered = Len(AllAccesses)
<1> DEFINE N == Len(lengths)
           g == FirstWorkloadLeft
<1>1. N \in Nat /\ Workloads = 1 .. N /\ lengths \in Compositions
  BY LengthsTyped DEF CInv, CursorsTyped, Workloads
<1>2. g \in 1 .. N + 1 /\ \A w \in Workloads : w < g => Drained(w)
  BY FirstWorkload
<1>3. \A w \in Workloads : Drained(w)
  BY <1>1, <1>2
<1>4. /\ Delivered = Total(DeliveredBy) /\ DeliveredBy \in [Workloads -> Nat]
      /\ \A w \in Workloads : DeliveredBy[w] = Sizes[w]
  BY <1>3, DeliveredTyped
<1>5. DeliveredBy = Sizes
  BY <1>4 DEF Sizes
<1>6. PICK p : AreSums(p, Sizes, N) /\ Total(Sizes) = p[N]
  BY <1>1, <1>4, <1>5, TotalIsSum
<1>7. Len(AllAccesses) = p[N]
  BY <1>1, <1>6, AllPositions
<1>8. p[N] \in Nat
  BY <1>1, <1>6 DEF AreSums
<1> QED
  BY <1>4, <1>5, <1>6, <1>7, <1>8

(* No access has been delivered by any workload. *)
AllUnread == \A w \in Workloads : Unread(w)

(* Before the first access and after a reset, none has been delivered. *)
LEMMA StartPosition == CInv /\ AllUnread => Delivered = 0
<1> SUFFICES ASSUME CInv, AllUnread PROVE Delivered = 0
  OBVIOUS
<1>1. /\ Len(lengths) \in Nat /\ Workloads = 1 .. Len(lengths)
  BY LengthsTyped DEF CInv, CursorsTyped, Workloads
<1>2. /\ Delivered = Total(DeliveredBy) /\ DeliveredBy \in [Workloads -> Nat]
      /\ \A w \in Workloads : DeliveredBy[w] = 0
  BY DeliveredTyped DEF AllUnread
<1> QED
  BY <1>1, <1>2, TotalOfZeros

(* The composition promises what one workload promises, *)
LEMMA InitIsStream == CursorInit => Stream!Init
<1> SUFFICES ASSUME CursorInit PROVE Stream!Init
  OBVIOUS
<1>1. CInv
  BY InitCursors
<1>2. AllUnread
  BY DEF CursorInit, Unread, AllUnread
<1> QED
  BY <1>1, <1>2, StartPosition DEF CursorInit, Stream!Init, NoAnswer

(* The accesses are the same in every state. *)
LEMMA AccessesStay == lengths' = lengths => AllAccesses' = AllAccesses
BY DEF AllAccesses, Workloads, Segments, SegmentAccesses

(* and every call of it is a call of the stream's. *)
LEMMA NextIsStream == CInv /\ CInv' /\ [CursorNext]_cursorVars => [Stream!Next]_Stream!vars
<1> SUFFICES ASSUME CInv, CInv', [CursorNext]_cursorVars PROVE [Stream!Next]_Stream!vars
  OBVIOUS
<1> DEFINE g == FirstWorkloadLeft
           f == FirstSegmentLeft(g)
<1>1. /\ g \in Workloads => /\ Delivered \in Nat /\ Len(AllAccesses) \in Nat
                            /\ Delivered < Len(AllAccesses)
                            /\ AllAccesses[Delivered + 1]
                                 = [workload |-> g, segment |-> f, index |-> nextIndex[g][f]]
      /\ g \notin Workloads => Delivered \in Nat /\ Delivered = Len(AllAccesses)
  BY NextPosition, EndPosition
<1>2. lengths' = lengths
  BY DEF CursorNext, HasNext, NextAccess, NextAccessThrows, Reset, cursorVars
<1>3. AllAccesses' = AllAccesses
  BY <1>2, AccessesStay
<1>4. UNCHANGED nextIndex => Delivered' = Delivered
  <2>1. (Delivered = Total(DeliveredBy)) /\ (Delivered = Total(DeliveredBy))'
    BY DeliveredIsTotal, PTL
  <2>2. UNCHANGED nextIndex => DeliveredBy' = DeliveredBy
    BY <1>2 DEF DeliveredBy, Workloads
  <2> QED
    BY <2>1, <2>2
<1>5. CASE HasNext
  <2>1. answer' = <<"hasNext", g \in Workloads>> /\ UNCHANGED nextIndex
    BY <1>5 DEF HasNext, Told
  <2> HIDE DEF g, f
  <2>2. (g \in Workloads) <=> (Delivered < Len(AllAccesses))
    BY <1>1
  <2>3. (g \in Workloads) = (Delivered < Len(AllAccesses))
    BY <2>2
  <2>4. answer' = <<"hasNext", Delivered < Len(AllAccesses)>>
    BY <2>1, <2>3
  <2>5. Stream!HasNext
    BY <1>3, <1>4, <2>1, <2>4 DEF Stream!HasNext
  <2> QED
    BY <2>5 DEF Stream!Next
<1>6. CASE NextAccess
  <2>1. /\ g \in Workloads
        /\ nextIndex' = [nextIndex EXCEPT ![g][f] = @ + 1]
        /\ answer' = <<"access", [workload |-> g, segment |-> f, index |-> nextIndex[g][f]]>>
    BY <1>6 DEF NextAccess, Given
  <2>2. f \in Segments(g)
    BY <2>1, FirstWorkload, FirstSegment
  <2> HIDE DEF g, f
  <2>3. /\ DOMAIN nextIndex = Workloads
        /\ Segments(g) = 1 .. Len(lengths[g]) /\ Len(lengths[g]) \in Nat
        /\ nextIndex[g] \in [1 .. Len(lengths[g]) -> Nat]
        /\ Workloads = 1 .. Len(lengths) /\ Len(lengths) \in Nat
    BY <2>1, LengthsTyped DEF CInv, CursorsTyped, Segments, Workloads
  <2>4. /\ nextIndex'[g] = [nextIndex[g] EXCEPT ![f] = nextIndex[g][f] + 1]
        /\ \A w \in Workloads : w # g => nextIndex'[w] = nextIndex[w]
    BY <2>1, <2>3
  <2>5. Total(nextIndex'[g]) = Total(nextIndex[g]) + 1
    <3> DEFINE c == nextIndex[g]
               n == Len(lengths[g])
    <3>1. n \in Nat /\ c \in [1 .. n -> Nat] /\ f \in 1 .. n
      BY <2>2, <2>3
    <3>2. nextIndex'[g] = [c EXCEPT ![f] = c[f] + 1]
      BY <2>4
    <3> HIDE DEF c, n
    <3>3. Total(nextIndex'[g]) = Total(c) + 1
      BY <3>1, <3>2, TotalGrows
    <3> QED
      BY <3>3 DEF c
  <2>6. /\ Delivered = Total(DeliveredBy) /\ DeliveredBy \in [Workloads -> Nat]
        /\ \A w \in Workloads : DeliveredBy[w] = Total(nextIndex[w])
    BY DeliveredTyped
  <2>7. Delivered' = Total([w \in Workloads |-> Total(nextIndex'[w])])
    <3>1. (Delivered = Total(DeliveredBy))'
      BY DeliveredIsTotal, PTL
    <3>2. DeliveredBy' = [w \in Workloads |-> Total(nextIndex'[w])]
      BY <1>2 DEF DeliveredBy, Workloads
    <3> QED
      BY <3>1, <3>2
  <2>8. [w \in Workloads |-> Total(nextIndex'[w])]
          = [DeliveredBy EXCEPT ![g] = DeliveredBy[g] + 1]
    <3> DEFINE d == [w \in Workloads |-> Total(nextIndex'[w])]
               e == [DeliveredBy EXCEPT ![g] = DeliveredBy[g] + 1]
    <3>1. \A w \in Workloads : d[w] = Total(nextIndex'[w])
      OBVIOUS
    <3>2. \A w \in Workloads : e[w] = IF w = g THEN DeliveredBy[g] + 1 ELSE DeliveredBy[w]
      BY <2>6
    <3>3. d = [w \in Workloads |-> d[w]] /\ e = [w \in Workloads |-> e[w]]
      BY <2>6
    <3> HIDE DEF d, e
    <3>4. \A w \in Workloads : d[w] = e[w]
      BY <2>1, <2>4, <2>5, <2>6, <3>1, <3>2
    <3>5. d = e
      BY <3>3, <3>4
    <3> QED
      BY <3>5 DEF d, e
  <2>9. Delivered' = Delivered + 1
    <3> DEFINE N == Len(lengths)
    <3>1. N \in Nat /\ g \in 1 .. N /\ DeliveredBy \in [1 .. N -> Nat]
      BY <2>1, <2>3, <2>6
    <3> HIDE DEF N
    <3>2. Total([DeliveredBy EXCEPT ![g] = DeliveredBy[g] + 1]) = Total(DeliveredBy) + 1
      BY <3>1, TotalGrows
    <3> QED
      BY <2>6, <2>7, <2>8, <3>2
  <2>10. Stream!NextAccess
    BY <1>1, <1>3, <2>1, <2>9 DEF Stream!NextAccess
  <2> QED
    BY <2>10 DEF Stream!Next
<1>7. CASE NextAccessThrows
  <2>1. g \notin Workloads /\ answer' = <<"threw">> /\ UNCHANGED nextIndex
    BY <1>7 DEF NextAccessThrows, Threw
  <2> HIDE DEF g, f
  <2>2. Stream!NextAccessThrows
    BY <1>1, <1>3, <1>4, <2>1 DEF Stream!NextAccessThrows
  <2> QED
    BY <2>2 DEF Stream!Next
<1>8. CASE Reset
  <2>1. \A w \in Workloads : Unread(w)'
    BY <1>2, <1>8 DEF Reset, Unread, Segments, Workloads
  <2>2. AllUnread'
    BY <1>2, <2>1 DEF AllUnread, Workloads
  <2>3. CInv'
    OBVIOUS
  <2>4. (Delivered = 0)'
    BY <2>2, <2>3, StartPosition, PTL
  <2>5. Stream!Reset
    BY <1>3, <1>8, <2>4 DEF Reset, NoAnswer, Stream!Reset
  <2> QED
    BY <2>5 DEF Stream!Next
<1>9. CASE UNCHANGED cursorVars
  BY <1>3, <1>4, <1>9 DEF cursorVars, Stream!vars
<1> QED
  BY <1>5, <1>6, <1>7, <1>8, <1>9 DEF CursorNext

(***************************************************************************)
(* The composition of workloads is one stream, for every number of         *)
(* processes and segments: the accesses of all in order, each once, and    *)
(* hasNext() is true exactly while one is left (IsAccessStream).           *)
(***************************************************************************)
THEOREM StreamTheorem == CursorSpec => IsAccessStream
<1> QED
  BY InitCursors, NextCursors, InitIsStream, NextIsStream, PTL
     DEF CursorSpec, IsAccessStream, Stream!Spec
=============================================================================
