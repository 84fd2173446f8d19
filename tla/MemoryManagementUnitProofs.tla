--------------------- MODULE MemoryManagementUnitProofs ---------------------
(***************************************************************************)
(* Type correctness and coherence of the memory management unit, for every *)
(* number of frames, every set of pages and processes, every page size and *)
(* every replacement policy: the proof uses nothing of the policy, only    *)
(* the checks that access() makes on the victim it is given.  A memory may *)
(* have no frames at all.                                                  *)
(*                                                                         *)
(* MappingCoherent is inductive together with TypeOK.  The steps are       *)
(* reduced to PageMappingLemmas: a coherent memory is exact and mutually   *)
(* inverse, and the boundary operations keep it so.                        *)
(*                                                                         *)
(* With clients that call the table, the frames and the Page objects       *)
(* directly, coherence is lost, and what remains is proved from a weaker   *)
(* invariant, DInv: the bookkeeping of the frames stays exact, and only    *)
(* registered pages believe that they are resident.                        *)
(*                                                                         *)
(* With its policy, of every kind: the policy knows exactly the resident   *)
(* pages (PInv), so that a full memory with frames always has a victim,    *)
(* the checks of access() never refuse it, every access to a known page    *)
(* succeeds, and the counters of unit, processes and policy agree.         *)
(***************************************************************************)
EXTENDS MemoryManagementUnit, PageMappingLemmas, ReplacementPolicyLemmas

IInv == TypeOK /\ MappingCoherent

PageRecords == [frame : Frames \cup {NoFrame}, dirty : BOOLEAN, referenced : BOOLEAN]

ProcRecords == [accesses : Nat, faults : Nat]

(* What a registration does to the keys of pages_. *)
LEMMA OwnerAdds ==
  ASSUME owner \in [Pages -> Processes \cup {NoProcess}],
         NEW p \in Pages, NEW pid \in Processes,
         owner' = [owner EXCEPT ![p] = pid]
  PROVE  /\ registered' = registered \cup {p}
         /\ owner' \in [Pages -> Processes \cup {NoProcess}]
         /\ \A q \in Pages : owner'[q] = IF q = p THEN pid ELSE owner[q]
<1>1. owner \in [Pages -> Processes \cup {NoProcess}] /\ pid # NoProcess
  BY ProcessesAssumption
<1>2. \A q \in Pages : owner'[q] = IF q = p THEN pid ELSE owner[q]
  BY <1>1
<1> QED
  BY <1>1, <1>2 DEF registered

(* The same of a unit in its types. *)
LEMMA RegistrationAdds ==
  ASSUME TypeOK, NEW p \in Pages, NEW pid \in Processes,
         owner' = [owner EXCEPT ![p] = pid]
  PROVE  /\ registered' = registered \cup {p}
         /\ owner' \in [Pages -> Processes \cup {NoProcess}]
         /\ \A q \in Pages : owner'[q] = IF q = p THEN pid ELSE owner[q]
BY OwnerAdds DEF TypeOK

(* Coherence as facts the lemmas of PageMapping apply to. *)
LEMMA CoherentMemory ==
  ASSUME IInv
  PROVE  /\ Exact(mem) /\ MutuallyInverse(mem) /\ mem \in Memory
         /\ \A p \in Pages : pages[p].frame = NoFrame <=> ~IsMapped(mem, p)
<1>1. mem \in Memory /\ MutuallyInverse(mem)
  BY DEF IInv, TypeOK, MappingCoherent
<1>2. ASSUME NEW f \in Frames, NEW g \in Frames,
             mem.frames[f] = mem.frames[g], IsOccupied(mem, f)
      PROVE  f = g
  <2>1. mem.frames[f] \in Pages /\ f \in FrameIds /\ g \in FrameIds
    BY <1>1, <1>2, MemoryFields, NumFramesAssumption DEF IsOccupied, Frames, FrameIds
  <2> QED
    BY <1>1, <1>2, <2>1 DEF MutuallyInverse
<1> QED
  BY <1>1, <1>2 DEF IInv, MappingCoherent, Exact, IsMapped

(* A known page is a registered page of the process. *)
LEMMA KnownPage ==
  ASSUME TypeOK, NEW pid \in Processes, NEW a \in Addresses, Known(pid, a)
  PROVE  Resolve(pid, a) \in Pages /\ Resolve(pid, a) \in registered
BY DEF registered, Known

(***************************************************************************)
(* Steps that leave the memory alone                                       *)
(***************************************************************************)

LEMMA CountingKeepsCounts ==
  ASSUME counts \in Counters, procStats \in [Processes -> ProcRecords], NEW pid \in Processes
  PROVE  /\ CountAccess(pid) => procStats' \in [Processes -> ProcRecords]
         /\ CountFaultOf(pid) => procStats' \in [Processes -> ProcRecords]
         /\ CountFault(pid) => /\ counts' \in Counters
                               /\ procStats' \in [Processes -> ProcRecords]
<1>1. procStats \in [Processes -> ProcRecords] /\ counts \in Counters
  OBVIOUS
<1>2. CountFaultOf(pid) => procStats' \in [Processes -> ProcRecords]
  BY <1>1 DEF CountFaultOf, ProcRecords
<1>3. CountAccess(pid) => procStats' \in [Processes -> ProcRecords]
  <2> SUFFICES ASSUME CountAccess(pid) PROVE procStats' \in [Processes -> ProcRecords]
    OBVIOUS
  <2>1. [procStats[pid] EXCEPT !.accesses = @ + 1] \in ProcRecords
    BY <1>1 DEF ProcRecords
  <2>2. procStats' = [procStats EXCEPT ![pid] = [procStats[pid] EXCEPT !.accesses = @ + 1]]
    BY <1>1 DEF CountAccess
  <2> QED
    BY <1>1, <2>1, <2>2
<1>4. CountFault(pid) => counts' \in Counters
  BY <1>1 DEF CountFault, Counters
<1> QED
  BY <1>2, <1>3, <1>4 DEF CountFault

(* The same of a unit in its types. *)
LEMMA CountingKeepsTypes ==
  ASSUME TypeOK, NEW pid \in Processes
  PROVE  /\ CountAccess(pid) => procStats' \in [Processes -> ProcRecords]
         /\ CountFaultOf(pid) => procStats' \in [Processes -> ProcRecords]
         /\ CountFault(pid) => /\ counts' \in Counters
                               /\ procStats' \in [Processes -> ProcRecords]
BY CountingKeepsCounts DEF TypeOK, ProcRecords

(* What a refused access leaves. *)
LEMMA RefusedKeeps ==
  ASSUME IInv, NEW pid \in Processes, CountAccess(pid) \/ CountFault(pid),
         UNCHANGED <<mem, owner, pages, vmap>>,
         CountAccess(pid) => UNCHANGED counts
  PROVE  IInv'
<1>1. counts' \in Counters /\ procStats' \in [Processes -> ProcRecords]
  BY CountingKeepsTypes DEF IInv, TypeOK
<1>2. TypeOK'
  BY <1>1 DEF IInv, TypeOK, ProcRecords
<1>3. MappingCoherent'
  BY DEF IInv, MappingCoherent, MutuallyInverse, Resident, registered, OccupiedFrames, IsOccupied
<1> QED
  BY <1>2, <1>3 DEF IInv

-----------------------------------------------------------------------------
(* Registration *)

LEMMA RegistrationKeeps ==
  ASSUME IInv, NEW p \in Pages, NEW pid \in Processes, Registrable(p),
         owner' = [owner EXCEPT ![p] = pid],
         pages' = [pages EXCEPT ![p] = AbsentPage],
         vmap' \in [Processes -> [VirtualPages -> Pages \cup {NoPage}]],
         UNCHANGED <<mem, counts, procStats>>
  PROVE  IInv'
<1>1. AbsentPage \in PageRecords
  BY DEF AbsentPage, PageRecords
<1>2. /\ owner' \in [Pages -> Processes \cup {NoProcess}]
      /\ registered' = registered \cup {p}
  BY RegistrationAdds DEF IInv
<1>3. TypeOK'
  BY <1>1, <1>2 DEF IInv, TypeOK, PageRecords
<1>4. mem.table[p] = NoFrame
  BY DEF Registrable, IsMapped
<1>5. \A q \in Pages : pages'[q] = IF q = p THEN AbsentPage ELSE pages[q]
  BY DEF IInv, TypeOK
<1>6. /\ \A q \in Pages : pages'[q].frame = mem.table[q]
      /\ \A q \in Pages : mem.table[q] = NoFrame => pages'[q] = AbsentPage
      /\ Resident' \subseteq registered'
  BY <1>2, <1>4, <1>5 DEF IInv, MappingCoherent, AbsentPage, Resident
<1>7. MappingCoherent'
  BY <1>6 DEF IInv, MappingCoherent, MutuallyInverse, OccupiedFrames, IsOccupied
<1> QED
  BY <1>3, <1>7 DEF IInv

(* Registering a page at its own number touches neither the mapping nor the
   frames. *)
LEMMA RegisterKeeps ==
  ASSUME IInv, NEW p \in Pages \cap VirtualPages, NEW pid \in Processes,
         RegisterPage(p, pid)
  PROVE  IInv'
<1>1. vmap \in [Processes -> [VirtualPages -> Pages \cup {NoPage}]]
  BY DEF IInv, TypeOK
<1>2. vmap' \in [Processes -> [VirtualPages -> Pages \cup {NoPage}]]
  BY <1>1 DEF RegisterPage
<1> QED
  BY <1>2, RegistrationKeeps DEF RegisterPage, statistics

(* Nor does registering a page at a chosen virtual number. *)
LEMMA RegisterAtKeeps ==
  ASSUME IInv, NEW p \in Pages, NEW v \in VirtualPages, NEW pid \in Processes,
         RegisterPageAt(p, v, pid)
  PROVE  IInv'
<1>1. vmap \in [Processes -> [VirtualPages -> Pages \cup {NoPage}]]
  BY DEF IInv, TypeOK
<1>2. vmap' \in [Processes -> [VirtualPages -> Pages \cup {NoPage}]]
  BY <1>1 DEF RegisterPageAt
<1> QED
  BY <1>2, RegistrationKeeps DEF RegisterPageAt, statistics

-----------------------------------------------------------------------------
(* Accesses that succeed *)

LEMMA TouchedType ==
  ASSUME TypeOK, NEW p \in Pages, NEW f \in Frames, NEW write \in BOOLEAN
  PROVE  /\ Touched(pages[p], f, write) \in PageRecords
         /\ Touched(pages[p], f, write).frame = f
         /\ [pages EXCEPT ![p] = Touched(@, f, write)] \in [Pages -> PageRecords]
         /\ \A q \in Pages :
              [pages EXCEPT ![p] = Touched(@, f, write)][q] =
                IF q = p THEN Touched(pages[p], f, write) ELSE pages[q]
<1>1. pages \in [Pages -> PageRecords]
  BY DEF TypeOK, PageRecords
<1>2. /\ Touched(pages[p], f, write) \in PageRecords
      /\ Touched(pages[p], f, write).frame = f
  BY <1>1 DEF Touched, PageRecords
<1> QED
  BY <1>1, <1>2

(* A hit changes no mapping; it only touches the page and counts. *)
LEMMA ResidentAccessKeeps ==
  ASSUME IInv, NEW pid \in Processes, NEW p \in registered, NEW a, NEW write \in BOOLEAN,
         AccessResident(pid, p, a, write)
  PROVE  IInv'
<1> DEFINE f == mem.table[p]
<1>1. p \in Pages
  BY DEF registered
<1>2. f \in Frames
  BY <1>1, CoherentMemory, InverseConsistent DEF AccessResident, OccupiedFrames
<1>3. /\ pages' = [pages EXCEPT ![p] = Touched(@, f, write)]
      /\ UNCHANGED <<mem, owner, vmap, counts>>
      /\ CountAccess(pid)
  BY DEF AccessResident
<1>4. TypeOK'
  BY <1>1, <1>2, <1>3, TouchedType, CountingKeepsTypes
     DEF IInv, TypeOK, PageRecords, ProcRecords
<1>5. \A q \in Pages : pages'[q].frame = pages[q].frame /\ (q # p => pages'[q] = pages[q])
  BY <1>1, <1>2, <1>3, TouchedType DEF IInv, MappingCoherent
<1>6. f # NoFrame
  BY DEF AccessResident, IsMapped
<1>7. MappingCoherent'
  <2>1. \A q \in Pages : mem'.table[q] = NoFrame => pages'[q] = AbsentPage
    BY <1>3, <1>5, <1>6 DEF IInv, MappingCoherent
  <2>2. Resident' \subseteq registered'
    BY <1>3, <1>5 DEF IInv, MappingCoherent, Resident, registered
  <2> QED
    BY <1>3, <1>5, <2>1, <2>2
       DEF IInv, MappingCoherent, MutuallyInverse, OccupiedFrames, IsOccupied
<1> QED
  BY <1>4, <1>7 DEF IInv

(* A fault served from a free frame maps one page to one frame on both
   sides. *)
LEMMA FreeFrameKeeps ==
  ASSUME IInv, NEW pid \in Processes, NEW p \in registered, NEW a, NEW write \in BOOLEAN,
         FaultWithFreeFrame(pid, p, a, write)
  PROVE  IInv'
<1> DEFINE n == MapPage(mem, p)
           f == n.table[p]
<1>1. p \in Pages
  BY DEF registered
<1>2. Exact(mem) /\ MutuallyInverse(mem) /\ mem \in Memory
  BY CoherentMemory
<1>3. CanMapPage(mem, p)
  BY <1>2, FullIffAllOccupied DEF FaultWithFreeFrame, Faulting, CanMapPage
<1>4. /\ f \in Frames
      /\ Exact(n) /\ MutuallyInverse(n)
      /\ n.table = [mem.table EXCEPT ![p] = f]
  <2> DEFINE g == Min(FreeFrames(mem))
  <2>1. /\ g \in Frames
        /\ Exact(n) /\ MutuallyInverse(n)
        /\ n.table = [mem.table EXCEPT ![p] = g]
    BY <1>1, <1>2, <1>3, MapPageEffect, MapPageInverse
  <2> HIDE DEF n, g
  <2>2. n.table[p] = g
    BY <1>1, <1>2, <2>1, MemoryFields
  <2> QED
    BY <2>1, <2>2
<1>5. f # NoFrame
  BY <1>4, NoFrameAssumption, NumFramesAssumption DEF Frames, FrameIds
<1>6. /\ mem' = n
      /\ pages' = [pages EXCEPT ![p] = Touched(@, f, write)]
      /\ UNCHANGED <<owner, vmap>>
      /\ CountFault(pid)
  BY DEF FaultWithFreeFrame
<1> HIDE DEF n
<1>7. TypeOK'
  BY <1>1, <1>4, <1>6, TouchedType, CountingKeepsTypes
     DEF IInv, TypeOK, PageRecords, ProcRecords, Exact
<1>8. \A q \in Pages : /\ pages'[q] = IF q = p THEN Touched(pages[p], f, write) ELSE pages[q]
                       /\ n.table[q] = IF q = p THEN f ELSE mem.table[q]
  BY <1>1, <1>2, <1>4, <1>6, TouchedType, MemoryFields DEF IInv
<1>9. /\ \A q \in Pages : pages'[q].frame = n.table[q]
      /\ \A q \in Pages : n.table[q] = NoFrame => pages'[q] = AbsentPage
      /\ Resident' \subseteq registered'
  BY <1>4, <1>5, <1>6, <1>8, TouchedType DEF IInv, MappingCoherent, Resident, registered
<1>10. MappingCoherent'
  BY <1>4, <1>6, <1>9 DEF MappingCoherent, Exact
<1> QED
  BY <1>7, <1>10 DEF IInv

(* A replacement takes the victim off both maps before it puts the page on
   them, so every frame stays mapped once. *)
LEMMA ReplacementKeeps ==
  ASSUME IInv, NEW pid \in Processes, NEW p \in registered, NEW a, NEW write \in BOOLEAN,
         FaultWithReplacement(pid, p, a, write)
  PROVE  IInv'
<1> DEFINE f == Victim(pol)
           v == mem.frames[f]
           n == MapPage(ReleaseFrame(mem, f), p)
<1>1. p \in Pages
  BY DEF registered
<1>2. Exact(mem) /\ MutuallyInverse(mem) /\ mem \in Memory
  BY CoherentMemory
<1>3. /\ f \in OccupiedFrames(mem) /\ v \in registered /\ v \in Pages
      /\ pages[v].frame = f /\ IsMappingConsistent(mem, v)
      /\ ~IsMapped(mem, p) /\ ~IsPageMapped(mem, p) /\ ~HasFreeFrame(mem)
  BY DEF FaultWithReplacement, Evictable, Faulting, registered
<1>4. CanReleaseFrame(mem, f)
  BY <1>3 DEF CanReleaseFrame, IInv, MappingCoherent
<1>5. /\ mem' = n
      /\ pages' = [pages EXCEPT ![v] = AbsentPage, ![p] = Touched(@, f, write)]
      /\ counts' = [faults         |-> counts.faults + 1,
                    replacements   |-> counts.replacements + 1,
                    dirtyEvictions |-> counts.dirtyEvictions
                                         + IF pages[v].dirty THEN 1 ELSE 0]
      /\ CountFaultOf(pid)
      /\ UNCHANGED <<owner, vmap>>
  BY DEF FaultWithReplacement
<1> HIDE DEF f
<1>6. /\ f \in Frames /\ v # p
      /\ Exact(n) /\ MutuallyInverse(n)
      /\ \A q \in Pages : n.table[q] = IF q = p THEN f
                                       ELSE IF q = v THEN NoFrame
                                       ELSE mem.table[q]
  BY <1>1, <1>2, <1>3, <1>4, ReplacementMemory
<1> HIDE DEF n, v
<1>7. f # NoFrame /\ AbsentPage \in PageRecords /\ pages \in [Pages -> PageRecords]
  BY <1>6, NoFrameAssumption, NumFramesAssumption
     DEF Frames, FrameIds, AbsentPage, PageRecords, IInv, TypeOK
<1>8. \A q \in Pages : pages'[q] = IF q = p THEN Touched(pages[p], f, write)
                                   ELSE IF q = v THEN AbsentPage
                                   ELSE pages[q]
  BY <1>1, <1>3, <1>5, <1>6, <1>7
<1>9. /\ Touched(pages[p], f, write) \in PageRecords
      /\ Touched(pages[p], f, write).frame = f
  BY <1>1, <1>6, TouchedType DEF IInv
<1>10. pages' \in [Pages -> PageRecords]
  <2>1. pages' = [q \in Pages |-> pages'[q]]
    BY <1>1, <1>3, <1>5, <1>7
  <2>2. \A q \in Pages : pages'[q] \in PageRecords
    BY <1>7, <1>8, <1>9
  <2> QED
    BY <2>1, <2>2
<1>11. counts' \in Counters
  BY <1>5 DEF IInv, TypeOK, Counters
<1>12. TypeOK'
  BY <1>5, <1>6, <1>10, <1>11, CountingKeepsTypes
     DEF IInv, TypeOK, PageRecords, ProcRecords, Exact
<1>13. /\ \A q \in Pages : pages'[q].frame = n.table[q]
       /\ \A q \in Pages : n.table[q] = NoFrame => pages'[q] = AbsentPage
       /\ Resident' \subseteq registered'
  BY <1>5, <1>6, <1>7, <1>8, <1>9 DEF IInv, MappingCoherent, Resident, registered, AbsentPage
<1>14. MappingCoherent'
  BY <1>5, <1>6, <1>13 DEF MappingCoherent, Exact
<1> QED
  BY <1>12, <1>14 DEF IInv

(* The invariant survives every outcome of an access, the refused ones
   included. *)
LEMMA AccessKeeps ==
  ASSUME IInv, NEW pid \in Processes, NEW a \in Addresses, NEW write \in BOOLEAN,
         Access(pid, a, write)
  PROVE  IInv'
<1> DEFINE p == Resolve(pid, a)
<1>1. CASE AccessUnknown(pid, a)
  BY <1>1 DEF AccessUnknown, statistics, IInv, TypeOK, MappingCoherent,
              MutuallyInverse, Resident, registered, OccupiedFrames, IsOccupied
<1>2. CASE Known(pid, a) /\ AccessKnown(pid, p, a, write)
  <2>1. p \in registered
    BY <1>2 DEF Known
  <2> HIDE DEF p
  <2>2. CASE AccessResident(pid, p, a, write)
    BY <2>1, <2>2, ResidentAccessKeeps
  <2>3. CASE AccessInconsistent(pid, p) \/ FaultRefused(pid, p)
    BY <2>3, RefusedKeeps DEF AccessInconsistent, FaultRefused
  <2>4. CASE FaultWithoutVictim(pid, p) \/ FaultRefusesVictim(pid, p, a)
    <3>1. CountFault(pid) /\ UNCHANGED <<mem, owner, pages, vmap>>
      BY <2>4 DEF FaultWithoutVictim, FaultRefusesVictim
    <3>2. counts' \in Counters /\ procStats' \in [Processes -> ProcRecords]
      BY <3>1, CountingKeepsTypes DEF IInv
    <3>3. TypeOK'
      BY <3>1, <3>2 DEF IInv, TypeOK, ProcRecords
    <3>4. MappingCoherent'
      BY <3>1 DEF IInv, MappingCoherent, MutuallyInverse, Resident, registered,
                  OccupiedFrames, IsOccupied
    <3> QED
      BY <3>3, <3>4 DEF IInv
  <2>5. CASE FaultWithFreeFrame(pid, p, a, write)
    BY <2>1, <2>5, FreeFrameKeeps
  <2>6. CASE FaultWithReplacement(pid, p, a, write)
    BY <2>1, <2>6, ReplacementKeeps
  <2> QED
    BY <1>2, <2>2, <2>3, <2>4, <2>5, <2>6 DEF AccessKnown, p
<1> QED
  BY <1>1, <1>2 DEF Access

-----------------------------------------------------------------------------
(* Reset *)

(***************************************************************************)
(* Every resident page of a coherent unit is released, so reset() empties  *)
(* both components.                                                        *)
(***************************************************************************)
LEMMA ResetEmpties ==
  ASSUME IInv, Reset
  PROVE  /\ mem' = EmptyMemory
         /\ pages' = [p \in Pages |-> AbsentPage]
<1>1. Exact(mem) /\ MutuallyInverse(mem) /\ mem \in Memory
  BY CoherentMemory
<1>2. ASSUME NEW p \in Resident
      PROVE  /\ p \in Pages /\ p \in Releasable /\ Holder(p) = p
             /\ pages[p].frame \in OccupiedFrames(mem)
  <2>1. p \in Pages /\ p \in registered /\ pages[p].frame = mem.table[p]
        /\ IsMapped(mem, p) /\ pages[p].frame # NoFrame
    BY CoherentMemory DEF IInv, MappingCoherent, Resident
  <2> QED
    BY <1>1, <2>1, InverseConsistent DEF Releasable, Holder
<1>3. Releasable = Resident
  BY <1>2 DEF Releasable, Resident, registered
<1>4. PICK R \in SUBSET Releasable :
        /\ mem' = MemoryWithout(R)
        /\ pages' = [p \in Pages |-> IF p \in R THEN AbsentPage ELSE pages[p]]
        /\ \E turn \in Turns : IsReleased(turn, R)
  BY DEF Reset, Releases
<1>5. R = Resident
  <2>1. PICK turn \in Turns : IsReleased(turn, R)
    BY <1>4
  <2>2. ASSUME NEW p \in Resident, p \notin R PROVE FALSE
    <3>1. PICK q \in R : Holder(q) \in {p, Holder(p)}
      BY <1>3, <2>1, <2>2 DEF IsReleased
    <3> QED
      BY <1>2, <1>3, <1>4, <2>2, <3>1
  <2> QED
    BY <1>3, <1>4, <2>2
<1>6. ReleasedFrames(R) = OccupiedFrames(mem)
  <2>1. ASSUME NEW f \in OccupiedFrames(mem)
        PROVE  \E p \in Resident : pages[p].frame = f
    <3>1. f \in FrameIds /\ f \in Frames /\ mem.frames[f] \in Pages
      BY <1>1, HeldPage, NumFramesAssumption DEF Frames, FrameIds
    <3>2. mem.table[mem.frames[f]] = f
      BY <1>1, <3>1 DEF MutuallyInverse
    <3> QED
      BY <3>1, <3>2, NoFrameAssumption DEF Resident, IInv, MappingCoherent
  <2> QED
    BY <1>2, <1>5, <2>1 DEF ReleasedFrames
<1>7. mem.allocated - Cardinality(ReleasedFrames(R)) = 0
  BY <1>1, <1>6, FullIffAllOccupied DEF Exact
<1>8. [f \in Frames |-> IF f \in ReleasedFrames(R) THEN NoPage ELSE mem.frames[f]]
        = [f \in Frames |-> NoPage]
  BY <1>6 DEF OccupiedFrames, IsOccupied
<1>9. [p \in Pages |-> IF \E q \in R : Holder(q) = p THEN NoFrame ELSE mem.table[p]]
        = [p \in Pages |-> NoFrame]
  <2>1. ASSUME NEW p \in Pages, ~\E q \in R : Holder(q) = p PROVE mem.table[p] = NoFrame
    BY <1>2, <1>5, <2>1 DEF Resident, IInv, MappingCoherent
  <2> QED
    BY <2>1
<1>10. [p \in Pages |-> IF p \in R THEN AbsentPage ELSE pages[p]]
         = [p \in Pages |-> AbsentPage]
  BY <1>5 DEF Resident, IInv, MappingCoherent
<1> QED
  BY <1>4, <1>7, <1>8, <1>9, <1>10 DEF MemoryWithout, EmptyMemory

(* The state that the constructor and reset() both leave: no mapping, every
   page absent. *)
LEMMA EmptyCoherent ==
  ASSUME mem = EmptyMemory, pages = [p \in Pages |-> AbsentPage],
         owner \in [Pages -> Processes \cup {NoProcess}],
         vmap \in [Processes -> [VirtualPages -> Pages \cup {NoPage}]],
         counts = NoCounts, procStats = NoProcStats
  PROVE  IInv
<1>1. mem \in Memory /\ OccupiedFrames(mem) = {}
  BY DEF EmptyMemory, Memory, OccupiedFrames, IsOccupied
<1>2. Cardinality(OccupiedFrames(mem)) = 0
  BY <1>1, FS_EmptySet
<1>3. TypeOK
  BY <1>1 DEF TypeOK, AbsentPage, Counters, NoCounts, NoProcStats
<1>4. MutuallyInverse(mem)
  BY NoFrameAssumption, PagesAssumption DEF MutuallyInverse, EmptyMemory
<1>5. MappingCoherent
  BY <1>1, <1>2, <1>4 DEF MappingCoherent, EmptyMemory, AbsentPage, Resident
<1> QED
  BY <1>3, <1>5 DEF IInv

(* A new unit satisfies the invariant. *)
LEMMA InitCoherent == Init => IInv
<1> SUFFICES ASSUME Init PROVE IInv
  OBVIOUS
<1>1. /\ vmap \in [Processes -> [VirtualPages -> Pages \cup {NoPage}]]
      /\ owner \in [Pages -> Processes \cup {NoProcess}]
  BY DEF Init
<1> QED
  BY <1>1, EmptyCoherent DEF Init

(* So does a unit after reset(), whatever it did before. *)
LEMMA ResetKeeps ==
  ASSUME IInv, Reset
  PROVE  IInv'
<1>1. /\ mem' = EmptyMemory
      /\ pages' = [p \in Pages |-> AbsentPage]
      /\ owner' \in [Pages -> Processes \cup {NoProcess}]
      /\ vmap' \in [Processes -> [VirtualPages -> Pages \cup {NoPage}]]
      /\ counts' = NoCounts /\ procStats' = NoProcStats
  BY ResetEmpties DEF Reset, IInv, TypeOK
<1>2. mem' \in Memory /\ OccupiedFrames(mem') = {}
  BY <1>1 DEF EmptyMemory, Memory, OccupiedFrames, IsOccupied
<1>3. Cardinality(OccupiedFrames(mem')) = 0
  BY <1>2, FS_EmptySet
<1>4. TypeOK'
  BY <1>1, <1>2 DEF TypeOK, AbsentPage, Counters, NoCounts, NoProcStats
<1>5. MutuallyInverse(mem')
  BY <1>1, NoFrameAssumption, PagesAssumption DEF MutuallyInverse, EmptyMemory
<1>6. MappingCoherent'
  BY <1>1, <1>2, <1>3, <1>5 DEF MappingCoherent, EmptyMemory, AbsentPage, Resident
<1> QED
  BY <1>4, <1>6 DEF IInv

(* Every step of the unit keeps the invariant. *)
LEMMA NextCoherent == IInv /\ [Next]_vars => IInv'
<1> SUFFICES ASSUME IInv, [Next]_vars PROVE IInv'
  OBVIOUS
<1>1. ASSUME NEW r \in IdRegistrations, RegisterPage(r[1], r[2]) PROVE IInv'
  <2>1. r[1] \in Pages \cap VirtualPages /\ r[2] \in Processes
    BY VirtualPagesAssumption
  <2> QED
    BY <1>1, <2>1, RegisterKeeps
<1>2. ASSUME NEW r \in VpnRegistrations, RegisterPageAt(r[1], r[2], r[3]) PROVE IInv'
  <2>1. r[1] \in Pages /\ r[2] \in VirtualPages /\ r[3] \in Processes
    BY VirtualPagesAssumption
  <2> QED
    BY <1>2, <2>1, RegisterAtKeeps
<1>3. ASSUME NEW pid \in Processes, NEW a \in Addresses, NEW write \in BOOLEAN,
             Access(pid, a, write)
      PROVE  IInv'
  BY <1>3, AccessKeeps
<1>4. CASE (\E references \in References : SupplyReferences(references)) \/ UNCHANGED vars
  <2>1. UNCHANGED <<mem, owner, pages, vmap, counts, procStats>>
    BY <1>4 DEF SupplyReferences, vars, statistics
  <2>2. TypeOK' /\ MappingCoherent'
    BY <2>1 DEF IInv, TypeOK, MappingCoherent, MutuallyInverse, Resident,
                registered, OccupiedFrames, IsOccupied
  <2> QED
    BY <2>2 DEF IInv
<1>5. CASE Reset
  BY <1>5, ResetKeeps
<1> QED
  BY <1>1, <1>2, <1>3, <1>4, <1>5 DEF Next

(***************************************************************************)
(* The variables keep their types whatever sequence of calls is made.      *)
(***************************************************************************)
THEOREM TypeTheorem == Spec => []TypeOK
<1>1. IInv => TypeOK
  BY DEF IInv
<1> QED
  BY InitCoherent, NextCoherent, <1>1, PTL DEF Spec

(***************************************************************************)
(* The page table, the frames and the Page objects agree after every call. *)
(***************************************************************************)
THEOREM CoherenceTheorem == Spec => []MappingCoherent
<1>1. IInv => MappingCoherent
  BY DEF IInv
<1> QED
  BY InitCoherent, NextCoherent, <1>1, PTL DEF Spec

-----------------------------------------------------------------------------
(* Address spaces *)

(* A page enters the virtual-page mappings when it is registered, and only *)
(* under its own process.                                                  *)
LEMMA MappingAdded ==
  ASSUME TypeOK, AddressSpacesDisjoint,
         NEW p \in Pages, p \notin registered, NEW pid \in Processes,
         owner' = [owner EXCEPT ![p] = pid],
         NEW v \in VirtualPages,
         vmap' = [vmap EXCEPT ![pid][v] = p]
  PROVE  AddressSpacesDisjoint'
<1>1. p # NoPage
  BY PagesAssumption
<1>2. \A other \in Processes, w \in VirtualPages :
        vmap'[other][w] = IF other = pid /\ w = v THEN p ELSE vmap[other][w]
  BY DEF TypeOK
<1>3. \A other \in Processes, w \in VirtualPages : vmap[other][w] # p
  BY <1>1 DEF AddressSpacesDisjoint
<1>4. /\ registered' = registered \cup {p}
      /\ \A q \in Pages : owner'[q] = IF q = p THEN pid ELSE owner[q]
  BY RegistrationAdds
<1>5. ASSUME NEW one \in Processes, NEW other \in Processes,
             NEW v1 \in VirtualPages, NEW v2 \in VirtualPages, vmap'[one][v1] # NoPage
      PROVE  /\ vmap'[one][v1] \in registered'
             /\ owner'[vmap'[one][v1]] = one
             /\ vmap'[one][v1] = vmap'[other][v2] => one = other /\ v1 = v2
  <2>1. CASE one = pid /\ v1 = v
    BY <1>2, <1>3, <1>4, <2>1
  <2>2. CASE ~(one = pid /\ v1 = v)
    <3>1. /\ vmap'[one][v1] = vmap[one][v1]
          /\ vmap[one][v1] # p /\ vmap[one][v1] \in Pages
      BY <1>2, <1>3, <1>5, <2>2 DEF TypeOK
    <3>2. /\ vmap[one][v1] \in registered /\ owner[vmap[one][v1]] = one
          /\ vmap[one][v1] = vmap[other][v2] => one = other /\ v1 = v2
      BY <1>5, <3>1 DEF AddressSpacesDisjoint
    <3> QED
      BY <1>2, <1>4, <3>1, <3>2
  <2> QED
    BY <2>1, <2>2
<1> QED
  BY <1>5 DEF AddressSpacesDisjoint

(* A page that gets no virtual page disturbs none that has one. *)
LEMMA RegisteredUnmapped ==
  ASSUME TypeOK, AddressSpacesDisjoint,
         NEW p \in Pages, p \notin registered, NEW pid \in Processes,
         owner' = [owner EXCEPT ![p] = pid], UNCHANGED vmap
  PROVE  AddressSpacesDisjoint'
<1>1. /\ registered' = registered \cup {p}
      /\ \A q \in Pages : owner'[q] = IF q = p THEN pid ELSE owner[q]
  BY RegistrationAdds
<1>2. \A q \in registered : q \in Pages /\ q # p
  BY DEF registered
<1> QED
  BY <1>1, <1>2 DEF AddressSpacesDisjoint

(* No step lets two processes' address spaces share a page: registration
   asks for the owner first. *)
LEMMA NextDisjoint == IInv /\ AddressSpacesDisjoint /\ [Next]_vars => AddressSpacesDisjoint'
<1> SUFFICES ASSUME TypeOK, AddressSpacesDisjoint, [Next]_vars
             PROVE  AddressSpacesDisjoint'
  BY DEF IInv
<1>1. ASSUME NEW r \in IdRegistrations, RegisterPage(r[1], r[2])
      PROVE  AddressSpacesDisjoint'
  <2> DEFINE p == r[1]
             pid == r[2]
  <2>1. p \in Pages /\ p \in VirtualPages /\ pid \in Processes
    BY VirtualPagesAssumption
  <2>2. /\ p \notin registered /\ owner' = [owner EXCEPT ![p] = pid]
        /\ vmap' = [vmap EXCEPT ![pid][p] = IF vmap[pid][p] = NoPage THEN p ELSE vmap[pid][p]]
    BY <1>1 DEF RegisterPage, Registrable
  <2> HIDE DEF p, pid
  <2>3. CASE vmap[pid][p] = NoPage
    BY <2>1, <2>2, <2>3, MappingAdded
  <2>4. CASE vmap[pid][p] # NoPage
    <3>1. vmap' = vmap
      BY <2>1, <2>2, <2>4 DEF TypeOK
    <3> QED
      BY <2>1, <2>2, <3>1, RegisteredUnmapped
  <2> QED
    BY <2>3, <2>4
<1>2. ASSUME NEW r \in VpnRegistrations, RegisterPageAt(r[1], r[2], r[3])
      PROVE  AddressSpacesDisjoint'
  <2>1. r[1] \in Pages /\ r[2] \in VirtualPages /\ r[3] \in Processes
    BY VirtualPagesAssumption
  <2> QED
    BY <1>2, <2>1, MappingAdded DEF RegisterPageAt, Registrable
<1>3. ASSUME NEW pid \in Processes, NEW a \in Addresses, NEW write \in BOOLEAN,
             Access(pid, a, write)
      PROVE  UNCHANGED <<owner, vmap>>
  BY <1>3 DEF Access, AccessUnknown, AccessKnown, AccessResident, AccessInconsistent,
              FaultRefused, FaultWithFreeFrame, FaultWithoutVictim,
              FaultRefusesVictim, FaultWithReplacement
<1>4. ASSUME (\E references \in References : SupplyReferences(references))
             \/ UNCHANGED vars \/ Reset
      PROVE  UNCHANGED <<owner, vmap>>
  BY <1>4 DEF SupplyReferences, vars, Reset
<1>5. CASE UNCHANGED <<owner, vmap>>
  BY <1>5 DEF AddressSpacesDisjoint, registered
<1> QED
  BY <1>1, <1>2, <1>3, <1>4, <1>5 DEF Next

(***************************************************************************)
(* The ownership check of access() never refuses: the virtual pages of a   *)
(* process lead to its own pages, one virtual page to each at most.        *)
(***************************************************************************)
THEOREM AddressSpacesTheorem == Spec => []AddressSpacesDisjoint
<1>1. Init => AddressSpacesDisjoint
  BY DEF Init, AddressSpacesDisjoint
<1> QED
  BY <1>1, InitCoherent, NextCoherent, NextDisjoint, PTL DEF Spec

-----------------------------------------------------------------------------
(***************************************************************************)
(* Direct clients                                                          *)
(*                                                                         *)
(* Once clients change the page table, physical memory and the Page        *)
(* objects behind the unit's back, nothing of MappingCoherent is left but  *)
(* this: the frames and their counter are exact, and only registered pages *)
(* are resident.  A Page object may name any frame by then.                *)
(***************************************************************************)
DirectRecords == [frame      : FrameIds \cup {NoFrame},
                  dirty      : BOOLEAN,
                  referenced : BOOLEAN]

DirectTypes ==
  /\ pages \in [Pages -> DirectRecords]
  /\ owner \in [Pages -> Processes \cup {NoProcess}]
  /\ vmap \in [Processes -> [VirtualPages -> Pages \cup {NoPage}]]
  /\ counts \in Counters
  /\ procStats \in [Processes -> ProcRecords]

DInv == DirectTypes /\ Exact(mem) /\ Resident \subseteq registered

(* What is left to show of a step that registers no page. *)
LEMMA StepExact ==
  ASSUME DInv,
         Exact(mem'), pages' \in [Pages -> DirectRecords],
         Resident' \subseteq registered,
         UNCHANGED <<owner, vmap>>,
         counts' \in Counters, procStats' \in [Processes -> ProcRecords]
  PROVE  DInv'
<1>1. Exact(mem)'
  BY DEF Exact, IsOccupied, OccupiedFrames
<1>2. DirectTypes'
  BY DEF DInv, DirectTypes
<1>3. (Resident \subseteq registered)'
  BY DEF registered
<1> QED
  BY <1>1, <1>2, <1>3 DEF DInv

(* A step that changes none of what DInv is about. *)
LEMMA NothingExact ==
  ASSUME DInv, UNCHANGED <<mem, owner, pages, vmap>>,
         counts' \in Counters, procStats' \in [Processes -> ProcRecords]
  PROVE  DInv'
<1>1. Exact(mem') /\ Resident' = Resident
  BY DEF DInv, Resident
<1> QED
  BY <1>1, StepExact DEF DInv, DirectTypes

(* A Page object's frame changes to a frame, or to none. *)
LEMMA DirectTouched ==
  ASSUME DInv, NEW p \in registered, NEW f \in Frames, NEW write \in BOOLEAN
  PROVE  /\ p \in Pages
         /\ Touched(pages[p], f, write) \in DirectRecords
         /\ Touched(pages[p], f, write).frame = f
         /\ [pages EXCEPT ![p] = Touched(@, f, write)] \in [Pages -> DirectRecords]
         /\ \A q \in Pages :
              [pages EXCEPT ![p] = Touched(@, f, write)][q] =
                IF q = p THEN Touched(pages[p], f, write) ELSE pages[q]
<1>1. pages \in [Pages -> DirectRecords] /\ p \in Pages
  BY DEF DInv, DirectTypes, registered
<1>2. f \in FrameIds
  BY NumFramesAssumption DEF Frames, FrameIds
<1>3. /\ Touched(pages[p], f, write) \in DirectRecords
      /\ Touched(pages[p], f, write).frame = f
  BY <1>1, <1>2 DEF Touched, DirectRecords
<1> QED
  BY <1>1, <1>3

(* A coherent unit is in order for direct clients. *)
LEMMA CoherentExact == IInv => DInv
<1> SUFFICES ASSUME IInv PROVE DInv
  OBVIOUS
<1>1. Frames \subseteq FrameIds
  BY NumFramesAssumption DEF Frames, FrameIds
<1>2. DirectTypes
  BY <1>1 DEF IInv, TypeOK, DirectTypes, DirectRecords, ProcRecords
<1> QED
  BY <1>2, CoherentMemory DEF IInv, MappingCoherent, DInv

(* So is a new one. *)
LEMMA InitExact == Init => DInv
BY InitCoherent, CoherentExact

(* A page that is registered is not resident. *)
LEMMA RegistrationExact ==
  ASSUME DInv, NEW p \in Pages, NEW pid \in Processes,
         owner' = [owner EXCEPT ![p] = pid],
         pages' = [pages EXCEPT ![p] = AbsentPage],
         vmap' \in [Processes -> [VirtualPages -> Pages \cup {NoPage}]],
         UNCHANGED <<mem, counts, procStats>>
  PROVE  DInv'
<1>1. AbsentPage \in DirectRecords /\ AbsentPage.frame = NoFrame
  BY DEF AbsentPage, DirectRecords
<1>2. owner' \in [Pages -> Processes \cup {NoProcess}] /\ registered' = registered \cup {p}
  BY OwnerAdds DEF DInv, DirectTypes
<1>3. pages \in [Pages -> DirectRecords]
  BY DEF DInv, DirectTypes
<1>4. /\ pages' \in [Pages -> DirectRecords]
      /\ \A q \in Pages : pages'[q] = IF q = p THEN AbsentPage ELSE pages[q]
  BY <1>1, <1>3
<1>5. Resident' \subseteq registered'
  BY <1>1, <1>2, <1>4 DEF DInv, Resident
<1>6. Exact(mem)'
  BY DEF DInv, Exact, IsOccupied, OccupiedFrames
<1>7. DirectTypes'
  BY <1>2, <1>4 DEF DInv, DirectTypes
<1> QED
  BY <1>5, <1>6, <1>7 DEF DInv

(* A hit touches the Page object of a registered page. *)
LEMMA ResidentAccessExact ==
  ASSUME DInv, NEW pid \in Processes, NEW p \in registered, NEW a, NEW write \in BOOLEAN,
         AccessResident(pid, p, a, write)
  PROVE  DInv'
<1> DEFINE f == mem.table[p]
<1>1. p \in Pages
  BY DEF registered
<1>2. f \in Frames
  BY <1>1, ConsistentFrame DEF AccessResident, DInv
<1>3. /\ pages' = [pages EXCEPT ![p] = Touched(@, f, write)]
      /\ UNCHANGED <<mem, owner, vmap, counts>>
      /\ CountAccess(pid)
  BY DEF AccessResident
<1> HIDE DEF f
<1>4. /\ pages' \in [Pages -> DirectRecords]
      /\ \A q \in Pages : pages'[q] = IF q = p THEN Touched(pages[p], f, write) ELSE pages[q]
  BY <1>2, <1>3, DirectTouched
<1>5. Resident' \subseteq registered
  BY <1>4 DEF DInv, Resident
<1>6. procStats' \in [Processes -> ProcRecords] /\ counts' \in Counters /\ Exact(mem')
  BY <1>3, CountingKeepsCounts DEF DInv, DirectTypes
<1> QED
  BY <1>3, <1>4, <1>5, <1>6, StepExact

(* The page is given a free frame. *)
LEMMA FreeFrameExact ==
  ASSUME DInv, NEW pid \in Processes, NEW p \in registered, NEW a, NEW write \in BOOLEAN,
         FaultWithFreeFrame(pid, p, a, write)
  PROVE  DInv'
<1> DEFINE n == MapPage(mem, p)
           f == n.table[p]
           g == Min(FreeFrames(mem))
<1>1. p \in Pages
  BY DEF registered
<1>2. CanMapPage(mem, p)
  BY FullIffAllOccupied DEF FaultWithFreeFrame, Faulting, CanMapPage, DInv
<1>3. g \in Frames /\ Exact(n) /\ n.table = [mem.table EXCEPT ![p] = g]
  BY <1>1, <1>2, MapPageEffect DEF DInv
<1>4. /\ mem' = n
      /\ pages' = [pages EXCEPT ![p] = Touched(@, f, write)]
      /\ UNCHANGED <<owner, vmap>>
      /\ CountFault(pid)
  BY DEF FaultWithFreeFrame
<1> HIDE DEF n, g
<1>5. f = g
  BY <1>1, <1>3, MemoryFields DEF DInv, Exact
<1> HIDE DEF f
<1>6. /\ pages' \in [Pages -> DirectRecords]
      /\ \A q \in Pages : pages'[q] = IF q = p THEN Touched(pages[p], f, write) ELSE pages[q]
  BY <1>3, <1>4, <1>5, DirectTouched
<1>7. Resident' \subseteq registered
  BY <1>6 DEF DInv, Resident
<1>8. counts' \in Counters /\ procStats' \in [Processes -> ProcRecords]
  BY <1>4, CountingKeepsCounts DEF DInv, DirectTypes
<1> QED
  BY <1>3, <1>4, <1>6, <1>7, <1>8, StepExact

(* The victim access() accepts is in the one frame that holds it. *)
LEMMA EvictableFrame ==
  ASSUME Exact(mem), NEW f, Evictable(f)
  PROVE  /\ mem.frames[f] \in Pages /\ mem.frames[f] \in registered
         /\ pages[mem.frames[f]].frame = f
         /\ IsMappingConsistent(mem, mem.frames[f])
         /\ CanReleaseFrame(mem, f)
<1> DEFINE v == mem.frames[f]
<1>1. /\ f \in OccupiedFrames(mem) /\ f \in Frames
      /\ v \in Pages /\ v \in registered
      /\ pages[v].frame = f /\ IsMappingConsistent(mem, v)
  BY DEF Evictable, registered, OccupiedFrames
<1>2. FrameForPage(mem, v) = f
  BY <1>1, FrameOfPage
<1>3. mem.table[v] = f
  BY <1>1, <1>2 DEF IsMappingConsistent
<1> QED
  BY <1>1, <1>3 DEF CanReleaseFrame

(* The victim's Page object is emptied, and the requested page takes the   *)
(* victim's frame.                                                         *)
LEMMA ReplacementExact ==
  ASSUME DInv, NEW pid \in Processes, NEW p \in registered, NEW a, NEW write \in BOOLEAN,
         FaultWithReplacement(pid, p, a, write)
  PROVE  DInv'
<1> DEFINE f == Victim(pol)
           v == mem.frames[f]
           n == MapPage(ReleaseFrame(mem, f), p)
<1>1. p \in Pages /\ Exact(mem)
  BY DEF registered, DInv
<1>2. Evictable(f) /\ ~HasFreeFrame(mem) /\ ~IsMapped(mem, p) /\ ~IsPageMapped(mem, p)
  BY DEF FaultWithReplacement, Faulting
<1>3. /\ mem' = n
      /\ pages' = [pages EXCEPT ![v] = AbsentPage, ![p] = Touched(@, f, write)]
      /\ counts' = [faults         |-> counts.faults + 1,
                    replacements   |-> counts.replacements + 1,
                    dirtyEvictions |-> counts.dirtyEvictions
                                         + IF pages[v].dirty THEN 1 ELSE 0]
      /\ CountFaultOf(pid)
      /\ UNCHANGED <<owner, vmap>>
  BY DEF FaultWithReplacement
<1> HIDE DEF f
<1>4. v \in Pages /\ CanReleaseFrame(mem, f)
  BY <1>1, <1>2, EvictableFrame
<1>5. f \in Frames /\ v # p /\ Exact(n)
  BY <1>1, <1>2, <1>4, ReplacementMemory
<1> HIDE DEF n, v
<1>6. /\ AbsentPage \in DirectRecords /\ AbsentPage.frame = NoFrame
      /\ pages \in [Pages -> DirectRecords]
  BY DEF AbsentPage, DirectRecords, DInv, DirectTypes
<1>7. Touched(pages[p], f, write) \in DirectRecords
  BY <1>5, DirectTouched
<1>8. \A q \in Pages : pages'[q] = IF q = p THEN Touched(pages[p], f, write)
                                   ELSE IF q = v THEN AbsentPage
                                   ELSE pages[q]
  BY <1>1, <1>3, <1>4, <1>5, <1>6
<1>9. pages' \in [Pages -> DirectRecords]
  <2>1. pages' = [q \in Pages |-> pages'[q]]
    BY <1>1, <1>3, <1>4, <1>6
  <2>2. \A q \in Pages : pages'[q] \in DirectRecords
    BY <1>6, <1>7, <1>8
  <2> QED
    BY <2>1, <2>2
<1>10. Resident' \subseteq registered
  BY <1>6, <1>8 DEF DInv, Resident
<1>11. counts' \in Counters
  BY <1>3 DEF DInv, DirectTypes, Counters
<1>12. procStats' \in [Processes -> ProcRecords]
  BY <1>3, CountingKeepsCounts DEF DInv, DirectTypes
<1> QED
  BY <1>3, <1>5, <1>9, <1>10, <1>11, <1>12, StepExact

(* An access keeps the frames exact after any calls of direct clients. *)
LEMMA AccessExact ==
  ASSUME DInv, NEW pid \in Processes, NEW a \in Addresses, NEW write \in BOOLEAN,
         Access(pid, a, write)
  PROVE  DInv'
<1> DEFINE p == Resolve(pid, a)
<1>1. counts \in Counters /\ procStats \in [Processes -> ProcRecords]
  BY DEF DInv, DirectTypes
<1>2. CASE AccessUnknown(pid, a)
  BY <1>1, <1>2, NothingExact DEF AccessUnknown, statistics
<1>3. CASE Known(pid, a) /\ AccessKnown(pid, p, a, write)
  <2>1. p \in registered
    BY <1>3 DEF Known
  <2> HIDE DEF p
  <2>2. CASE AccessResident(pid, p, a, write)
    BY <2>1, <2>2, ResidentAccessExact
  <2>3. CASE AccessInconsistent(pid, p) \/ FaultRefused(pid, p)
    <3>1. CountAccess(pid) /\ UNCHANGED <<mem, owner, pages, vmap, counts>>
      BY <2>3 DEF AccessInconsistent, FaultRefused
    <3> QED
      BY <1>1, <3>1, CountingKeepsCounts, NothingExact
  <2>4. CASE FaultWithoutVictim(pid, p) \/ FaultRefusesVictim(pid, p, a)
    <3>1. CountFault(pid) /\ UNCHANGED <<mem, owner, pages, vmap>>
      BY <2>4 DEF FaultWithoutVictim, FaultRefusesVictim
    <3> QED
      BY <1>1, <3>1, CountingKeepsCounts, NothingExact
  <2>5. CASE FaultWithFreeFrame(pid, p, a, write)
    BY <2>1, <2>5, FreeFrameExact
  <2>6. CASE FaultWithReplacement(pid, p, a, write)
    BY <2>1, <2>6, ReplacementExact
  <2> QED
    BY <1>3, <2>2, <2>3, <2>4, <2>5, <2>6 DEF AccessKnown, p
<1> QED
  BY <1>2, <1>3 DEF Access

(* reset() gives back whole frames, each counted once, whoever named them. *)
LEMMA ResetExact ==
  ASSUME DInv, Reset
  PROVE  DInv'
<1> DEFINE O == OccupiedFrames(mem)
<1>1. Exact(mem) /\ mem \in Memory
  BY DEF DInv, Exact
<1>2. PICK R \in SUBSET Releasable :
        /\ mem' = MemoryWithout(R)
        /\ pages' = [p \in Pages |-> IF p \in R THEN AbsentPage ELSE pages[p]]
  BY DEF Reset, Releases
<1> DEFINE G == ReleasedFrames(R)
<1>3. G \subseteq O
  BY DEF ReleasedFrames, Releasable, CanReleaseFrame
<1>4. /\ mem'.frames = [f \in Frames |-> IF f \in G THEN NoPage ELSE mem.frames[f]]
      /\ mem'.allocated = mem.allocated - Cardinality(G)
      /\ mem'.table = [p \in Pages |-> IF \E q \in R : Holder(q) = p
                                       THEN NoFrame ELSE mem.table[p]]
      /\ mem' = [frames |-> mem'.frames, allocated |-> mem'.allocated, table |-> mem'.table]
  BY <1>2 DEF MemoryWithout
<1>5. /\ IsFiniteSet(O) /\ IsFiniteSet(G)
      /\ Cardinality(O) \in Nat /\ Cardinality(G) \in Nat
      /\ Cardinality(O \ G) = Cardinality(O) - Cardinality(G)
  <2>1. O \in SUBSET Frames /\ G \in SUBSET Frames /\ O \cap G = G
    BY <1>3 DEF OccupiedFrames
  <2>2. IsFiniteSet(O) /\ IsFiniteSet(G) /\ Cardinality(O) \in Nat /\ Cardinality(G) \in Nat
    BY <2>1, FramesAreFinite
  <2> QED
    BY <2>1, <2>2, FS_Difference
<1>6. OccupiedFrames(mem') = O \ G
  BY <1>4 DEF OccupiedFrames, IsOccupied
<1> HIDE DEF G
<1>7. mem' \in Memory
  <2>1. mem'.frames \in [Frames -> Pages \cup {NoPage}]
    BY <1>1, <1>4, MemoryFields
  <2>2. mem'.allocated \in Int
    BY <1>1, <1>4, <1>5, MemoryFields
  <2>3. mem'.table \in [Pages -> FrameIds \cup {NoFrame}]
    BY <1>1, <1>4, MemoryFields
  <2> QED
    BY <1>4, <2>1, <2>2, <2>3 DEF Memory
<1>8. mem'.allocated = Cardinality(OccupiedFrames(mem'))
  BY <1>1, <1>4, <1>5, <1>6 DEF Exact
<1>9. \A f, g \in Frames : mem'.frames[f] = mem'.frames[g] /\ IsOccupied(mem', f) => f = g
  BY <1>1, <1>4 DEF Exact, IsOccupied
<1>10. Exact(mem')
  BY <1>7, <1>8, <1>9 DEF Exact
<1>11. /\ AbsentPage \in DirectRecords /\ AbsentPage.frame = NoFrame
       /\ pages \in [Pages -> DirectRecords]
  BY DEF AbsentPage, DirectRecords, DInv, DirectTypes
<1>12. pages' \in [Pages -> DirectRecords] /\ Resident' \subseteq registered
  BY <1>2, <1>11 DEF DInv, Resident
<1>13. counts' \in Counters /\ procStats' \in [Processes -> ProcRecords]
       /\ UNCHANGED <<owner, vmap>>
  BY DEF Reset, NoCounts, NoProcStats, Counters, ProcRecords
<1> QED
  BY <1>10, <1>12, <1>13, StepExact

(* A direct client of the table or of physical memory leaves the frames    *)
(* exact and does not reach the Page objects.                              *)
LEMMA BypassExact ==
  ASSUME DInv, NEW m, Bypassing(m), Exact(m)
  PROVE  DInv'
<1>1. mem' = m /\ UNCHANGED <<owner, pages, vmap, counts, procStats>>
  BY DEF Bypassing, statistics
<1>2. Exact(mem') /\ Resident' = Resident
  BY <1>1 DEF Resident
<1> QED
  BY <1>1, <1>2, StepExact DEF DInv, DirectTypes

(* No call of a direct client disturbs the bookkeeping of the frames. *)
LEMMA DirectExact ==
  ASSUME DInv, DirectClient
  PROVE  DInv'
<1>1. Exact(mem) /\ mem \in Memory
  BY DEF DInv, Exact
<1>2. ASSUME NEW p \in registered, NEW page \in ChangedPages(pages[p]), ChangingPage(p, page)
      PROVE  DInv'
  <2>1. p \in Pages /\ pages \in [Pages -> DirectRecords]
    BY DEF registered, DInv, DirectTypes
  <2>2. page \in DirectRecords
    <3>1. pages[p] \in DirectRecords /\ AbsentPage \in DirectRecords
      BY <2>1 DEF DirectRecords, AbsentPage
    <3>2. \/ page = [pages[p] EXCEPT !.dirty = TRUE]
          \/ page = [pages[p] EXCEPT !.dirty = FALSE]
          \/ page = AbsentPage
          \/ \E f \in DirectFrames : page = [pages[p] EXCEPT !.frame = f]
      BY DEF ChangedPages
    <3> QED
      BY <3>1, <3>2, DirectAssumption DEF DirectRecords
  <2>3. /\ pages' = [pages EXCEPT ![p] = page]
        /\ UNCHANGED <<mem, owner, vmap, counts, procStats>>
    BY <1>2 DEF ChangingPage, statistics
  <2>4. /\ pages' \in [Pages -> DirectRecords]
        /\ \A q \in Pages : pages'[q] = IF q = p THEN page ELSE pages[q]
    BY <2>1, <2>2, <2>3
  <2>5. Resident' \subseteq registered /\ Exact(mem')
    BY <2>3, <2>4 DEF DInv, Resident
  <2> QED
    BY <2>3, <2>4, <2>5, StepExact DEF DInv, DirectTypes
<1>3. ASSUME NEW entry \in DirectEntries,
             \/ Bypassing(MapEntry(mem, entry[1], entry[2]))
             \/ Bypassing(UpdateMapping(mem, entry[1], entry[2]))
      PROVE  DInv'
  <2>1. entry[1] \in Pages /\ entry[2] \in FrameIds
    BY DirectAssumption
  <2>2. /\ Exact(MapEntry(mem, entry[1], entry[2]))
        /\ Exact(UpdateMapping(mem, entry[1], entry[2]))
    BY <1>1, <2>1, TableOperationsExact
  <2> QED
    BY <1>3, <2>2, BypassExact
<1>4. ASSUME NEW p \in Pages, Bypassing(UnmapEntry(mem, p)) PROVE DInv'
  <2>1. 0 \in FrameIds
    BY NumFramesAssumption DEF FrameIds
  <2>2. Exact(UnmapEntry(mem, p))
    BY <1>1, <2>1, TableOperationsExact
  <2> QED
    BY <1>4, <2>2, BypassExact
<1>5. ASSUME NEW p \in Pages, Bypassing(AllocateFrame(mem, p)) PROVE DInv'
  BY <1>1, <1>5, AllocateFrameExact, BypassExact
<1>6. ASSUME NEW f \in Frames, Bypassing(ReleasePhysicalFrame(mem, f)) PROVE DInv'
  BY <1>1, <1>6, ReleasePhysicalFrameExact, BypassExact
<1>7. ASSUME Bypassing(ClearPageTable(mem)) PROVE DInv'
  <2>1. [q \in Pages |-> NoFrame] \in [Pages -> FrameIds \cup {NoFrame}]
    OBVIOUS
  <2>2. Exact(ClearPageTable(mem))
    BY <1>1, <2>1, TableOnly DEF ClearPageTable
  <2> QED
    BY <1>7, <2>2, BypassExact
<1>8. ASSUME Bypassing(ClearPhysicalMemory(mem)) PROVE DInv'
  BY <1>1, <1>8, ClearPhysicalMemoryExact, BypassExact
<1> QED
  BY <1>2, <1>3, <1>4, <1>5, <1>6, <1>7, <1>8 DEF DirectClient

(* Every step, of the unit or of a direct client, keeps the invariant. *)
LEMMA NextExact == DInv /\ [Next \/ DirectClient]_vars => DInv'
<1> SUFFICES ASSUME DInv, [Next \/ DirectClient]_vars PROVE DInv'
  OBVIOUS
<1>1. ASSUME NEW r \in IdRegistrations, RegisterPage(r[1], r[2]) PROVE DInv'
  <2> DEFINE p == r[1]
             pid == r[2]
  <2>1. p \in Pages /\ p \in VirtualPages /\ pid \in Processes
    BY VirtualPagesAssumption
  <2>2. /\ owner' = [owner EXCEPT ![p] = pid]
        /\ pages' = [pages EXCEPT ![p] = AbsentPage]
        /\ vmap' = [vmap EXCEPT ![pid][p] = IF @ = NoPage THEN p ELSE @]
        /\ UNCHANGED <<mem, counts, procStats>>
    BY <1>1 DEF RegisterPage, statistics
  <2> HIDE DEF p, pid
  <2>3. vmap' \in [Processes -> [VirtualPages -> Pages \cup {NoPage}]]
    BY <2>1, <2>2 DEF DInv, DirectTypes
  <2> QED
    BY <2>1, <2>2, <2>3, RegistrationExact
<1>2. ASSUME NEW r \in VpnRegistrations, RegisterPageAt(r[1], r[2], r[3]) PROVE DInv'
  <2> DEFINE p == r[1]
             v == r[2]
             pid == r[3]
  <2>1. p \in Pages /\ v \in VirtualPages /\ pid \in Processes
    BY VirtualPagesAssumption
  <2>2. /\ owner' = [owner EXCEPT ![p] = pid]
        /\ pages' = [pages EXCEPT ![p] = AbsentPage]
        /\ vmap' = [vmap EXCEPT ![pid][v] = p]
        /\ UNCHANGED <<mem, counts, procStats>>
    BY <1>2 DEF RegisterPageAt, statistics
  <2> HIDE DEF p, v, pid
  <2>3. vmap' \in [Processes -> [VirtualPages -> Pages \cup {NoPage}]]
    BY <2>1, <2>2 DEF DInv, DirectTypes
  <2> QED
    BY <2>1, <2>2, <2>3, RegistrationExact
<1>3. ASSUME NEW pid \in Processes, NEW a \in Addresses, NEW write \in BOOLEAN,
             Access(pid, a, write)
      PROVE  DInv'
  BY <1>3, AccessExact
<1>4. ASSUME (\E references \in References : SupplyReferences(references)) \/ UNCHANGED vars
      PROVE  DInv'
  <2>1. UNCHANGED <<mem, owner, pages, vmap, counts, procStats>>
    BY <1>4 DEF SupplyReferences, vars, statistics
  <2> QED
    BY <2>1, NothingExact DEF DInv, DirectTypes
<1>5. ASSUME Reset PROVE DInv'
  BY <1>5, ResetExact
<1>6. ASSUME DirectClient PROVE DInv'
  BY <1>6, DirectExact
<1> QED
  BY <1>1, <1>2, <1>3, <1>4, <1>5, <1>6 DEF Next

(***************************************************************************)
(* Whatever direct clients do through the methods of the table, of the     *)
(* manager of the frames and of the Page objects (a Frame they leave       *)
(* alone), hasFreeFrame() answers correctly and no page is in two frames.  *)
(***************************************************************************)
THEOREM StaysExactTheorem == SpecWithDirectClients => []OccupancyStaysExact
<1>1. DInv => OccupancyStaysExact
  BY DEF DInv, Exact, OccupancyStaysExact
<1> QED
  BY <1>1, InitExact, NextExact, PTL DEF SpecWithDirectClients

(* What reset() takes away is the entry and the frame of each page whose   *)
(* frame a released page's object names.                                   *)
LEMMA ReleasedWhole ==
  ASSUME Exact(mem), NEW R \in SUBSET Releasable, mem' = MemoryWithout(R),
         NEW q \in Pages
  PROVE  IF \E r \in R : Holder(r) = q
         THEN IsMappingConsistent(mem, q) /\ KnownNowhere(mem', q)
         ELSE Untouched(mem, mem', q)
<1>1. mem \in Memory /\ q # NoPage
  BY PagesAssumption DEF Exact
<1>2. /\ mem'.frames = [f \in Frames |-> IF f \in ReleasedFrames(R)
                                         THEN NoPage ELSE mem.frames[f]]
      /\ mem'.table = [p \in Pages |-> IF \E r \in R : Holder(r) = p
                                       THEN NoFrame ELSE mem.table[p]]
  BY DEF MemoryWithout
<1>3. CASE \E r \in R : Holder(r) = q
  <2>1. PICK r \in R : Holder(r) = q
    BY <1>3
  <2> DEFINE f == pages[r].frame
  <2>2. f \in Frames /\ CanReleaseFrame(mem, f) /\ mem.frames[f] = q /\ f \in ReleasedFrames(R)
    BY <2>1 DEF Releasable, Holder, CanReleaseFrame, OccupiedFrames, ReleasedFrames
  <2> HIDE DEF f
  <2>3. IsMappingConsistent(mem, q)
    BY <2>2, ReleaseFrameClean
  <2>4. FramesHolding(mem, q) = {f}
    BY <2>2, FrameOfPage
  <2>5. \A g \in Frames : mem'.frames[g] # q
    BY <1>1, <1>2, <2>2, <2>4 DEF FramesHolding
  <2>6. mem'.table[q] = NoFrame
    BY <1>2, <1>3
  <2> QED
    BY <1>3, <2>3, <2>5, <2>6 DEF KnownNowhere, IsMapped, IsPageMapped, FramesHolding
<1>4. CASE ~\E r \in R : Holder(r) = q
  <2>1. \A g \in Frames : g \in ReleasedFrames(R) => mem.frames[g] # q
    BY <1>4 DEF ReleasedFrames, Holder
  <2>2. \A g \in Frames : mem'.frames[g] = q <=> mem.frames[g] = q
    BY <1>1, <1>2, <2>1
  <2>3. mem'.table[q] = mem.table[q]
    BY <1>2, <1>4
  <2> QED
    BY <1>4, <2>2, <2>3 DEF Untouched, FramesHolding
<1> QED
  BY <1>3, <1>4

(* The memory of a page whose records agree is released, by its own turn   *)
(* or by an earlier one.                                                   *)
LEMMA AgreedReleased ==
  ASSUME DInv, NEW R \in Releases, NEW q \in Pages, Agreed(q)
  PROVE  \E r \in R : Holder(r) = q
<1>1. /\ mem.table[q] \in Frames /\ mem.frames[mem.table[q]] = q
      /\ CanReleaseFrame(mem, mem.table[q])
  BY ConsistentFrame DEF DInv, Agreed
<1>2. pages[q].frame = mem.table[q] /\ mem.table[q] # NoFrame /\ IsMappingConsistent(mem, q)
  BY DEF Agreed, IsMappingConsistent, IsMapped
<1>3. q \in registered
  BY <1>2 DEF DInv, Resident
<1>4. q \in Releasable /\ Holder(q) = q
  BY <1>1, <1>2, <1>3 DEF Releasable, Holder
<1>5. PICK turn \in Turns : IsReleased(turn, R)
  BY DEF Releases
<1>6. CASE q \in R
  BY <1>4, <1>6
<1>7. CASE q \notin R
  <2>1. PICK r \in R : Holder(r) \in {q, Holder(q)}
    BY <1>4, <1>5, <1>7 DEF IsReleased
  <2> QED
    BY <1>4, <2>1
<1> QED
  BY <1>6, <1>7

(* A page that is released and holds a frame that another object named, or *)
(* its own, is accounted for.                                              *)
LEMMA ReleasedBySomeone ==
  ASSUME Exact(mem), NEW R \in SUBSET Releasable, NEW q \in Pages,
         NEW r \in R, Holder(r) = q
  PROVE  IF r = q THEN Agreed(q) ELSE NamedByAnother(q)
<1>1. /\ r \in Pages /\ IsMappingConsistent(mem, r)
      /\ pages[r].frame = mem.table[q]
  BY DEF Releasable, registered, CanReleaseFrame, Holder
<1> QED
  BY <1>1 DEF Agreed, NamedByAnother

(***************************************************************************)
(* In whatever order reset() meets the pages, and whatever direct clients  *)
(* did before, short of changing a Frame: it takes the entry and the frame *)
(* of a page together or leaves both, takes them from every page whose     *)
(* records agree, and otherwise only where another page's object names the *)
(* frame.                                                                  *)
(***************************************************************************)
THEOREM ResetTheorem == SpecWithDirectClients => ResetTakesWholeMappings
<1> DEFINE kept(q) == /\ mem'.table[q] = mem.table[q]
                      /\ FramesHolding(mem', q) = FramesHolding(mem, q)
           Whole ==
             Reset =>
               \A q \in Pages :
                 /\ kept(q) \/ (IsMappingConsistent(mem, q) /\ KnownNowhere(mem', q))
                 /\ Agreed(q) => ~kept(q)
                 /\ ~kept(q) => (Agreed(q) /\ pages'[q] = AbsentPage) \/ NamedByAnother(q)
                 /\ pages'[q] # pages[q] =>
                      /\ pages'[q] = AbsentPage
                      /\ IsMappingConsistent(mem, q)
                      /\ pages[q].frame \in OccupiedFrames(mem) \ OccupiedFrames(mem')
<1>1. DInv => Whole
  <2> SUFFICES ASSUME DInv, Reset, NEW q \in Pages
               PROVE  /\ kept(q) \/ (IsMappingConsistent(mem, q) /\ KnownNowhere(mem', q))
                      /\ Agreed(q) => ~kept(q)
                      /\ ~kept(q) => (Agreed(q) /\ pages'[q] = AbsentPage) \/ NamedByAnother(q)
                      /\ pages'[q] # pages[q] =>
                           /\ pages'[q] = AbsentPage
                           /\ IsMappingConsistent(mem, q)
                           /\ pages[q].frame \in OccupiedFrames(mem) \ OccupiedFrames(mem')
    OBVIOUS
  <2>1. PICK R \in Releases :
          /\ mem' = MemoryWithout(R)
          /\ pages' = [p \in Pages |-> IF p \in R THEN AbsentPage ELSE pages[p]]
    BY DEF Reset
  <2>2. R \in SUBSET Releasable /\ Exact(mem)
    BY DEF Releases, DInv
  <2>3. IF \E r \in R : Holder(r) = q
        THEN IsMappingConsistent(mem, q) /\ KnownNowhere(mem', q)
        ELSE Untouched(mem, mem', q)
    BY <2>1, <2>2, ReleasedWhole
  <2>4. kept(q) \/ (IsMappingConsistent(mem, q) /\ KnownNowhere(mem', q))
    BY <2>3 DEF Untouched
  <2>5. ASSUME \E r \in R : Holder(r) = q PROVE ~kept(q)
    BY <2>3, <2>5 DEF KnownNowhere, IsMapped, IsMappingConsistent
  <2>6. Agreed(q) => ~kept(q)
    BY <2>1, <2>5, AgreedReleased
  <2>7. ASSUME ~kept(q) PROVE (Agreed(q) /\ pages'[q] = AbsentPage) \/ NamedByAnother(q)
    <3>1. PICK r \in R : Holder(r) = q
      BY <2>3, <2>7 DEF Untouched
    <3>2. IF r = q THEN Agreed(q) ELSE NamedByAnother(q)
      BY <2>2, <3>1, ReleasedBySomeone
    <3> QED
      BY <2>1, <3>1, <3>2
  <2>8. ASSUME pages'[q] # pages[q]
        PROVE  /\ pages'[q] = AbsentPage
               /\ IsMappingConsistent(mem, q)
               /\ pages[q].frame \in OccupiedFrames(mem) \ OccupiedFrames(mem')
    <3>1. q \in R /\ pages'[q] = AbsentPage
      BY <2>1, <2>8
    <3>2. /\ IsMappingConsistent(mem, q)
          /\ pages[q].frame \in OccupiedFrames(mem)
          /\ pages[q].frame \in ReleasedFrames(R)
      BY <2>2, <3>1 DEF Releasable, CanReleaseFrame, ReleasedFrames
    <3>3. pages[q].frame \notin OccupiedFrames(mem')
      BY <2>1, <3>2 DEF MemoryWithout, OccupiedFrames, IsOccupied
    <3> QED
      BY <3>1, <3>2, <3>3
  <2> QED
    BY <2>4, <2>6, <2>7, <2>8
<1>2. DInv /\ [Next \/ DirectClient]_vars => [Whole]_vars
  BY <1>1
<1>3. SpecWithDirectClients => [][Whole]_vars
  BY <1>2, InitExact, NextExact, PTL DEF SpecWithDirectClients
<1> QED
  BY <1>3 DEF ResetTakesWholeMappings

(***************************************************************************)
(* An access that fails, in whatever state direct clients left the unit    *)
(* without changing a Frame, has changed neither memory nor Page objects   *)
(* nor registrations.                                                      *)
(***************************************************************************)
THEOREM FailureTheorem == SpecWithDirectClients => FailedAccessLeavesMemory
<1> DEFINE Leaves == ~result'.success /\ AccessStep => UNCHANGED <<mem, owner, pages, vmap>>
<1>1. Leaves
  <2> SUFFICES ASSUME NEW pid \in Processes, NEW a \in Addresses, NEW write \in BOOLEAN,
                      Access(pid, a, write), ~result'.success
               PROVE  UNCHANGED <<mem, owner, pages, vmap>>
    BY DEF AccessStep
  <2> DEFINE p == Resolve(pid, a)
  <2>1. CASE AccessUnknown(pid, a)
    BY <2>1 DEF AccessUnknown
  <2>2. CASE AccessKnown(pid, p, a, write)
    <3>1. ~AccessResident(pid, p, a, write)
      BY DEF AccessResident, Success
    <3>2. ~FaultWithFreeFrame(pid, p, a, write)
      BY DEF FaultWithFreeFrame, Success
    <3>3. ~FaultWithReplacement(pid, p, a, write)
      BY DEF FaultWithReplacement, Success
    <3> HIDE DEF p
    <3>4. AccessInconsistent(pid, p) \/ FaultRefused(pid, p)
          \/ FaultWithoutVictim(pid, p) \/ FaultRefusesVictim(pid, p, a)
      BY <2>2, <3>1, <3>2, <3>3 DEF AccessKnown, p
    <3> QED
      BY <3>4 DEF AccessInconsistent, FaultRefused, FaultWithoutVictim, FaultRefusesVictim
  <2> QED
    BY <2>1, <2>2 DEF Access
<1>2. [Next \/ DirectClient]_vars => [Leaves]_vars
  BY <1>1
<1>3. SpecWithDirectClients => [][Leaves]_vars
  BY <1>2, PTL DEF SpecWithDirectClients
<1> QED
  BY <1>3 DEF FailedAccessLeavesMemory

-----------------------------------------------------------------------------
(* What an access that succeeds does to the pages it is not about. *)

OthersUnharmed(p) ==
  /\ IsMappingConsistent(mem', p) /\ pages'[p].frame = mem'.table[p]
  /\ \A q \in Pages \ {p} :
       \/ /\ pages'[q] = pages[q]
          /\ mem'.table[q] = mem.table[q]
          /\ FramesHolding(mem', q) = FramesHolding(mem, q)
       \/ /\ result'.replaced
          /\ IsMappingConsistent(mem, q)
          /\ pages'[q] = AbsentPage
          /\ ~IsMapped(mem', q) /\ ~IsPageMapped(mem', q)

(* A hit leaves every other page as it was. *)
LEMMA ResidentHarmsNone ==
  ASSUME DInv, NEW pid \in Processes, NEW p \in registered, NEW a, NEW write \in BOOLEAN,
         AccessResident(pid, p, a, write)
  PROVE  OthersUnharmed(p)
<1> DEFINE f == mem.table[p]
<1>1. p \in Pages /\ IsMappingConsistent(mem, p) /\ mem' = mem
      /\ pages' = [pages EXCEPT ![p] = Touched(@, f, write)]
  BY DEF registered, AccessResident
<1>2. f \in Frames
  BY <1>1, ConsistentFrame DEF DInv
<1> HIDE DEF f
<1>3. /\ \A q \in Pages : pages'[q] = IF q = p THEN Touched(pages[p], f, write) ELSE pages[q]
      /\ Touched(pages[p], f, write).frame = f
  BY <1>1, <1>2, DirectTouched
<1> QED
  BY <1>1, <1>3 DEF OthersUnharmed, f

(* A load into a free frame leaves every other page as it was. *)
LEMMA FreeFrameHarmsNone ==
  ASSUME DInv, NEW pid \in Processes, NEW p \in registered, NEW a, NEW write \in BOOLEAN,
         FaultWithFreeFrame(pid, p, a, write)
  PROVE  OthersUnharmed(p)
<1> DEFINE n == MapPage(mem, p)
           f == n.table[p]
<1>1. p \in Pages /\ mem' = n /\ pages' = [pages EXCEPT ![p] = Touched(@, f, write)]
  BY DEF registered, FaultWithFreeFrame
<1>2. CanMapPage(mem, p)
  BY FullIffAllOccupied DEF FaultWithFreeFrame, Faulting, CanMapPage, DInv
<1>3. \A q \in Pages : IF q = p THEN IsMappingConsistent(n, q) ELSE Untouched(mem, n, q)
  BY <1>1, <1>2, MapPageClean DEF DInv
<1>4. f \in Frames
  <2>1. Exact(n)
    BY <1>1, <1>2, MapPageEffect DEF DInv
  <2> HIDE DEF n
  <2> QED
    BY <1>1, <1>3, <2>1, ConsistentFrame
<1> HIDE DEF n, f
<1>5. /\ \A q \in Pages : pages'[q] = IF q = p THEN Touched(pages[p], f, write) ELSE pages[q]
      /\ Touched(pages[p], f, write).frame = f
  BY <1>1, <1>4, DirectTouched
<1> QED
  BY <1>1, <1>3, <1>5 DEF OthersUnharmed, Untouched, f

(* A replacement takes one page's frame, the victim's, and leaves every
   other page as it was. *)
LEMMA ReplacementHarmsNone ==
  ASSUME DInv, NEW pid \in Processes, NEW p \in registered, NEW a, NEW write \in BOOLEAN,
         FaultWithReplacement(pid, p, a, write)
  PROVE  OthersUnharmed(p)
<1> DEFINE f == Victim(pol)
           v == mem.frames[f]
           n == MapPage(ReleaseFrame(mem, f), p)
<1>1. p \in Pages /\ Exact(mem) /\ pages \in [Pages -> DirectRecords]
  BY DEF registered, DInv, DirectTypes
<1>2. Evictable(f) /\ ~HasFreeFrame(mem) /\ ~IsMapped(mem, p) /\ ~IsPageMapped(mem, p)
  BY DEF FaultWithReplacement, Faulting
<1>3. /\ mem' = n /\ result'.replaced
      /\ pages' = [pages EXCEPT ![v] = AbsentPage, ![p] = Touched(@, f, write)]
  BY DEF FaultWithReplacement, Success
<1> HIDE DEF f
<1>4. v \in Pages /\ CanReleaseFrame(mem, f)
  BY <1>1, <1>2, EvictableFrame
<1>5. v # p /\ n.table[p] = f
  BY <1>1, <1>2, <1>4, ReplacementMemory
<1>6. \A q \in Pages :
        IF q = p THEN IsMappingConsistent(n, q)
        ELSE IF q = v THEN IsMappingConsistent(mem, q) /\ KnownNowhere(n, q)
        ELSE Untouched(mem, n, q)
  BY <1>1, <1>2, <1>4, ReplacementClean
<1> HIDE DEF n, v
<1>7. \A q \in Pages : pages'[q] = IF q = p THEN Touched(pages[p], f, write)
                                   ELSE IF q = v THEN AbsentPage
                                   ELSE pages[q]
  BY <1>1, <1>3, <1>4, <1>5
<1>8. Touched(pages[p], f, write).frame = f
  BY DEF Touched
<1> QED
  BY <1>1, <1>3, <1>5, <1>6, <1>7, <1>8 DEF OthersUnharmed, Untouched, KnownNowhere

(***************************************************************************)
(* In whatever state direct clients left the unit without changing a       *)
(* Frame, an access that succeeds leaves its own page consistent and every *)
(* other page as it was, or consistently gone if it was the victim.        *)
(***************************************************************************)
THEOREM HarmTheorem == SpecWithDirectClients => AccessHarmsNoOther
<1> DEFINE Harmless ==
      \A pid \in Processes, a \in Addresses, write \in BOOLEAN :
        result'.success /\ Access(pid, a, write) =>
          LET p == Resolve(pid, a)
          IN  /\ IsMappingConsistent(mem', p) /\ pages'[p].frame = mem'.table[p]
              /\ \A q \in Pages \ {p} :
                   \/ /\ pages'[q] = pages[q]
                      /\ mem'.table[q] = mem.table[q]
                      /\ FramesHolding(mem', q) = FramesHolding(mem, q)
                   \/ /\ result'.replaced
                      /\ IsMappingConsistent(mem, q)
                      /\ pages'[q] = AbsentPage
                      /\ ~IsMapped(mem', q) /\ ~IsPageMapped(mem', q)
<1>1. DInv => Harmless
  <2> SUFFICES ASSUME DInv, NEW pid \in Processes, NEW a \in Addresses,
                      NEW write \in BOOLEAN, Access(pid, a, write), result'.success
               PROVE  OthersUnharmed(Resolve(pid, a))
    BY DEF OthersUnharmed
  <2> DEFINE p == Resolve(pid, a)
  <2>1. ~AccessUnknown(pid, a)
    BY DEF AccessUnknown, Failure
  <2>2. p \in registered /\ AccessKnown(pid, p, a, write)
    BY <2>1 DEF Access, Known
  <2> HIDE DEF p
  <2>3. ~AccessInconsistent(pid, p) /\ ~FaultRefused(pid, p)
        /\ ~FaultWithoutVictim(pid, p) /\ ~FaultRefusesVictim(pid, p, a)
    BY DEF AccessInconsistent, FaultRefused, FaultWithoutVictim, FaultRefusesVictim, Failure
  <2>4. OthersUnharmed(p)
    BY <2>2, <2>3, ResidentHarmsNone, FreeFrameHarmsNone, ReplacementHarmsNone
       DEF AccessKnown
  <2> QED
    BY <2>4 DEF p
<1>2. DInv /\ [Next \/ DirectClient]_vars => [Harmless]_vars
  BY <1>1
<1>3. SpecWithDirectClients => [][Harmless]_vars
  BY <1>2, InitExact, NextExact, PTL DEF SpecWithDirectClients
<1> QED
  BY <1>3 DEF AccessHarmsNoOther

-----------------------------------------------------------------------------
(***************************************************************************)
(* The memory management unit implements demand paging, whatever the       *)
(* replacement policy answers: a step of the unit is a step of PagedMemory *)
(* on the resident pages, or leaves them and the counters alone.           *)
(***************************************************************************)

Dirty == {p \in Pages : pages[p].dirty}

(* As many pages are resident as frames are allocated. *)
LEMMA ResidentCount ==
  ASSUME IInv
  PROVE  /\ Resident = {p \in Pages : IsMapped(mem, p)}
         /\ Cardinality(Resident) = mem.allocated
         /\ HasFreeFrame(mem) => Cardinality(Resident) < NumFrames
         /\ ~HasFreeFrame(mem) => Cardinality(Resident) = NumFrames
<1>1. Exact(mem) /\ MutuallyInverse(mem)
  BY CoherentMemory
<1>2. Resident = {p \in Pages : IsMapped(mem, p)}
  BY CoherentMemory DEF Resident
<1>3. Cardinality(Resident) = mem.allocated
  BY <1>1, <1>2, InverseCounts DEF TableSize
<1> QED
  BY <1>1, <1>2, <1>3, FullIffAllOccupied, NumFramesAssumption DEF HasFreeFrame

(* Only resident pages are dirty: the abstract specification's invariant,
   needed because its steps speak of the dirty resident pages. *)
LEMMA AbsentIsClean ==
  ASSUME IInv
  PROVE  Dirty \subseteq Resident
BY DEF IInv, MappingCoherent, Dirty, Resident, AbsentPage

(***************************************************************************)
(* The outcomes of access()                                                *)
(***************************************************************************)

LEMMA ResidentIsTouch ==
  ASSUME IInv, NEW pid \in Processes, NEW p \in registered, NEW a, NEW write \in BOOLEAN,
         AccessResident(pid, p, a, write)
  PROVE  Paging!Touch(p, write)
<1>1. /\ p \in Pages /\ mem.table[p] \in Frames
      /\ mem.table[p] # NoFrame /\ pages[p].frame = mem.table[p]
  BY CoherentMemory, InverseConsistent
     DEF AccessResident, IsMapped, OccupiedFrames, registered
<1>2. \A q \in Pages : pages'[q] = IF q = p THEN Touched(pages[p], mem.table[p], write)
                                   ELSE pages[q]
  BY <1>1, TouchedType DEF AccessResident, IInv
<1>3. Resident' = Resident /\ p \in Resident
  BY <1>1, <1>2 DEF Resident, Touched
<1>4. Dirty' = Dirty \cup Paging!Written(p, write)
  <2>1. pages \in [Pages -> PageRecords]
    BY DEF IInv, TypeOK, PageRecords
  <2>2. pages'[p] = Touched(pages[p], mem.table[p], write)
    BY <1>1, <1>2
  <2>3. Touched(pages[p], mem.table[p], write).dirty <=> pages[p].dirty \/ write
    BY <1>1, <2>1 DEF Touched, PageRecords
  <2>4. \A q \in Pages : pages'[q].dirty <=> pages[q].dirty \/ (q = p /\ write)
    BY <1>1, <1>2, <2>2, <2>3
  <2> QED
    BY <1>1, <2>4 DEF Dirty, Paging!Written
<1> QED
  BY <1>3, <1>4 DEF Paging!Touch, AccessResident, Dirty

(* A fault served from a free frame is the abstract Load. *)
LEMMA FreeFrameIsLoad ==
  ASSUME IInv, NEW pid \in Processes, NEW p \in registered, NEW a, NEW write \in BOOLEAN,
         FaultWithFreeFrame(pid, p, a, write)
  PROVE  Paging!Load(p, write)
<1> DEFINE f == MapPage(mem, p).table[p]
<1>1. p \in Pages /\ pages \in [Pages -> PageRecords]
  BY DEF IInv, TypeOK, PageRecords, registered
<1>2. CanMapPage(mem, p) /\ Exact(mem)
  BY CoherentMemory, FullIffAllOccupied DEF FaultWithFreeFrame, Faulting, CanMapPage
<1>3. f # NoFrame
  <2>1. Min(FreeFrames(mem)) \in Frames
        /\ MapPage(mem, p).table = [mem.table EXCEPT ![p] = Min(FreeFrames(mem))]
    BY <1>1, <1>2, MapPageEffect
  <2>2. mem.table \in [Pages -> FrameIds \cup {NoFrame}]
    BY MemoryFields DEF IInv, TypeOK
  <2> QED
    BY <1>1, <2>1, <2>2, NoFrameAssumption, NumFramesAssumption DEF Frames, FrameIds
<1>4. /\ pages' = [pages EXCEPT ![p] = Touched(@, f, write)]
      /\ pages[p].frame = NoFrame
      /\ counts' = [counts EXCEPT !.faults = @ + 1]
  BY DEF FaultWithFreeFrame, Faulting, CountFault
<1> HIDE DEF f
<1>5. p \notin Resident /\ Resident' = Resident \cup {p}
  BY <1>1, <1>3, <1>4 DEF Resident, Touched
<1>6. ~pages[p].dirty
  BY <1>1, <1>5, AbsentIsClean DEF Dirty
<1>7. Dirty' = Dirty \cup Paging!Written(p, write)
  BY <1>1, <1>4, <1>6 DEF Dirty, Touched, Paging!Written
<1>8. Cardinality(Resident) < NumFrames
  BY ResidentCount DEF FaultWithFreeFrame
<1>9. /\ counts'.faults = counts.faults + 1
      /\ counts'.replacements = counts.replacements
      /\ counts'.dirtyEvictions = counts.dirtyEvictions
  BY <1>4 DEF IInv, TypeOK, Counters
<1> QED
  BY <1>5, <1>7, <1>8, <1>9 DEF Paging!Load, Paging!Cardinality, Cardinality, Dirty

(* A replacement is the abstract Replace, with the page of the chosen frame
   as its victim. *)
LEMMA ReplacementIsReplace ==
  ASSUME IInv, NEW pid \in Processes, NEW p \in registered, NEW a, NEW write \in BOOLEAN,
         FaultWithReplacement(pid, p, a, write)
  PROVE  \E victim \in Pages : Paging!Replace(p, victim, write)
<1> DEFINE f == Victim(pol)
           v == mem.frames[f]
<1>1. p \in Pages /\ pages \in [Pages -> PageRecords]
  BY DEF IInv, TypeOK, PageRecords, registered
<1>2. /\ f \in Frames /\ v \in Pages /\ pages[v].frame = f
      /\ pages[p].frame = NoFrame /\ ~HasFreeFrame(mem)
      /\ pages' = [pages EXCEPT ![v] = AbsentPage, ![p] = Touched(@, f, write)]
      /\ counts' = [faults         |-> counts.faults + 1,
                    replacements   |-> counts.replacements + 1,
                    dirtyEvictions |-> counts.dirtyEvictions
                                         + IF pages[v].dirty THEN 1 ELSE 0]
  BY DEF FaultWithReplacement, Evictable, Faulting, registered, OccupiedFrames
<1> HIDE DEF f, v
<1>3. f # NoFrame /\ v # p
  BY <1>2, NoFrameAssumption, NumFramesAssumption DEF Frames, FrameIds
<1>4. \A q \in Pages : pages'[q] = IF q = p THEN Touched(pages[p], f, write)
                                   ELSE IF q = v THEN AbsentPage
                                   ELSE pages[q]
  BY <1>1, <1>2, <1>3
<1>5. p \notin Resident /\ v \in Resident /\ Resident' = (Resident \ {v}) \cup {p}
  BY <1>1, <1>2, <1>3, <1>4 DEF Resident, Touched, AbsentPage
<1>6. ~pages[p].dirty
  BY <1>1, <1>5, AbsentIsClean DEF Dirty
<1>7. Dirty' = (Dirty \ {v}) \cup Paging!Written(p, write)
  BY <1>1, <1>2, <1>3, <1>4, <1>6 DEF Dirty, Touched, AbsentPage, Paging!Written
<1>8. Cardinality(Resident) = NumFrames
  BY <1>2, ResidentCount
<1>9. pages[v].dirty <=> v \in Dirty
  BY <1>2 DEF Dirty
<1>10. /\ counts'.faults = counts.faults + 1
       /\ counts'.replacements = counts.replacements + 1
       /\ counts'.dirtyEvictions = counts.dirtyEvictions + IF v \in Dirty THEN 1 ELSE 0
  BY <1>2, <1>9
<1>11. Paging!Replace(p, v, write)
  BY <1>5, <1>7, <1>8, <1>10 DEF Paging!Replace, Paging!Cardinality, Cardinality, Dirty
<1> QED
  BY <1>2, <1>11

(* A fault that finds no victim, or whose victim the check refuses, is the
   abstract Refuse. *)
LEMMA RefusalIsRefuse ==
  ASSUME IInv, NEW pid \in Processes, NEW p \in registered, NEW a,
         FaultWithoutVictim(pid, p) \/ FaultRefusesVictim(pid, p, a)
  PROVE  Paging!Refuse(p)
<1>1. /\ pages[p].frame = NoFrame /\ ~HasFreeFrame(mem)
      /\ UNCHANGED pages
      /\ counts' = [counts EXCEPT !.faults = @ + 1]
  BY DEF FaultWithoutVictim, FaultRefusesVictim, Faulting, CountFault
<1>2. Cardinality(Resident) = NumFrames /\ p \notin Resident /\ p \in Pages
  BY <1>1, ResidentCount DEF Resident, registered
<1>3. Resident' = Resident /\ Dirty' = Dirty
  BY <1>1 DEF Resident, Dirty
<1>4. /\ counts'.faults = counts.faults + 1
      /\ counts'.replacements = counts.replacements
      /\ counts'.dirtyEvictions = counts.dirtyEvictions
  BY <1>1 DEF IInv, TypeOK, Counters
<1> QED
  BY <1>2, <1>3, <1>4 DEF Paging!Refuse, Paging!Cardinality, Cardinality, Dirty

(* Steps that move no page and count nothing. *)
LEMMA Stutters ==
  ASSUME UNCHANGED <<pages, counts>>
  PROVE  UNCHANGED Paging!vars
BY DEF Paging!vars, Resident

(* Every outcome of an access is an abstract step or a stutter. *)
LEMMA AccessIsPaging ==
  ASSUME IInv, NEW pid \in Processes, NEW a \in Addresses, NEW write \in BOOLEAN,
         Access(pid, a, write)
  PROVE  [Paging!Next]_(Paging!vars)
<1> DEFINE p == Resolve(pid, a)
<1>1. CASE AccessUnknown(pid, a)
  BY <1>1, Stutters DEF AccessUnknown, statistics
<1>2. CASE Known(pid, a) /\ AccessKnown(pid, p, a, write)
  <2>1. p \in registered /\ p \in Pages
    BY <1>2, KnownPage DEF IInv
  <2> HIDE DEF p
  <2>2. CASE AccessResident(pid, p, a, write)
    BY <2>1, <2>2, ResidentIsTouch DEF Paging!Next
  <2>3. CASE AccessInconsistent(pid, p) \/ FaultRefused(pid, p)
    BY <2>3, Stutters DEF AccessInconsistent, FaultRefused
  <2>4. CASE FaultWithoutVictim(pid, p) \/ FaultRefusesVictim(pid, p, a)
    BY <2>1, <2>4, RefusalIsRefuse DEF Paging!Next
  <2>5. CASE FaultWithFreeFrame(pid, p, a, write)
    BY <2>1, <2>5, FreeFrameIsLoad DEF Paging!Next
  <2>6. CASE FaultWithReplacement(pid, p, a, write)
    BY <2>1, <2>6, ReplacementIsReplace DEF Paging!Next
  <2> QED
    BY <1>2, <2>2, <2>3, <2>4, <2>5, <2>6 DEF AccessKnown, p
<1> QED
  BY <1>1, <1>2 DEF Access

-----------------------------------------------------------------------------
(* Registration, reset and the whole unit *)

LEMMA RegistrationStutters ==
  ASSUME IInv, NEW p \in Pages, Registrable(p),
         pages' = [pages EXCEPT ![p] = AbsentPage], UNCHANGED counts
  PROVE  UNCHANGED Paging!vars
<1>1. pages[p] = AbsentPage /\ pages \in [Pages -> PageRecords]
  BY DEF Registrable, IsMapped, IInv, TypeOK, MappingCoherent, PageRecords
<1>2. pages' = pages
  BY <1>1
<1> QED
  BY <1>2, Stutters

(* reset() is the abstract Reset. *)
LEMMA ResetIsReset ==
  ASSUME IInv, Reset
  PROVE  Paging!Reset
<1>1. pages' = [p \in Pages |-> AbsentPage] /\ counts' = NoCounts
  BY ResetEmpties DEF Reset
<1>2. Resident' = {} /\ Dirty' = {}
  BY <1>1 DEF Resident, Dirty, AbsentPage
<1> QED
  BY <1>1, <1>2 DEF Paging!Reset, NoCounts, Dirty

(* Every step of the unit maps to an abstract step or a stutter. *)
LEMMA StepIsPaging == IInv /\ [Next]_vars => [Paging!Next]_(Paging!vars)
<1> SUFFICES ASSUME IInv, [Next]_vars PROVE [Paging!Next]_(Paging!vars)
  OBVIOUS
<1>1. ASSUME NEW r \in IdRegistrations, RegisterPage(r[1], r[2])
      PROVE  UNCHANGED Paging!vars
  <2>1. r[1] \in Pages
    BY VirtualPagesAssumption
  <2> QED
    BY <1>1, <2>1, RegistrationStutters DEF RegisterPage, statistics
<1>2. ASSUME NEW r \in VpnRegistrations, RegisterPageAt(r[1], r[2], r[3])
      PROVE  UNCHANGED Paging!vars
  <2>1. r[1] \in Pages
    BY VirtualPagesAssumption
  <2> QED
    BY <1>2, <2>1, RegistrationStutters DEF RegisterPageAt, statistics
<1>3. ASSUME NEW pid \in Processes, NEW a \in Addresses, NEW write \in BOOLEAN,
             Access(pid, a, write)
      PROVE  [Paging!Next]_(Paging!vars)
  BY <1>3, AccessIsPaging
<1>4. CASE (\E references \in References : SupplyReferences(references)) \/ UNCHANGED vars
  <2>1. UNCHANGED <<pages, counts>>
    BY <1>4 DEF SupplyReferences, vars, statistics
  <2> QED
    BY <2>1, Stutters
<1>5. CASE Reset
  BY <1>5, ResetIsReset DEF Paging!Next
<1> QED
  BY <1>1, <1>2, <1>3, <1>4, <1>5 DEF Next

(* Initial states map to initial states. *)
LEMMA InitIsPaging == Init => Paging!Init
BY DEF Init, Paging!Init, Resident, AbsentPage, NoCounts

(***************************************************************************)
(* MemoryManagementUnit is demand paging: pages enter one at a time by     *)
(* faults, without replacement exactly while frames are free, a            *)
(* replacement exchanges one page for another and counts a dirty eviction  *)
(* exactly when the page that leaves has been written since its load, and  *)
(* reset() empties everything.                                             *)
(***************************************************************************)
THEOREM PagedMemoryTheorem == Spec => IsPagedMemory
<1> QED
  BY InitIsPaging, InitCoherent, NextCoherent, StepIsPaging, PTL
     DEF Spec, IsPagedMemory, Paging!Spec

-----------------------------------------------------------------------------
(* The unit together with its policy *)

(***************************************************************************)
(* The inductive invariant: the one of the unit alone, and a policy in a   *)
(* state of its class that tracks the resident pages.                      *)
(***************************************************************************)
PInv ==
  /\ IInv
  /\ IsPolicy(pol, Pages, Frames)
  /\ PolicyTracksResidents

(* Residency in terms of the page table. *)
LEMMA ResidentFacts ==
  ASSUME IInv
  PROVE  /\ \A p \in Pages : pages[p].frame = mem.table[p]
         /\ \A p \in Pages : p \in Resident <=> IsMapped(mem, p)
         /\ \A p \in Resident : /\ p \in Pages /\ p \in registered
                                /\ pages[p].frame \in OccupiedFrames(mem)
                                /\ pages[p].frame \in Frames
                                /\ pages[p].frame # NoFrame
                                /\ mem.frames[pages[p].frame] = p
                                /\ IsMappingConsistent(mem, p)
         /\ \A f \in OccupiedFrames(mem) : /\ f \in Frames
                                           /\ mem.frames[f] \in Resident
                                           /\ pages[mem.frames[f]].frame = f
         /\ \A e : e \in ResidentPairs <=> \E p \in Resident : e = Pair(p, pages[p].frame)
<1>1. Exact(mem) /\ MutuallyInverse(mem) /\ mem \in Memory
  BY CoherentMemory
<1>2. \A p \in Pages : pages[p].frame = mem.table[p]
  BY DEF IInv, MappingCoherent
<1>3. \A p \in Pages : p \in Resident <=> IsMapped(mem, p)
  BY CoherentMemory DEF Resident
<1>4. \A f \in OccupiedFrames(mem) : f \in Frames /\ mem.frames[f] \in Resident
                                     /\ pages[mem.frames[f]].frame = f
  <2> SUFFICES ASSUME NEW f \in OccupiedFrames(mem)
               PROVE  f \in Frames /\ mem.frames[f] \in Resident
                      /\ pages[mem.frames[f]].frame = f
    OBVIOUS
  <2>1. f \in FrameIds /\ f \in Frames /\ mem.frames[f] \in Pages
    BY <1>1, HeldPage, NumFramesAssumption DEF Frames, FrameIds
  <2>2. mem.table[mem.frames[f]] = f
    BY <1>1, <2>1 DEF MutuallyInverse
  <2> QED
    BY <1>2, <2>1, <2>2, NoFrameAssumption DEF Resident
<1>5. ASSUME NEW p \in Resident
      PROVE  /\ p \in Pages /\ p \in registered
             /\ pages[p].frame \in OccupiedFrames(mem)
             /\ pages[p].frame \in Frames
             /\ pages[p].frame # NoFrame
             /\ mem.frames[pages[p].frame] = p
             /\ IsMappingConsistent(mem, p)
  <2>1. p \in Pages /\ p \in registered /\ IsMapped(mem, p)
        /\ pages[p].frame = mem.table[p] /\ pages[p].frame # NoFrame
    BY <1>2, <1>3 DEF Resident, IInv, MappingCoherent
  <2>2. IsMappingConsistent(mem, p) /\ mem.table[p] \in OccupiedFrames(mem)
    BY <1>1, <2>1, InverseConsistent
  <2> QED
    BY <2>1, <2>2 DEF IsMappingConsistent, OccupiedFrames
<1>6. \A e : e \in ResidentPairs <=> \E p \in Resident : e = Pair(p, pages[p].frame)
  BY DEF ResidentPairs, Pair
<1> QED
  BY <1>2, <1>3, <1>4, <1>5, <1>6

(* Two steps that leave the same pages in the same frames. *)
LEMMA SamePairs ==
  ASSUME \A p \in Pages : pages'[p].frame = pages[p].frame
  PROVE  Resident' = Resident /\ ResidentPairs' = ResidentPairs
<1>1. Resident' = Resident
  BY DEF Resident
<1> QED
  BY <1>1 DEF ResidentPairs, Resident

(* What a load does to a policy that knows neither the page nor the frame. *)
LEMMA AfterLoadTracks ==
  ASSUME NEW policy, IsPolicy(policy, Pages, Frames),
         NEW p \in Pages, NEW f \in Frames, ~Conflicts(Tracked(policy), p, f)
  PROVE  LET n == AfterLoad(policy, p, f)
         IN  /\ IsPolicy(n, Pages, Frames)
             /\ Tracked(n) = Tracked(policy) \cup {Pair(p, f)}
             /\ n.replacements = policy.replacements
             /\ n.dirtyEvictions = policy.dirtyEvictions
<1> DEFINE a == PageAccessed(policy, p, f)
           n == PageLoaded(a, p, f)
<1>1. /\ IsPolicy(a, Pages, Frames) /\ Tracked(a) = Tracked(policy)
      /\ a.replacements = policy.replacements /\ a.dirtyEvictions = policy.dirtyEvictions
  BY PolicyPageAccessed
<1> HIDE DEF a
<1>2. /\ IsPolicy(n, Pages, Frames)
      /\ Tracked(n) = IF Conflicts(Tracked(a), p, f) THEN Tracked(a)
                      ELSE Tracked(a) \cup {Pair(p, f)}
      /\ n.kind = a.kind
      /\ n.replacements = a.replacements /\ n.dirtyEvictions = a.dirtyEvictions
  BY <1>1, PolicyPageLoaded
<1>3. n = AfterLoad(policy, p, f)
  BY DEF AfterLoad, a
<1> HIDE DEF n
<1> QED
  BY <1>1, <1>2, <1>3

(* A fault that finds a free frame adds one page, in a frame nobody had.   *)
LEMMA FreeFrameEffect ==
  ASSUME IInv, NEW pid \in Processes, NEW p \in registered, NEW a, NEW write \in BOOLEAN,
         FaultWithFreeFrame(pid, p, a, write)
  PROVE  \E f \in Frames \ OccupiedFrames(mem) :
           /\ f = MapPage(mem, p).table[p]
           /\ mem'.table[p] = f
           /\ p \in Pages \ Resident
           /\ \A q \in Pages :
                pages'[q] = IF q = p THEN Touched(pages[p], f, write) ELSE pages[q]
           /\ Resident' = Resident \cup {p}
           /\ Touched(pages[p], f, write).frame = f
<1> DEFINE n == MapPage(mem, p)
           g == Min(FreeFrames(mem))
<1>1. p \in Pages
  BY DEF registered
<1>2. Exact(mem) /\ MutuallyInverse(mem) /\ mem \in Memory
  BY CoherentMemory
<1>3. CanMapPage(mem, p)
  BY <1>2, FullIffAllOccupied DEF FaultWithFreeFrame, Faulting, CanMapPage
<1>4. /\ g \in Frames
      /\ Exact(n) /\ MutuallyInverse(n)
      /\ n.table = [mem.table EXCEPT ![p] = g]
  BY <1>1, <1>2, <1>3, MapPageEffect, MapPageInverse
<1>5. g \in FreeFrames(mem)
  <2>1. FreeFrames(mem) \subseteq Frames /\ FreeFrames(mem) # {}
    BY <1>3 DEF FreeFrames, CanMapPage
  <2> QED
    BY <2>1, LowestFrame
<1> HIDE DEF n, g
<1>6. n.table[p] = g
  BY <1>1, <1>2, <1>4, MemoryFields
<1>7. mem' = n /\ pages' = [pages EXCEPT ![p] = Touched(@, n.table[p], write)]
  BY DEF FaultWithFreeFrame, n
<1>8. /\ \A q \in Pages : pages'[q] = IF q = p THEN Touched(pages[p], g, write) ELSE pages[q]
      /\ Touched(pages[p], g, write).frame = g
  BY <1>1, <1>4, <1>6, <1>7, TouchedType DEF IInv
<1>9. p \notin Resident
  BY DEF FaultWithFreeFrame, Faulting, Resident
<1>10. g # NoFrame
  BY <1>4, NoFrameAssumption, NumFramesAssumption DEF Frames, FrameIds
<1>11. Resident' = Resident \cup {p}
  BY <1>1, <1>8, <1>10 DEF Resident
<1> QED
  BY <1>1, <1>4, <1>5, <1>6, <1>7, <1>8, <1>9, <1>11 DEF n, FreeFrames

(* A replacement exchanges the victim's page for the requested one in the  *)
(* victim's frame.                                                         *)
LEMMA ReplacementEffect ==
  ASSUME IInv, NEW pid \in Processes, NEW p \in registered, NEW a, NEW write \in BOOLEAN,
         FaultWithReplacement(pid, p, a, write)
  PROVE  LET f == Victim(pol)
             v == mem.frames[f]
         IN  /\ f \in Frames
             /\ v \in Resident /\ p \in Pages \ Resident
             /\ pages[v].frame = f
             /\ mem'.table[p] = f
             /\ \A q \in Pages : pages'[q] = IF q = p THEN Touched(pages[p], f, write)
                                             ELSE IF q = v THEN AbsentPage
                                             ELSE pages[q]
             /\ Resident' = (Resident \ {v}) \cup {p}
             /\ Touched(pages[p], f, write).frame = f
<1> DEFINE f == Victim(pol)
           v == mem.frames[f]
           n == MapPage(ReleaseFrame(mem, f), p)
<1>1. p \in Pages
  BY DEF registered
<1>2. Exact(mem) /\ MutuallyInverse(mem) /\ mem \in Memory
  BY CoherentMemory
<1>3. /\ f \in OccupiedFrames(mem) /\ v \in registered /\ v \in Pages
      /\ pages[v].frame = f /\ IsMappingConsistent(mem, v)
      /\ ~IsMapped(mem, p) /\ ~IsPageMapped(mem, p) /\ ~HasFreeFrame(mem)
      /\ pages[p].frame = NoFrame
  BY DEF FaultWithReplacement, Evictable, Faulting, registered
<1>4. CanReleaseFrame(mem, f)
  BY <1>3 DEF CanReleaseFrame, IInv, MappingCoherent
<1>5. /\ mem' = n
      /\ pages' = [pages EXCEPT ![v] = AbsentPage, ![p] = Touched(@, f, write)]
  BY DEF FaultWithReplacement
<1> HIDE DEF f
<1>6. /\ f \in Frames /\ v # p
      /\ \A q \in Pages : n.table[q] = IF q = p THEN f
                                       ELSE IF q = v THEN NoFrame
                                       ELSE mem.table[q]
  BY <1>1, <1>2, <1>3, <1>4, ReplacementMemory
<1> HIDE DEF n, v
<1>7. f # NoFrame /\ pages \in [Pages -> PageRecords]
  BY <1>6, NoFrameAssumption, NumFramesAssumption DEF Frames, FrameIds, PageRecords, IInv, TypeOK
<1>8. \A q \in Pages : pages'[q] = IF q = p THEN Touched(pages[p], f, write)
                                   ELSE IF q = v THEN AbsentPage
                                   ELSE pages[q]
  BY <1>1, <1>3, <1>5, <1>6, <1>7
<1>9. Touched(pages[p], f, write).frame = f
  BY DEF Touched
<1>10. AbsentPage.frame = NoFrame
  BY DEF AbsentPage
<1>11. Resident' = (Resident \ {v}) \cup {p}
  BY <1>1, <1>3, <1>6, <1>7, <1>8, <1>9, <1>10 DEF Resident
<1>12. v \in Resident /\ p \in Pages \ Resident /\ mem'.table[p] = f
  BY <1>1, <1>3, <1>5, <1>6, <1>7 DEF Resident
<1> QED
  BY <1>3, <1>6, <1>8, <1>9, <1>11, <1>12 DEF f, v

-----------------------------------------------------------------------------
(***************************************************************************)
(* What the policy is told of each step.                                   *)
(***************************************************************************)
Follows == IsPolicy(pol, Pages, Frames) /\ PolicyTracksResidents

(* After a fault served from a free frame the policy tracks the loaded page
   with that frame. *)
LEMMA FreeFrameFollows ==
  ASSUME PInv, NEW pid \in Processes, NEW p \in registered, NEW a, NEW write \in BOOLEAN,
         FaultWithFreeFrame(pid, p, a, write)
  PROVE  /\ Follows'
         /\ pol'.replacements = pol.replacements
         /\ pol'.dirtyEvictions = pol.dirtyEvictions
<1>1. PICK f \in Frames \ OccupiedFrames(mem) :
        /\ f = MapPage(mem, p).table[p]
        /\ p \in Pages \ Resident
        /\ \A q \in Pages :
             pages'[q] = IF q = p THEN Touched(pages[p], f, write) ELSE pages[q]
        /\ Resident' = Resident \cup {p}
        /\ Touched(pages[p], f, write).frame = f
  BY FreeFrameEffect DEF PInv
<1>2. \A q \in Resident : pages[q].frame \in OccupiedFrames(mem) /\ q \in Pages
  BY ResidentFacts DEF PInv
<1>3. \A e : e \in ResidentPairs <=> \E q \in Resident : e = Pair(q, pages[q].frame)
  BY DEF ResidentPairs, Pair
<1>4. IsPolicy(pol, Pages, Frames) /\ Tracked(pol) = ResidentPairs
  BY DEF PInv, PolicyTracksResidents
<1>5. ~Conflicts(Tracked(pol), p, f)
  <2> SUFFICES ASSUME NEW e \in ResidentPairs, e.page = p \/ e.frame = f PROVE FALSE
    BY <1>4 DEF Conflicts
  <2>1. PICK q \in Resident : e = Pair(q, pages[q].frame)
    BY <1>3
  <2>2. e.page = q /\ e.frame = pages[q].frame
    BY <2>1 DEF Pair
  <2> QED
    BY <1>1, <1>2, <2>2
<1>6. pol' = AfterLoad(pol, p, f)
  BY <1>1 DEF FaultWithFreeFrame
<1>7. /\ IsPolicy(pol', Pages, Frames)
      /\ Tracked(pol') = Tracked(pol) \cup {Pair(p, f)}
      /\ pol'.replacements = pol.replacements
      /\ pol'.dirtyEvictions = pol.dirtyEvictions
  BY <1>1, <1>4, <1>5, <1>6, AfterLoadTracks
<1>8. \A e : e \in ResidentPairs' <=> \E q \in Resident' : e = Pair(q, pages'[q].frame)
  BY DEF ResidentPairs, Pair
<1>9. pages'[p].frame = f /\ \A q \in Resident : pages'[q] = pages[q]
  BY <1>1, <1>2
<1>10. \A e : e \in ResidentPairs' <=> e \in ResidentPairs \/ e = Pair(p, f)
  BY <1>1, <1>3, <1>8, <1>9
<1>11. Tracked(pol') = ResidentPairs'
  BY <1>4, <1>7, <1>10
<1> QED
  BY <1>7, <1>11 DEF Follows, PolicyTracksResidents

(* The policy chooses, forgets the victim and takes in the new page. *)
LEMMA ReplacementFollows ==
  ASSUME PInv, NEW pid \in Processes, NEW p \in registered, NEW a, NEW write \in BOOLEAN,
         FaultWithReplacement(pid, p, a, write)
  PROVE  /\ Follows'
         /\ pol'.replacements = pol.replacements + 1
         /\ pol'.dirtyEvictions = pol.dirtyEvictions
              + IF pages[mem.frames[Victim(pol)]].dirty THEN 1 ELSE 0
<1> DEFINE f == Victim(pol)
           v == mem.frames[f]
           d == pages[v].dirty
           c == AfterChoice(pol)
           r == PageRemoved(c, v, f)
           n == AfterLoad(r, p, f)
<1>1. /\ f \in Frames
      /\ v \in Resident /\ p \in Pages \ Resident
      /\ pages[v].frame = f
      /\ \A q \in Pages : pages'[q] = IF q = p THEN Touched(pages[p], f, write)
                                      ELSE IF q = v THEN AbsentPage
                                      ELSE pages[q]
      /\ Resident' = (Resident \ {v}) \cup {p}
      /\ Touched(pages[p], f, write).frame = f
  BY ReplacementEffect DEF PInv
<1>2. /\ HasVictim(pol)
      /\ pol' = IF d THEN RecordDirtyEviction(n) ELSE n
  BY DEF FaultWithReplacement, AfterReplacement
<1>3. IsPolicy(pol, Pages, Frames) /\ Tracked(pol) = ResidentPairs
  BY DEF PInv, PolicyTracksResidents
<1>4. \A q \in Resident : q \in Pages /\ mem.frames[pages[q].frame] = q
  BY ResidentFacts DEF PInv
<1>5. \A e : e \in ResidentPairs <=> \E q \in Resident : e = Pair(q, pages[q].frame)
  BY DEF ResidentPairs, Pair
<1>6. /\ IsPolicy(c, Pages, Frames) /\ Tracked(c) = Tracked(pol)
      /\ c.replacements = pol.replacements + 1
      /\ c.dirtyEvictions = pol.dirtyEvictions
  BY <1>2, <1>3, PolicyAfterChoice
<1> HIDE DEF c, f, v
<1>7. /\ IsPolicy(r, Pages, Frames) /\ Tracked(r) = Tracked(c) \ {Pair(v, f)}
      /\ r.replacements = c.replacements
      /\ r.dirtyEvictions = c.dirtyEvictions
  BY <1>1, <1>4, <1>6, PolicyPageRemoved
<1> HIDE DEF r
<1>8. ~Conflicts(Tracked(r), p, f)
  <2> SUFFICES ASSUME NEW e \in ResidentPairs, e # Pair(v, f), e.page = p \/ e.frame = f
               PROVE  FALSE
    BY <1>3, <1>6, <1>7 DEF Conflicts
  <2>1. PICK q \in Resident : e = Pair(q, pages[q].frame)
    BY <1>5
  <2>2. e.page = q /\ e.frame = pages[q].frame
    BY <2>1 DEF Pair
  <2>3. pages[q].frame = f => q = v
    BY <1>1, <1>4 DEF v
  <2> QED
    BY <1>1, <2>1, <2>2, <2>3
<1>9. /\ IsPolicy(n, Pages, Frames)
      /\ Tracked(n) = Tracked(r) \cup {Pair(p, f)}
      /\ n.replacements = r.replacements
      /\ n.dirtyEvictions = r.dirtyEvictions
  <2>1. p \in Pages /\ f \in Frames /\ IsPolicy(r, Pages, Frames)
    BY <1>1, <1>7
  <2> QED
    BY <2>1, <1>8, AfterLoadTracks
<1> HIDE DEF n, d
<1>10. /\ IsPolicy(pol', Pages, Frames)
       /\ Tracked(pol') = Tracked(n)
       /\ pol'.replacements = n.replacements
       /\ pol'.dirtyEvictions = n.dirtyEvictions + IF d THEN 1 ELSE 0
  <2>1. n.dirtyEvictions \in Nat
    BY <1>9 DEF IsPolicy
  <2>2. LET m == RecordDirtyEviction(n)
        IN  /\ IsPolicy(m, Pages, Frames)
            /\ Tracked(m) = Tracked(n)
            /\ m.kind = n.kind /\ m.state = n.state
            /\ m.replacements = n.replacements
            /\ m.dirtyEvictions = n.dirtyEvictions + 1
    BY <1>9, PolicyRecordDirtyEviction
  <2> QED
    BY <1>2, <1>9, <2>1, <2>2
<1>11. \A e : e \in ResidentPairs' <=> \E q \in Resident' : e = Pair(q, pages'[q].frame)
  BY DEF ResidentPairs, Pair
<1>12. /\ pages'[p].frame = f
       /\ \A q \in Resident \ {v} : pages'[q] = pages[q]
  BY <1>1, <1>4
<1>13. \A e : e \in ResidentPairs' <=> (e \in ResidentPairs /\ e # Pair(v, f)) \/ e = Pair(p, f)
  <2>1. \A q \in Resident \ {v} : Pair(q, pages[q].frame) # Pair(v, f)
    BY DEF Pair
  <2>2. \A e : e \in ResidentPairs' <=>
                 (\E q \in Resident \ {v} : e = Pair(q, pages[q].frame)) \/ e = Pair(p, f)
    BY <1>1, <1>11, <1>12
  <2>3. \A e : (e \in ResidentPairs /\ e # Pair(v, f)) <=>
                 (\E q \in Resident \ {v} : e = Pair(q, pages[q].frame))
    BY <1>1, <1>5, <2>1
  <2> QED
    BY <2>2, <2>3
<1>14. Tracked(pol') = ResidentPairs'
  BY <1>3, <1>6, <1>7, <1>9, <1>10, <1>13
<1>15. /\ pol'.replacements = pol.replacements + 1
       /\ pol'.dirtyEvictions = pol.dirtyEvictions + IF d THEN 1 ELSE 0
  BY <1>6, <1>7, <1>9, <1>10
<1> QED
  BY <1>10, <1>14, <1>15 DEF Follows, PolicyTracksResidents, d, v, f

(* A page that is resident stays where it is when it is used. *)
LEMMA ResidentAccessFollows ==
  ASSUME PInv, NEW pid \in Processes, NEW p \in registered, NEW a, NEW write \in BOOLEAN,
         AccessResident(pid, p, a, write)
  PROVE  /\ Follows'
         /\ Resident' = Resident
         /\ \A q \in Pages : /\ pages'[q].frame = pages[q].frame
                             /\ q # p => pages'[q] = pages[q]
         /\ pol'.replacements = pol.replacements
         /\ pol'.dirtyEvictions = pol.dirtyEvictions
<1> DEFINE f == mem.table[p]
<1>1. p \in Pages
  BY DEF registered
<1>2. f \in Frames /\ pages[p].frame = f
  BY <1>1, CoherentMemory, InverseConsistent DEF AccessResident, OccupiedFrames, PInv
<1>3. /\ pages' = [pages EXCEPT ![p] = Touched(@, f, write)]
      /\ pol' = PageAccessed(pol, p, f)
  BY DEF AccessResident
<1> HIDE DEF f
<1>4. \A q \in Pages : /\ pages'[q].frame = pages[q].frame
                       /\ q # p => pages'[q] = pages[q]
  BY <1>1, <1>2, <1>3, TouchedType DEF PInv, IInv
<1>5. Resident' = Resident /\ ResidentPairs' = ResidentPairs
  BY <1>4, SamePairs
<1>6. IsPolicy(pol, Pages, Frames) /\ Tracked(pol) = ResidentPairs
  BY DEF PInv, PolicyTracksResidents
<1>7. /\ IsPolicy(pol', Pages, Frames) /\ Tracked(pol') = Tracked(pol)
      /\ pol'.replacements = pol.replacements
      /\ pol'.dirtyEvictions = pol.dirtyEvictions
  BY <1>1, <1>2, <1>3, <1>6, PolicyPageAccessed
<1> QED
  BY <1>4, <1>5, <1>6, <1>7 DEF Follows, PolicyTracksResidents

(* A choice whose victim is refused leaves the policy's pairs as they were. *)
LEMMA RefusalFollows ==
  ASSUME PInv, UNCHANGED pages, pol' = AfterChoice(pol)
  PROVE  /\ Follows'
         /\ pol'.replacements = pol.replacements + IF HasVictim(pol) THEN 1 ELSE 0
         /\ pol'.dirtyEvictions = pol.dirtyEvictions
<1>1. IsPolicy(pol, Pages, Frames) /\ Tracked(pol) = ResidentPairs
  BY DEF PInv, PolicyTracksResidents
<1>2. ResidentPairs' = ResidentPairs
  BY SamePairs
<1>3. /\ IsPolicy(pol', Pages, Frames) /\ Tracked(pol') = Tracked(pol)
      /\ pol'.replacements = pol.replacements + IF HasVictim(pol) THEN 1 ELSE 0
      /\ pol'.dirtyEvictions = pol.dirtyEvictions
  <2>1. LET n == AfterChoice(pol)
        IN  /\ IsPolicy(n, Pages, Frames)
            /\ Tracked(n) = Tracked(pol)
            /\ n.kind = pol.kind
            /\ n.replacements = pol.replacements + IF HasVictim(pol) THEN 1 ELSE 0
            /\ n.dirtyEvictions = pol.dirtyEvictions
    BY <1>1, PolicyAfterChoice
  <2> QED
    BY <2>1
<1> QED
  BY <1>1, <1>2, <1>3 DEF Follows, PolicyTracksResidents

(***************************************************************************)
(* While a memory with frames is full the policy has a victim, and the     *)
(* unit can evict it: its frame is occupied by a registered page that is   *)
(* there by every record.                                                  *)
(***************************************************************************)
LEMMA VictimEvictable ==
  ASSUME PInv
  PROVE  /\ ~HasFreeFrame(mem) /\ NumFrames # 0 => HasVictim(pol)
         /\ HasVictim(pol) => Victim(pol) \in Frames /\ Evictable(Victim(pol))
<1>1. IsPolicy(pol, Pages, Frames) /\ Tracked(pol) = ResidentPairs
  BY DEF PInv, PolicyTracksResidents
<1>2. /\ HasVictim(pol) <=> ResidentPairs # {}
      /\ HasVictim(pol) => \E e \in ResidentPairs : Victim(pol) = e.frame
  BY <1>1, PolicyVictim
<1>3. \A e : e \in ResidentPairs <=> \E p \in Resident : e = Pair(p, pages[p].frame)
  BY DEF ResidentPairs, Pair
<1>4. ASSUME ~HasFreeFrame(mem), NumFrames # 0 PROVE HasVictim(pol)
  <2>1. Cardinality(Resident) = NumFrames
    BY <1>4, ResidentCount DEF PInv
  <2>2. Resident # {}
    BY <1>4, <2>1, FS_EmptySet
  <2> QED
    BY <1>2, <1>3, <2>2
<1>5. ASSUME HasVictim(pol) PROVE Victim(pol) \in Frames /\ Evictable(Victim(pol))
  <2>1. PICK p \in Resident : Victim(pol) = Pair(p, pages[p].frame).frame
    BY <1>2, <1>3, <1>5
  <2>2. Victim(pol) = pages[p].frame
    BY <2>1 DEF Pair
  <2>3. /\ p \in Pages /\ p \in registered
        /\ pages[p].frame \in OccupiedFrames(mem)
        /\ pages[p].frame \in Frames
        /\ mem.frames[pages[p].frame] = p
        /\ IsMappingConsistent(mem, p)
    BY ResidentFacts DEF PInv
  <2> QED
    BY <2>2, <2>3 DEF Evictable
<1> QED
  BY <1>4, <1>5

(* In a coherent unit the records of a registered page never contradict    *)
(* each other, so access() never refuses it for that, and only a memory    *)
(* without frames is full without a victim.                                *)
LEMMA NeverInconsistent ==
  ASSUME PInv, NEW pid \in Processes, NEW p \in registered
  PROVE  /\ ~AccessInconsistent(pid, p) /\ ~FaultRefused(pid, p)
         /\ NumFrames # 0 => ~FaultWithoutVictim(pid, p)
<1>1. p \in Pages
  BY DEF registered
<1>2. Exact(mem) /\ MutuallyInverse(mem) /\ pages[p].frame = mem.table[p]
  BY <1>1, CoherentMemory, ResidentFacts DEF PInv
<1>3. IsMapped(mem, p) => IsMappingConsistent(mem, p)
  BY <1>1, <1>2, InverseConsistent
<1>4. ~IsMapped(mem, p) => ~IsPageMapped(mem, p) /\ pages[p].frame = NoFrame
  <2> SUFFICES ASSUME ~IsMapped(mem, p), NEW f \in Frames, mem.frames[f] = p PROVE FALSE
    BY <1>2 DEF IsMapped, IsPageMapped, FramesHolding
  <2>1. f \in FrameIds
    BY NumFramesAssumption DEF Frames, FrameIds
  <2>2. mem.table[p] = f
    BY <1>1, <1>2, <2>1 DEF MutuallyInverse
  <2> QED
    BY <2>1, <2>2, NoFrameAssumption DEF IsMapped
<1> QED
  BY <1>2, <1>3, <1>4, VictimEvictable
     DEF AccessInconsistent, FaultRefused, FaultWithoutVictim

(* What the outcomes of an access that remain do to the policy. *)
LEMMA AccessFollows ==
  ASSUME PInv, NEW pid \in Processes, NEW a \in Addresses, NEW write \in BOOLEAN,
         Access(pid, a, write)
  PROVE  Follows'
<1> DEFINE p == Resolve(pid, a)
<1>1. CASE AccessUnknown(pid, a)
  <2>1. UNCHANGED <<pages, pol>>
    BY <1>1 DEF AccessUnknown
  <2> QED
    BY <2>1 DEF PInv, Follows, PolicyTracksResidents, ResidentPairs, Resident
<1>2. CASE Known(pid, a) /\ AccessKnown(pid, p, a, write)
  <2>1. p \in registered
    BY <1>2 DEF Known
  <2> HIDE DEF p
  <2>2. CASE AccessResident(pid, p, a, write)
    BY <2>1, <2>2, ResidentAccessFollows
  <2>3. CASE AccessInconsistent(pid, p) \/ FaultRefused(pid, p)
    BY <2>1, <2>3, NeverInconsistent
  <2>4. CASE FaultWithFreeFrame(pid, p, a, write)
    BY <2>1, <2>4, FreeFrameFollows
  <2>5. CASE FaultWithoutVictim(pid, p) \/ FaultRefusesVictim(pid, p, a)
    BY <2>5, RefusalFollows DEF FaultWithoutVictim, FaultRefusesVictim
  <2>6. CASE FaultWithReplacement(pid, p, a, write)
    BY <2>1, <2>6, ReplacementFollows
  <2> QED
    BY <1>2, <2>2, <2>3, <2>4, <2>5, <2>6 DEF AccessKnown, p
<1> QED
  BY <1>1, <1>2 DEF Access

(* A registration leaves the page where it was: nowhere. *)
LEMMA RegistrationFollows ==
  ASSUME PInv, NEW p \in Pages, Registrable(p),
         pages' = [pages EXCEPT ![p] = AbsentPage], UNCHANGED pol
  PROVE  Follows' /\ Resident' = Resident
<1>1. pages[p].frame = NoFrame
  BY DEF PInv, IInv, MappingCoherent, Registrable, IsMapped
<1>2. \A q \in Pages : pages'[q].frame = pages[q].frame
  BY <1>1 DEF PInv, IInv, TypeOK, AbsentPage
<1>3. Resident' = Resident /\ ResidentPairs' = ResidentPairs
  BY <1>2, SamePairs
<1> QED
  BY <1>3 DEF PInv, Follows, PolicyTracksResidents

(* reset() empties the memory and the policy together. *)
LEMMA ResetFollows ==
  ASSUME PInv, Reset
  PROVE  /\ Follows' /\ Resident' = {}
         /\ pol'.replacements = 0 /\ pol'.dirtyEvictions = 0
<1>1. pages' = [p \in Pages |-> AbsentPage]
  BY ResetEmpties DEF PInv
<1>2. Resident' = {} /\ ResidentPairs' = {}
  BY <1>1 DEF Resident, ResidentPairs, AbsentPage
<1>3. pol.kind \in PolicyKinds /\ pol' = NewPolicy(pol.kind)
  BY DEF PInv, IsPolicy, IsStateOf, Reset, ResetPolicy
<1>4. /\ IsPolicy(pol', Pages, Frames) /\ Tracked(pol') = {}
      /\ pol'.replacements = 0 /\ pol'.dirtyEvictions = 0
  BY <1>3, PolicyNew
<1> QED
  BY <1>2, <1>4 DEF Follows, PolicyTracksResidents

(* Supplying a reference string changes nothing the policy tracks. *)
LEMMA SupplyFollows ==
  ASSUME PInv, NEW references \in References, SupplyReferences(references)
  PROVE  /\ Follows'
         /\ pol'.replacements = pol.replacements
         /\ pol'.dirtyEvictions = pol.dirtyEvictions
<1>1. /\ IsPolicy(pol, Pages, Frames) /\ Tracked(pol) = ResidentPairs
      /\ pol.kind = "OPTIMAL" /\ pol' = SetReferenceSequence(pol, references)
      /\ pages' = pages /\ Len(references) \in Nat
  BY ReferencesAssumption DEF PInv, PolicyTracksResidents, SupplyReferences
<1>2. ResidentPairs' = ResidentPairs
  BY <1>1, SamePairs
<1>3. /\ IsPolicy(pol', Pages, Frames) /\ Tracked(pol') = Tracked(pol)
      /\ pol'.replacements = pol.replacements
      /\ pol'.dirtyEvictions = pol.dirtyEvictions
  BY <1>1, PolicySetReferences
<1> QED
  BY <1>1, <1>2, <1>3 DEF Follows, PolicyTracksResidents

(* A coherent unit without residents and with a new policy. *)
LEMMA EmptyFollows ==
  ASSUME IInv, pages = [p \in Pages |-> AbsentPage],
         NEW kind \in Kinds, pol = NewPolicy(kind)
  PROVE  PInv
<1>1. kind \in PolicyKinds
  BY KindsAssumption
<1>2. IsPolicy(pol, Pages, Frames) /\ Tracked(pol) = {}
  BY <1>1, PolicyNew
<1>3. ResidentPairs = {}
  BY DEF ResidentPairs, Resident, AbsentPage
<1> QED
  BY <1>2, <1>3 DEF PInv, PolicyTracksResidents

(* A new unit has no resident and a policy that tracks nothing. *)
LEMMA InitFollows == Init => PInv
<1> SUFFICES ASSUME Init PROVE PInv
  OBVIOUS
<1>1. PICK kind \in Kinds : pol = NewPolicy(kind)
  BY DEF Init
<1> QED
  BY <1>1, InitCoherent, EmptyFollows DEF Init

(* Every step of the unit keeps the policy in step with its residents. *)
LEMMA NextFollows == PInv /\ [Next]_vars => PInv'
<1> SUFFICES ASSUME PInv, [Next]_vars PROVE PInv'
  OBVIOUS
<1>1. IInv'
  BY NextCoherent DEF PInv
<1>2. ASSUME NEW r \in IdRegistrations, RegisterPage(r[1], r[2]) PROVE Follows'
  <2>1. r[1] \in Pages
    BY VirtualPagesAssumption
  <2> QED
    BY <1>2, <2>1, RegistrationFollows DEF RegisterPage
<1>3. ASSUME NEW r \in VpnRegistrations, RegisterPageAt(r[1], r[2], r[3]) PROVE Follows'
  <2>1. r[1] \in Pages
    BY VirtualPagesAssumption
  <2> QED
    BY <1>3, <2>1, RegistrationFollows DEF RegisterPageAt
<1>4. ASSUME NEW pid \in Processes, NEW a \in Addresses, NEW write \in BOOLEAN,
             Access(pid, a, write)
      PROVE  Follows'
  BY <1>4, AccessFollows
<1>5. ASSUME NEW references \in References, SupplyReferences(references) PROVE Follows'
  BY <1>5, SupplyFollows
<1>6. ASSUME Reset PROVE Follows'
  BY <1>6, ResetFollows
<1>7. ASSUME UNCHANGED vars PROVE Follows'
  <2>1. UNCHANGED <<pages, pol>>
    BY <1>7 DEF vars
  <2> QED
    BY <2>1 DEF PInv, Follows, PolicyTracksResidents, ResidentPairs, Resident
<1>8. Follows'
  BY <1>2, <1>3, <1>4, <1>5, <1>6, <1>7 DEF Next
<1> QED
  BY <1>1, <1>8 DEF PInv, Follows

(* Hence the policy is in step with the residents in every reachable state. *)
LEMMA PolicyInvariant == Spec => []PInv
<1> QED
  BY InitFollows, NextFollows, PTL DEF Spec

(* Whatever the policy and however often it is asked, it takes exactly the *)
(* resident pages to be resident, each in its frame.                       *)
THEOREM PolicyTracksTheorem == Spec => []PolicyTracksResidents
<1>1. PInv => PolicyTracksResidents
  BY DEF PInv
<1> QED
  BY <1>1, PolicyInvariant, PTL

-----------------------------------------------------------------------------
(* What the result of an access tells about residency. *)

LEMMA NothingMovedTells ==
  ASSUME Resident' = Resident,
         ~(result'.success /\ result'.pageFault), ~result'.replaced, ~result'.dirtyEviction
  PROVE  LET left    == Resident \ Resident'
             entered == Resident' \ Resident
         IN  /\ entered # {} <=> result'.success /\ result'.pageFault
             /\ left # {} <=> result'.replaced
             /\ left # {} => ~HasFreeFrame(mem) /\ entered # {}
             /\ (\E p \in left : pages[p].dirty) <=> result'.dirtyEviction
             /\ Cardinality(left) <= 1 /\ Cardinality(entered) <= 1
<1>1. Cardinality({}) = 0
  BY FS_EmptySet
<1>2. Resident \ Resident' = {} /\ Resident' \ Resident = {}
  OBVIOUS
<1> QED
  BY <1>1, <1>2

(* The result of a fault served from a free frame says that one page
   entered and none left. *)
LEMMA FreeFrameTells ==
  ASSUME PInv, NEW pid \in Processes, NEW p \in registered, NEW a, NEW write \in BOOLEAN,
         FaultWithFreeFrame(pid, p, a, write)
  PROVE  LET left    == Resident \ Resident'
             entered == Resident' \ Resident
         IN  /\ entered # {} <=> result'.success /\ result'.pageFault
             /\ left # {} <=> result'.replaced
             /\ left # {} => ~HasFreeFrame(mem) /\ entered # {}
             /\ (\E q \in left : pages[q].dirty) <=> result'.dirtyEviction
             /\ Cardinality(left) <= 1 /\ Cardinality(entered) <= 1
<1>1. p \notin Resident /\ Resident' = Resident \cup {p}
  BY FreeFrameEffect DEF PInv
<1>2. Resident \ Resident' = {} /\ Resident' \ Resident = {p}
  BY <1>1
<1>3. Cardinality({}) = 0 /\ Cardinality({p}) = 1
  BY FS_EmptySet, FS_Singleton
<1>4. result'.success /\ result'.pageFault /\ ~result'.replaced /\ ~result'.dirtyEviction
  BY DEF FaultWithFreeFrame, Success
<1> QED
  BY <1>2, <1>3, <1>4

(* The result of a replacement says that one page entered and one left, and
   whether that one was dirty. *)
LEMMA ReplacementTells ==
  ASSUME PInv, NEW pid \in Processes, NEW p \in registered, NEW a, NEW write \in BOOLEAN,
         FaultWithReplacement(pid, p, a, write)
  PROVE  LET left    == Resident \ Resident'
             entered == Resident' \ Resident
         IN  /\ entered # {} <=> result'.success /\ result'.pageFault
             /\ left # {} <=> result'.replaced
             /\ left # {} => ~HasFreeFrame(mem) /\ entered # {}
             /\ (\E q \in left : pages[q].dirty) <=> result'.dirtyEviction
             /\ Cardinality(left) <= 1 /\ Cardinality(entered) <= 1
<1> DEFINE v == mem.frames[Victim(pol)]
<1>1. v \in Resident /\ p \notin Resident /\ Resident' = (Resident \ {v}) \cup {p}
  BY ReplacementEffect DEF PInv
<1>2. /\ result'.success /\ result'.pageFault /\ result'.replaced
      /\ result'.dirtyEviction = pages[v].dirty
      /\ ~HasFreeFrame(mem)
  BY DEF FaultWithReplacement, Success
<1> HIDE DEF v
<1>3. Resident \ Resident' = {v} /\ Resident' \ Resident = {p}
  BY <1>1
<1>4. Cardinality({v}) = 1 /\ Cardinality({p}) = 1
  BY FS_Singleton
<1> QED
  BY <1>2, <1>3, <1>4

(* A page enters memory only by a successful fault, leaves it only by a    *)
(* replacement while memory is full, and what leaves was dirty just when   *)
(* the result reports a dirty eviction.                                    *)
THEOREM ResultTheorem == Spec => ResultTellsResidency
<1> DEFINE left    == Resident \ Resident'
           entered == Resident' \ Resident
           Tells   == AccessStep =>
                        /\ entered # {} <=> result'.success /\ result'.pageFault
                        /\ left # {} <=> result'.replaced
                        /\ left # {} => ~HasFreeFrame(mem) /\ entered # {}
                        /\ (\E p \in left : pages[p].dirty) <=> result'.dirtyEviction
                        /\ Cardinality(left) <= 1 /\ Cardinality(entered) <= 1
<1>1. PInv => Tells
  <2> SUFFICES ASSUME PInv, NEW pid \in Processes, NEW a \in Addresses,
                      NEW write \in BOOLEAN, Access(pid, a, write)
               PROVE  Tells
    BY DEF AccessStep
  <2> DEFINE p == Resolve(pid, a)
  <2>1. CASE AccessUnknown(pid, a)
    <3>1. pages' = pages /\ result' = Failure
      BY <2>1 DEF AccessUnknown
    <3> QED
      BY <3>1, NothingMovedTells DEF Resident, Failure
  <2>2. CASE Known(pid, a) /\ AccessKnown(pid, p, a, write)
    <3>1. p \in registered
      BY <2>2 DEF Known
    <3> HIDE DEF p
    <3>2. CASE AccessResident(pid, p, a, write)
      <4>1. Resident' = Resident
        BY <3>1, <3>2, ResidentAccessFollows
      <4>2. ~result'.pageFault /\ ~result'.replaced /\ ~result'.dirtyEviction
        BY <3>2 DEF AccessResident, Success
      <4> QED
        BY <4>1, <4>2, NothingMovedTells
    <3>3. CASE AccessInconsistent(pid, p) \/ FaultRefused(pid, p)
      BY <3>1, <3>3, NeverInconsistent
    <3>4. CASE FaultWithFreeFrame(pid, p, a, write)
      BY <3>1, <3>4, FreeFrameTells
    <3>5. CASE FaultWithoutVictim(pid, p) \/ FaultRefusesVictim(pid, p, a)
      <4>1. /\ pages' = pages
            /\ ~result'.success /\ ~result'.replaced /\ ~result'.dirtyEviction
        BY <3>5 DEF FaultWithoutVictim, FaultRefusesVictim, Failure
      <4> QED
        BY <4>1, NothingMovedTells DEF Resident
    <3>6. CASE FaultWithReplacement(pid, p, a, write)
      BY <3>1, <3>6, ReplacementTells
    <3> QED
      BY <2>2, <3>2, <3>3, <3>4, <3>5, <3>6 DEF AccessKnown, p
  <2> QED
    BY <2>1, <2>2 DEF Access
<1>2. PInv /\ [Next]_vars => [Tells]_vars
  BY <1>1
<1>3. Spec => [][Tells]_vars
  BY <1>2, PolicyInvariant, PTL DEF Spec
<1> QED
  BY <1>3 DEF ResultTellsResidency

-----------------------------------------------------------------------------
(* Addresses *)

(* The check before a replacement is exactly that the address fits, and    *)
(* the address then names the frame and the byte asked for.                *)
LEMMA AddressOfByte ==
  ASSUME NEW f \in Frames, NEW a \in Addresses, Representable(f, a)
  PROVE  /\ PhysicalAddress(f, a) \div PageSize = f
         /\ PhysicalAddress(f, a) % PageSize = a % PageSize
<1> DEFINE s == PageSize
           b == AddressBound
           o == a % s
           q == ((b - 1) - o) \div s
           x == f * s + o
<1>1. s \in Nat \ {0} /\ b \in Nat \ {0} /\ a \in Nat /\ f \in Nat
  BY AddressesAssumption, NumFramesAssumption DEF Frames
<1>2. o \in 0 .. s - 1
  BY <1>1
<1>3. f <= q
  BY DEF Representable
<1> HIDE DEF o
<1>4. q \in Int /\ q * s <= (b - 1) - o
  <2> DEFINE y == (b - 1) - o
  <2>1. y \in Int
    BY <1>1, <1>2
  <2> HIDE DEF y
  <2>2. y \div s \in Int /\ (y \div s) * s <= y
    BY <1>1, <2>1
  <2> QED
    BY <2>2 DEF y
<1> HIDE DEF q, s, b
<1>5. f * s <= q * s
  BY <1>1, <1>3, <1>4
<1>6. x \in 0 .. b - 1
  BY <1>1, <1>2, <1>4, <1>5
<1>7. x % b = x
  <2> HIDE DEF x
  <2> QED
    BY <1>1, <1>6
<1>8. x \div s = f /\ x % s = o
  BY <1>1, <1>2
<1>9. PhysicalAddress(f, a) = x
  BY <1>7 DEF PhysicalAddress, x, o, s, b
<1> QED
  BY <1>8, <1>9 DEF o, s

(* A successful access names the frame that holds the page afterwards. *)
LEMMA SuccessNamesFrame ==
  ASSUME IInv', NEW p \in Pages, NEW f \in Frames, NEW a \in Addresses,
         mem'.table[p] = f,
         NEW fault, NEW replacement, NEW dirty,
         result' = Success(f, a, fault, replacement, dirty)
  PROVE  /\ result'.success
         /\ result'.frame = mem'.table[p]
         /\ mem'.frames[result'.frame] = p
         /\ Representable(result'.frame, a) =>
              /\ result'.address \div PageSize = result'.frame
              /\ result'.address % PageSize = a % PageSize
<1>1. result'.success /\ result'.frame = f /\ result'.address = PhysicalAddress(f, a)
  BY DEF Success
<1>2. f \in FrameIds
  BY NumFramesAssumption DEF Frames, FrameIds
<1>3. mem'.frames[f] = p
  BY <1>2 DEF IInv, MappingCoherent, MutuallyInverse
<1> QED
  BY <1>1, <1>3, AddressOfByte

(***************************************************************************)
(* access() succeeds for every page its process can reach: the checks it   *)
(* makes on the way cannot fail, and a full memory that has frames always  *)
(* has a victim.  What remains is the victim whose frame has no            *)
(* representable address, and the memory without frames, where the access  *)
(* fails and says that there was a page fault.                             *)
(***************************************************************************)
THEOREM AccessTheorem == Spec => KnownAccessSucceeds
<1> DEFINE Succeeds ==
      \A pid \in Processes, a \in Addresses, write \in BOOLEAN :
        Known(pid, a) /\ AccessKnown(pid, Resolve(pid, a), a, write) =>
          \/ /\ result'.success
             /\ result'.frame = mem'.table[Resolve(pid, a)]
             /\ mem'.frames[result'.frame] = Resolve(pid, a)
             /\ Representable(result'.frame, a) =>
                  /\ result'.address \div PageSize = result'.frame
                  /\ result'.address % PageSize = a % PageSize
          \/ ~HasFreeFrame(mem) /\ HasVictim(pol) /\ ~Representable(Victim(pol), a)
          \/ NumFrames = 0 /\ ~result'.success /\ result'.pageFault
<1>1. PInv => Succeeds
  <2> SUFFICES ASSUME PInv, NEW pid \in Processes, NEW a \in Addresses, NEW write \in BOOLEAN,
                      Known(pid, a), AccessKnown(pid, Resolve(pid, a), a, write)
               PROVE  \/ /\ result'.success
                         /\ result'.frame = mem'.table[Resolve(pid, a)]
                         /\ mem'.frames[result'.frame] = Resolve(pid, a)
                         /\ Representable(result'.frame, a) =>
                              /\ result'.address \div PageSize = result'.frame
                              /\ result'.address % PageSize = a % PageSize
                      \/ ~HasFreeFrame(mem) /\ HasVictim(pol) /\ ~Representable(Victim(pol), a)
                      \/ NumFrames = 0 /\ ~result'.success /\ result'.pageFault
    OBVIOUS
  <2> DEFINE p == Resolve(pid, a)
  <2>1. p \in registered /\ p \in Pages
    BY DEF Known, registered
  <2>2. IInv'
    BY AccessKeeps DEF PInv, Access
  <2> HIDE DEF p
  <2>3. CASE AccessResident(pid, p, a, write)
    <3> DEFINE f == mem.table[p]
    <3>1. f \in Frames /\ mem'.table[p] = f
      BY <2>1, <2>3, CoherentMemory, InverseConsistent
         DEF AccessResident, OccupiedFrames, PInv
    <3>2. result' = Success(f, a, FALSE, FALSE, FALSE)
      BY <2>3 DEF AccessResident
    <3> HIDE DEF f
    <3> QED
      BY <2>1, <2>2, <3>1, <3>2, SuccessNamesFrame DEF p
  <2>4. CASE AccessInconsistent(pid, p) \/ FaultRefused(pid, p) \/ FaultWithoutVictim(pid, p)
    <3>1. FaultWithoutVictim(pid, p) /\ NumFrames = 0
      BY <2>1, <2>4, NeverInconsistent
    <3>2. result' = [Failure EXCEPT !.pageFault = TRUE]
      BY <3>1 DEF FaultWithoutVictim
    <3> QED
      BY <3>1, <3>2 DEF Failure
  <2>5. CASE FaultWithFreeFrame(pid, p, a, write)
    <3> DEFINE f == MapPage(mem, p).table[p]
    <3>1. f \in Frames /\ mem'.table[p] = f
      BY <2>1, <2>5, FreeFrameEffect DEF PInv
    <3>2. result' = Success(f, a, TRUE, FALSE, FALSE)
      BY <2>5 DEF FaultWithFreeFrame
    <3> HIDE DEF f
    <3> QED
      BY <2>1, <2>2, <3>1, <3>2, SuccessNamesFrame DEF p
  <2>6. CASE FaultRefusesVictim(pid, p, a)
    <3>1. /\ ~HasFreeFrame(mem) /\ HasVictim(pol)
          /\ ~Evictable(Victim(pol)) \/ ~Representable(Victim(pol), a)
      BY <2>6 DEF FaultRefusesVictim
    <3> QED
      BY <3>1, VictimEvictable
  <2>7. CASE FaultWithReplacement(pid, p, a, write)
    <3> DEFINE f == Victim(pol)
               d == pages[mem.frames[f]].dirty
    <3>1. f \in Frames /\ mem'.table[p] = f
      BY <2>1, <2>7, ReplacementEffect DEF PInv
    <3>2. result' = Success(f, a, TRUE, TRUE, d)
      BY <2>7 DEF FaultWithReplacement
    <3> HIDE DEF f, d
    <3> QED
      BY <2>1, <2>2, <3>1, <3>2, SuccessNamesFrame DEF p
  <2> QED
    BY <2>3, <2>4, <2>5, <2>6, <2>7 DEF AccessKnown, p
<1>2. PInv /\ [Next]_vars => [Succeeds]_vars
  BY <1>1
<1>3. Spec => [][Succeeds]_vars
  BY <1>2, PolicyInvariant, PTL DEF Spec
<1> QED
  BY <1>3 DEF KnownAccessSucceeds

-----------------------------------------------------------------------------
(***************************************************************************)
(* The sum over the processes is a fold that takes the processes in an     *)
(* order CHOOSE decides.  What it amounts to is the least function that    *)
(* satisfies its equation, which exists on the subsets of a finite set.    *)
(***************************************************************************)
FaultsIn(stats, S) == MapThenSumSet(LAMBDA pid : stats[pid].faults, S)

Some(s) == CHOOSE x \in s : TRUE

IsSum(g, stats, D) ==
  g = [s \in D |-> IF s = {} THEN 0
                   ELSE stats[Some(s)].faults + g[s \ {Some(s)}]]

SumsUp(g, stats, S) ==
  \A s \in SUBSET S : g[s] = IF s = {} THEN 0
                             ELSE stats[Some(s)].faults + g[s \ {Some(s)}]

SubsetsUpTo(S, k) == {s \in SUBSET S : Cardinality(s) <= k}

(* Taking some element away leaves a smaller set. *)
LEMMA TakeSome ==
  ASSUME NEW S, IsFiniteSet(S), NEW s \in SUBSET S, s # {}
  PROVE  /\ Some(s) \in s
         /\ s \ {Some(s)} \in SUBSET S
         /\ Cardinality(s) \in Nat \ {0}
         /\ Cardinality(s \ {Some(s)}) = Cardinality(s) - 1
<1>1. Some(s) \in s
  BY DEF Some
<1>2. IsFiniteSet(s)
  BY FS_Subset
<1>3. Cardinality(s) \in Nat /\ Cardinality(s) # 0
  BY <1>2, FS_CardinalityType, FS_EmptySet
<1>4. Cardinality(s \ {Some(s)}) = Cardinality(s) - 1
  BY <1>1, <1>2, FS_RemoveElement
<1> QED
  BY <1>1, <1>3, <1>4

(* A set with no more than no elements is empty. *)
LEMMA SizeOfSubset ==
  ASSUME NEW S, IsFiniteSet(S), NEW s \in SUBSET S
  PROVE  /\ Cardinality(s) \in Nat
         /\ Cardinality(s) <= Cardinality(S)
         /\ Cardinality(s) = 0 => s = {}
<1>1. IsFiniteSet(s) /\ Cardinality(s) <= Cardinality(S)
  BY FS_Subset
<1> QED
  BY <1>1, FS_CardinalityType, FS_EmptySet

(* Every finite set of processes has a function that sums its subsets. *)
LEMMA SumExists ==
  ASSUME NEW stats, NEW S, IsFiniteSet(S)
  PROVE  \E g : IsSum(g, stats, SUBSET S)
<1>1. ASSUME NEW N \in Nat
      PROVE  \E g : IsSum(g, stats, SubsetsUpTo(S, N))
  <2> DEFINE K == {k \in 0 .. N : ~\E g : IsSum(g, stats, SubsetsUpTo(S, k))}
  <2>1. SUFFICES ASSUME K # {} PROVE FALSE
    <3>1. N \in 0 .. N
      OBVIOUS
    <3> QED
      BY <3>1
  <2>2. K \in SUBSET Nat
    OBVIOUS
  <2> DEFINE m == Min(K)
  <2>3. m \in K /\ \A k \in K : m <= k
    BY <2>1, <2>2, LeastNatural
  <2> HIDE DEF m
  <2>4. m \in 0 .. N /\ ~\E g : IsSum(g, stats, SubsetsUpTo(S, m))
    BY <2>3
  <2>5. CASE m = 0
    <3> DEFINE g == [s \in SubsetsUpTo(S, 0) |-> 0]
    <3>1. \A s \in SubsetsUpTo(S, 0) : s = {}
      BY SizeOfSubset DEF SubsetsUpTo
    <3>2. IsSum(g, stats, SubsetsUpTo(S, 0))
      BY <3>1 DEF IsSum
    <3> QED
      BY <2>4, <2>5, <3>2
  <2>6. CASE m # 0
    <3>1. m - 1 \in 0 .. N /\ m - 1 \notin K
      BY <2>3, <2>4, <2>6
    <3>2. PICK g : IsSum(g, stats, SubsetsUpTo(S, m - 1))
      BY <3>1
    <3> DEFINE h == [s \in SubsetsUpTo(S, m) |->
                       IF s = {} THEN 0 ELSE stats[Some(s)].faults + g[s \ {Some(s)}]]
    <3>3. \A s \in SubsetsUpTo(S, m - 1) :
            g[s] = IF s = {} THEN 0 ELSE stats[Some(s)].faults + g[s \ {Some(s)}]
      BY <3>2 DEF IsSum
    <3>4. \A s \in SubsetsUpTo(S, m - 1) : s \in SubsetsUpTo(S, m) /\ h[s] = g[s]
      <4>1. \A s \in SubsetsUpTo(S, m - 1) : s \in SubsetsUpTo(S, m)
        BY <2>4, SizeOfSubset DEF SubsetsUpTo
      <4> QED
        BY <3>3, <4>1
    <3>5. \A s \in SubsetsUpTo(S, m) : s # {} => h[s \ {Some(s)}] = g[s \ {Some(s)}]
      <4>1. \A s \in SubsetsUpTo(S, m) : s # {} => s \ {Some(s)} \in SubsetsUpTo(S, m - 1)
        BY <2>4, TakeSome DEF SubsetsUpTo
      <4> QED
        BY <3>4, <4>1
    <3>6. h = [s \in SubsetsUpTo(S, m) |->
                 IF s = {} THEN 0 ELSE stats[Some(s)].faults + h[s \ {Some(s)}]]
      BY <3>5
    <3>7. IsSum(h, stats, SubsetsUpTo(S, m))
      BY <3>6 DEF IsSum
    <3> QED
      BY <2>4, <3>7
  <2> QED
    BY <2>5, <2>6
<1>2. Cardinality(S) \in Nat /\ SubsetsUpTo(S, Cardinality(S)) = SUBSET S
  BY SizeOfSubset DEF SubsetsUpTo
<1> QED
  BY <1>1, <1>2

(* What the sum is. *)
LEMMA SumIs ==
  ASSUME NEW stats, NEW S, IsFiniteSet(S)
  PROVE  \E g : FaultsIn(stats, S) = g[S] /\ SumsUp(g, stats, S)
<1> DEFINE g == CHOOSE g : IsSum(g, stats, SUBSET S)
<1>1. IsSum(g, stats, SUBSET S)
  BY SumExists
<1>2. FaultsIn(stats, S) = g[S]
  BY DEF FaultsIn, MapThenSumSet, MapThenFoldSet, IsSum, Some
<1> HIDE DEF g
<1> QED
  BY <1>1, <1>2 DEF IsSum, SumsUp

(* Nobody's faults are no faults. *)
LEMMA SumOfNone ==
  ASSUME NEW stats, NEW S, IsFiniteSet(S), \A x \in S : stats[x].faults = 0
  PROVE  FaultsIn(stats, S) = 0
<1>1. PICK g : FaultsIn(stats, S) = g[S] /\ SumsUp(g, stats, S)
  BY SumIs
<1>2. \A s \in SUBSET S : g[s] = IF s = {} THEN 0
                                 ELSE stats[Some(s)].faults + g[s \ {Some(s)}]
  BY <1>1 DEF SumsUp
<1> DEFINE K == {k \in Nat : \E s \in SUBSET S : Cardinality(s) = k /\ g[s] # 0}
           m == Min(K)
<1>3. SUFFICES ASSUME K # {} PROVE FALSE
  <2>1. S \in SUBSET S /\ Cardinality(S) \in Nat
    BY SizeOfSubset
  <2> QED
    BY <1>1, <2>1
<1>4. m \in K /\ \A k \in K : m <= k
  <2>1. K \in SUBSET Nat
    OBVIOUS
  <2> QED
    BY <1>3, <2>1, LeastNatural
<1> HIDE DEF m
<1>5. PICK s \in SUBSET S : Cardinality(s) = m /\ g[s] # 0
  BY <1>4
<1>6. s # {} /\ g[s] = stats[Some(s)].faults + g[s \ {Some(s)}]
  BY <1>2, <1>5
<1>7. /\ Some(s) \in s
      /\ s \ {Some(s)} \in SUBSET S
      /\ Cardinality(s) \in Nat \ {0}
      /\ Cardinality(s \ {Some(s)}) = Cardinality(s) - 1
  BY <1>6, TakeSome
<1>8. m - 1 \notin K /\ m - 1 \in Nat
  BY <1>4, <1>5, <1>7
<1>9. g[s \ {Some(s)}] = 0
  BY <1>5, <1>7, <1>8
<1> QED
  BY <1>5, <1>6, <1>7, <1>9

(* What one process faults more is what all fault more together. *)
LEMMA SumOfMore ==
  ASSUME NEW S, IsFiniteSet(S), NEW before, NEW after, NEW p \in S, NEW d \in Nat,
         \A x \in S : before[x].faults \in Nat,
         \A x \in S : after[x].faults = before[x].faults + IF x = p THEN d ELSE 0
  PROVE  /\ FaultsIn(before, S) \in Nat
         /\ FaultsIn(after, S) = FaultsIn(before, S) + d
<1>1. PICK g : FaultsIn(before, S) = g[S] /\ SumsUp(g, before, S)
  BY SumIs
<1>2. PICK h : FaultsIn(after, S) = h[S] /\ SumsUp(h, after, S)
  BY SumIs
<1>3. \A s \in SUBSET S :
        /\ g[s] = IF s = {} THEN 0 ELSE before[Some(s)].faults + g[s \ {Some(s)}]
        /\ h[s] = IF s = {} THEN 0 ELSE after[Some(s)].faults + h[s \ {Some(s)}]
  BY <1>1, <1>2 DEF SumsUp
<1> DEFINE Good(s) == g[s] \in Nat /\ h[s] = g[s] + IF p \in s THEN d ELSE 0
           K == {k \in Nat : \E s \in SUBSET S : Cardinality(s) = k /\ ~Good(s)}
           m == Min(K)
<1>4. SUFFICES ASSUME K # {} PROVE FALSE
  <2>1. S \in SUBSET S /\ Cardinality(S) \in Nat
    BY SizeOfSubset
  <2>2. Good(S)
    BY <2>1
  <2> QED
    BY <1>1, <1>2, <2>2
<1>5. m \in K /\ \A k \in K : m <= k
  <2>1. K \in SUBSET Nat
    OBVIOUS
  <2> QED
    BY <1>4, <2>1, LeastNatural
<1> HIDE DEF m
<1>6. PICK s \in SUBSET S : Cardinality(s) = m /\ ~Good(s)
  BY <1>5
<1>7. s # {}
  BY <1>3, <1>6
<1> DEFINE x == Some(s)
           t == s \ {x}
<1>8. /\ x \in s /\ x \in S
      /\ t \in SUBSET S
      /\ Cardinality(s) \in Nat \ {0}
      /\ Cardinality(t) = Cardinality(s) - 1
  BY <1>7, TakeSome
<1>9. m - 1 \notin K /\ m - 1 \in Nat
  BY <1>5, <1>6, <1>8
<1>10. Good(t)
  BY <1>6, <1>8, <1>9
<1>11. g[s] = before[x].faults + g[t] /\ h[s] = after[x].faults + h[t]
  BY <1>3, <1>7
<1>12. (p \in s <=> p \in t \/ x = p) /\ (x = p => p \notin t)
  BY <1>8
<1> HIDE DEF x, t
<1>13. /\ before[x].faults \in Nat
       /\ after[x].faults = before[x].faults + IF x = p THEN d ELSE 0
  BY <1>8
<1> QED
  BY <1>6, <1>10, <1>11, <1>12, <1>13

(***************************************************************************)
(* The counters.                                                           *)
(***************************************************************************)
CInv == PInv /\ CountersAgree

(* An event that is a fault or not, makes the policy decide or not,        *)
(* completes the replacement or not and evicts a dirty page or not.        *)
LEMMA CountersMove ==
  ASSUME CInv, NEW pid \in Processes,
         NEW miss \in {0, 1}, NEW decision \in {0, 1}, NEW eviction \in {0, 1},
         NEW writeback \in {0, 1},
         \A q \in Processes :
           procStats'[q].faults = procStats[q].faults + IF q = pid THEN miss ELSE 0,
         counts'.faults = counts.faults + miss,
         counts'.replacements = counts.replacements + eviction,
         counts'.dirtyEvictions = counts.dirtyEvictions + writeback,
         pol'.replacements = pol.replacements + decision,
         pol'.dirtyEvictions = pol.dirtyEvictions + writeback,
         NumFrames > 0 =>
           Cardinality(Resident') = Cardinality(Resident) + miss - decision,
         writeback <= eviction, eviction <= decision, AddressesFit => eviction = decision
  PROVE  CountersAgree'
<1>1. /\ counts.faults \in Nat /\ counts.replacements \in Nat /\ counts.dirtyEvictions \in Nat
      /\ \A q \in Processes : procStats[q].faults \in Nat
  BY DEF CInv, PInv, IInv, TypeOK, Counters
<1>2. pol.replacements \in Nat /\ pol.dirtyEvictions \in Nat
  BY DEF CInv, PInv, IsPolicy
<1>3. Cardinality(Resident) \in Nat /\ NumFrames \in Nat
  <2>1. IsFiniteSet(Resident)
    BY PagesAssumption, FS_Subset DEF Resident
  <2> QED
    BY <2>1, FS_CardinalityType, NumFramesAssumption
<1>4. FaultsIn(procStats', Processes) = FaultsIn(procStats, Processes) + miss
  <2>1. miss \in Nat /\ IsFiniteSet(Processes)
    BY ProcessesAssumption
  <2> QED
    BY <1>1, <2>1, SumOfMore
<1>5. /\ NumFrames > 0 => counts.faults = Cardinality(Resident) + pol.replacements
      /\ counts.faults = FaultsIn(procStats, Processes)
      /\ counts.replacements <= pol.replacements
      /\ AddressesFit => counts.replacements = pol.replacements
      /\ counts.dirtyEvictions = pol.dirtyEvictions
      /\ counts.dirtyEvictions <= counts.replacements
  BY DEF CInv, CountersAgree, FaultsIn
<1>6. AddressesFit' <=> AddressesFit
  BY DEF AddressesFit, Representable
<1>7. /\ NumFrames > 0 => counts'.faults = Cardinality(Resident') + pol'.replacements
      /\ counts'.faults = FaultsIn(procStats', Processes)
      /\ counts'.replacements <= pol'.replacements
      /\ AddressesFit => counts'.replacements = pol'.replacements
      /\ counts'.dirtyEvictions = pol'.dirtyEvictions
      /\ counts'.dirtyEvictions <= counts'.replacements
  BY <1>1, <1>2, <1>3, <1>4, <1>5
<1> QED
  BY <1>6, <1>7 DEF CountersAgree, FaultsIn, MapThenSumSet, MapThenFoldSet

(* A step that nobody counts. *)
LEMMA CountersStay ==
  ASSUME CountersAgree, UNCHANGED statistics, Resident' = Resident,
         pol'.replacements = pol.replacements, pol'.dirtyEvictions = pol.dirtyEvictions
  PROVE  CountersAgree'
<1>1. counts' = counts /\ procStats' = procStats
  BY DEF statistics
<1>2. AddressesFit' <=> AddressesFit
  BY DEF AddressesFit, Representable
<1>3. FaultsIn(procStats', Processes) = FaultsIn(procStats, Processes)
  BY <1>1
<1> QED
  BY <1>1, <1>2, <1>3 DEF CountersAgree, FaultsIn, MapThenSumSet, MapThenFoldSet

(* Counting the access alone, and counting its fault too. *)
LEMMA ProcessCounts ==
  ASSUME TypeOK, NEW pid \in Processes
  PROVE  /\ CountAccess(pid) =>
              \A q \in Processes :
                procStats'[q].faults = procStats[q].faults + IF q = pid THEN 0 ELSE 0
         /\ CountFaultOf(pid) =>
              \A q \in Processes :
                procStats'[q].faults = procStats[q].faults + IF q = pid THEN 1 ELSE 0
<1>1. procStats \in [Processes -> [accesses : Nat, faults : Nat]]
  BY DEF TypeOK
<1> QED
  BY <1>1 DEF CountAccess, CountFaultOf

(* When every address fits, a victim's does. *)
LEMMA FittingAddress ==
  ASSUME AddressesFit, NEW f \in Frames, NEW a \in Addresses
  PROVE  Representable(f, a)
<1> DEFINE top == ((AddressBound - 1) - (a % PageSize)) \div PageSize
<1>1. NumFrames - 1 <= top
  BY DEF AddressesFit, Representable
<1>2. f \in Nat /\ f <= NumFrames - 1
  BY NumFramesAssumption DEF Frames
<1>3. top \in Int
  <2> DEFINE y == (AddressBound - 1) - (a % PageSize)
  <2>1. PageSize \in Nat \ {0} /\ AddressBound \in Nat /\ a \in Nat
    BY AddressesAssumption
  <2>2. a % PageSize \in Nat
    BY <2>1
  <2>3. y \in Int
    BY <2>1, <2>2
  <2> HIDE DEF y
  <2>4. y \div PageSize \in Int
    BY <2>1, <2>3
  <2> QED
    BY <2>4 DEF y
<1> HIDE DEF top
<1>4. f <= top
  BY <1>1, <1>2, <1>3, NumFramesAssumption
<1> QED
  BY <1>4 DEF Representable, top

(* When every address fits and there are frames, an access to a known page *)
(* has one of three outcomes, and all of them are successes.               *)
LEMMA OnlySuccesses ==
  ASSUME PInv, AddressesFit, NumFrames # 0, NEW pid \in Processes, NEW p \in registered,
         NEW a \in Addresses, NEW write \in BOOLEAN, AccessKnown(pid, p, a, write)
  PROVE  \/ AccessResident(pid, p, a, write)
         \/ FaultWithFreeFrame(pid, p, a, write)
         \/ FaultWithReplacement(pid, p, a, write)
<1>1. ~FaultRefusesVictim(pid, p, a)
  <2> SUFFICES ASSUME FaultRefusesVictim(pid, p, a) PROVE FALSE
    OBVIOUS
  <2>1. HasVictim(pol) /\ (~Evictable(Victim(pol)) \/ ~Representable(Victim(pol), a))
    BY DEF FaultRefusesVictim
  <2> QED
    BY <2>1, VictimEvictable, FittingAddress
<1> QED
  BY <1>1, NeverInconsistent DEF AccessKnown

(* An access keeps the unit and its policy together. *)
LEMMA AccessKeepsPolicy ==
  ASSUME PInv, NEW pid \in Processes, NEW a \in Addresses, NEW write \in BOOLEAN,
         Access(pid, a, write)
  PROVE  PInv'
BY AccessFollows, AccessKeeps DEF PInv, Follows

(* One, if something happened. *)
OneIf(b) == IF b THEN 1 ELSE 0

(* What a successful access by a process counts is what its result tells. *)
CountedAsTold(pid) ==
  /\ result'.success = TRUE
  /\ result'.pageFault \in BOOLEAN
  /\ result'.replaced \in BOOLEAN
  /\ result'.dirtyEviction \in BOOLEAN
  /\ counts'.faults = counts.faults + OneIf(result'.pageFault)
  /\ counts'.replacements = counts.replacements + OneIf(result'.replaced)
  /\ counts'.dirtyEvictions = counts.dirtyEvictions + OneIf(result'.dirtyEviction)
  /\ pol'.replacements = pol.replacements + OneIf(result'.replaced)
  /\ pol'.dirtyEvictions = pol.dirtyEvictions + OneIf(result'.dirtyEviction)
  /\ \A q \in Processes :
       /\ procStats'[q].accesses = procStats[q].accesses + OneIf(q = pid)
       /\ procStats'[q].faults = procStats[q].faults + OneIf(q = pid /\ result'.pageFault)

(* Counting an access, and counting its fault too. *)
LEMMA ProcessCountsBoth ==
  ASSUME TypeOK, NEW pid \in Processes
  PROVE  \A q \in Processes :
           /\ CountAccess(pid) =>
                /\ procStats'[q].accesses = procStats[q].accesses + OneIf(q = pid)
                /\ procStats'[q].faults = procStats[q].faults + 0
           /\ CountFaultOf(pid) =>
                /\ procStats'[q].accesses = procStats[q].accesses + OneIf(q = pid)
                /\ procStats'[q].faults = procStats[q].faults + OneIf(q = pid)
BY DEF TypeOK, CountAccess, CountFaultOf, OneIf

(* When every address fits and there are frames, an access to a known page *)
(* is counted as its result tells, in all the places that count.           *)
LEMMA KnownAccessCounts ==
  ASSUME PInv, AddressesFit, NumFrames # 0,
         NEW pid \in Processes, NEW a \in Addresses, NEW write \in BOOLEAN,
         Access(pid, a, write), Known(pid, a)
  PROVE  CountedAsTold(pid)
<1> DEFINE p == Resolve(pid, a)
<1>1. TypeOK
  BY DEF PInv, IInv
<1>2. /\ counts.faults \in Nat /\ counts.replacements \in Nat /\ counts.dirtyEvictions \in Nat
      /\ pol.replacements \in Nat /\ pol.dirtyEvictions \in Nat
      /\ counts \in Counters
  BY <1>1 DEF PInv, IsPolicy, TypeOK, Counters
<1>3. p \in registered /\ AccessKnown(pid, p, a, write)
  BY DEF Access, AccessUnknown, Known
<1> HIDE DEF p
<1>4. OneIf(TRUE) = 1 /\ OneIf(FALSE) = 0
  BY DEF OneIf
<1>5. CASE AccessResident(pid, p, a, write)
  <2>1. /\ pol'.replacements = pol.replacements + 0
        /\ pol'.dirtyEvictions = pol.dirtyEvictions + 0
    BY <1>2, <1>3, <1>5, ResidentAccessFollows
  <2>2. /\ counts'.faults = counts.faults + 0
        /\ counts'.replacements = counts.replacements + 0
        /\ counts'.dirtyEvictions = counts.dirtyEvictions + 0
        /\ CountAccess(pid)
    BY <1>2, <1>5 DEF AccessResident
  <2>3. /\ result'.success = TRUE /\ result'.pageFault = FALSE
        /\ result'.replaced = FALSE /\ result'.dirtyEviction = FALSE
    BY <1>5 DEF AccessResident, Success
  <2>4. \A q \in Processes :
          /\ procStats'[q].accesses = procStats[q].accesses + OneIf(q = pid)
          /\ procStats'[q].faults = procStats[q].faults + OneIf(q = pid /\ FALSE)
    BY <1>1, <1>4, <2>2, ProcessCountsBoth
  <2> QED
    BY <1>4, <2>1, <2>2, <2>3, <2>4 DEF CountedAsTold
<1>6. CASE FaultWithFreeFrame(pid, p, a, write)
  <2>1. /\ pol'.replacements = pol.replacements + 0
        /\ pol'.dirtyEvictions = pol.dirtyEvictions + 0
    BY <1>2, <1>3, <1>6, FreeFrameFollows
  <2>2. /\ counts'.faults = counts.faults + 1
        /\ counts'.replacements = counts.replacements + 0
        /\ counts'.dirtyEvictions = counts.dirtyEvictions + 0
        /\ CountFaultOf(pid)
    BY <1>2, <1>6 DEF FaultWithFreeFrame, CountFault, Counters
  <2>3. /\ result'.success = TRUE /\ result'.pageFault = TRUE
        /\ result'.replaced = FALSE /\ result'.dirtyEviction = FALSE
    BY <1>6 DEF FaultWithFreeFrame, Success
  <2>4. \A q \in Processes :
          /\ procStats'[q].accesses = procStats[q].accesses + OneIf(q = pid)
          /\ procStats'[q].faults = procStats[q].faults + OneIf(q = pid /\ TRUE)
    BY <1>1, <2>2, ProcessCountsBoth
  <2> QED
    BY <1>4, <2>1, <2>2, <2>3, <2>4 DEF CountedAsTold
<1>7. CASE FaultWithReplacement(pid, p, a, write)
  <2> DEFINE d == pages[mem.frames[Victim(pol)]].dirty
  <2>1. /\ pol'.replacements = pol.replacements + 1
        /\ pol'.dirtyEvictions = pol.dirtyEvictions + OneIf(d)
    BY <1>3, <1>7, ReplacementFollows DEF OneIf
  <2>2. /\ counts'.faults = counts.faults + 1
        /\ counts'.replacements = counts.replacements + 1
        /\ counts'.dirtyEvictions = counts.dirtyEvictions + OneIf(d)
        /\ CountFaultOf(pid)
    BY <1>7 DEF FaultWithReplacement, OneIf
  <2>3. /\ result'.success = TRUE /\ result'.pageFault = TRUE
        /\ result'.replaced = TRUE /\ result'.dirtyEviction = d
    BY <1>7 DEF FaultWithReplacement, Success
  <2>4. d \in BOOLEAN
    BY <1>1, <1>3, <1>7, ReplacementEffect DEF PInv, Resident, TypeOK
  <2>5. \A q \in Processes :
          /\ procStats'[q].accesses = procStats[q].accesses + OneIf(q = pid)
          /\ procStats'[q].faults = procStats[q].faults + OneIf(q = pid /\ TRUE)
    BY <1>1, <2>2, ProcessCountsBoth
  <2> HIDE DEF d
  <2> QED
    BY <1>4, <2>1, <2>2, <2>3, <2>4, <2>5 DEF CountedAsTold
<1> QED
  BY <1>3, <1>5, <1>6, <1>7, OnlySuccesses

(* When every address fits and there are frames, an access to a known page *)
(* loads it unless it is resident, as its result tells, and only a full    *)
(* memory loses another page for it.                                       *)
LEMMA KnownAccessLoads ==
  ASSUME PInv, AddressesFit, NumFrames # 0,
         NEW pid \in Processes, NEW a \in Addresses, NEW write \in BOOLEAN,
         Access(pid, a, write), Known(pid, a)
  PROVE  LET p == Resolve(pid, a)
         IN  /\ p \in Resident => Resident' = Resident /\ result'.pageFault = FALSE
             /\ p \notin Resident =>
                  /\ result'.pageFault = TRUE
                  /\ Resident' \subseteq Resident \cup {p}
                  /\ \/ Resident' = Resident \cup {p}
                     \/ Cardinality(Resident) = NumFrames
<1> DEFINE p == Resolve(pid, a)
<1>1. p \in registered /\ AccessKnown(pid, p, a, write)
  BY DEF Access, AccessUnknown, Known
<1> HIDE DEF p
<1>2. CASE AccessResident(pid, p, a, write)
  <2>1. Resident' = Resident /\ p \in Resident
    BY <1>1, <1>2, ResidentAccessFollows, ResidentFacts DEF PInv, AccessResident, registered
  <2>2. result'.pageFault = FALSE
    BY <1>2 DEF AccessResident, Success
  <2> QED
    BY <2>1, <2>2 DEF p
<1>3. CASE FaultWithFreeFrame(pid, p, a, write)
  <2>1. p \notin Resident /\ Resident' = Resident \cup {p}
    BY <1>1, <1>3, FreeFrameEffect DEF PInv
  <2>2. result'.pageFault = TRUE
    BY <1>3 DEF FaultWithFreeFrame, Success
  <2> QED
    BY <2>1, <2>2 DEF p
<1>4. CASE FaultWithReplacement(pid, p, a, write)
  <2> DEFINE v == mem.frames[Victim(pol)]
  <2>1. p \notin Resident /\ Resident' = (Resident \ {v}) \cup {p}
    BY <1>1, <1>4, ReplacementEffect DEF PInv
  <2>2. result'.pageFault = TRUE /\ ~HasFreeFrame(mem)
    BY <1>4 DEF FaultWithReplacement, Success
  <2>3. Cardinality(Resident) = NumFrames
    BY <2>2, ResidentCount DEF PInv
  <2> HIDE DEF v
  <2> QED
    BY <2>1, <2>2, <2>3 DEF p
<1> QED
  BY <1>1, <1>2, <1>3, <1>4, OnlySuccesses

(* Each outcome of an access counts what happened. *)
LEMMA AccessCounts ==
  ASSUME CInv, NEW pid \in Processes, NEW a \in Addresses, NEW write \in BOOLEAN,
         Access(pid, a, write)
  PROVE  CountersAgree'
<1> DEFINE p == Resolve(pid, a)
<1>1. PInv /\ TypeOK
  BY DEF CInv, PInv, IInv
<1>2. /\ counts.faults \in Nat /\ counts.replacements \in Nat /\ counts.dirtyEvictions \in Nat
      /\ pol.replacements \in Nat /\ pol.dirtyEvictions \in Nat
      /\ counts \in Counters
  BY <1>1 DEF PInv, IsPolicy, TypeOK, Counters
<1>3. IsFiniteSet(Resident) /\ Cardinality(Resident) \in Nat
  <2>1. IsFiniteSet(Resident)
    BY PagesAssumption, FS_Subset DEF Resident
  <2> QED
    BY <2>1, FS_CardinalityType
<1>4. CASE AccessUnknown(pid, a)
  <2>1. UNCHANGED <<pages, pol, statistics>>
    BY <1>4 DEF AccessUnknown
  <2> QED
    BY <2>1, CountersStay DEF CInv, Resident
<1>5. CASE Known(pid, a) /\ AccessKnown(pid, p, a, write)
  <2>1. p \in registered
    BY <1>5 DEF Known
  <2> HIDE DEF p
  <2>2. CASE AccessResident(pid, p, a, write)
    <3>1. /\ Resident' = Resident
          /\ pol'.replacements = pol.replacements + 0
          /\ pol'.dirtyEvictions = pol.dirtyEvictions + 0
      BY <1>1, <1>2, <2>1, <2>2, ResidentAccessFollows
    <3>2. /\ counts'.faults = counts.faults + 0
          /\ counts'.replacements = counts.replacements + 0
          /\ counts'.dirtyEvictions = counts.dirtyEvictions + 0
          /\ CountAccess(pid)
      BY <1>2, <2>2 DEF AccessResident
    <3>3. \A q \in Processes :
            procStats'[q].faults = procStats[q].faults + IF q = pid THEN 0 ELSE 0
      BY <1>1, <3>2, ProcessCounts
    <3>4. Cardinality(Resident') = Cardinality(Resident) + 0 - 0
      BY <1>3, <3>1
    <3> QED
      BY <3>1, <3>2, <3>3, <3>4, CountersMove
  <2>3. CASE AccessInconsistent(pid, p) \/ FaultRefused(pid, p)
    BY <1>1, <2>1, <2>3, NeverInconsistent
  <2>4. CASE FaultWithFreeFrame(pid, p, a, write)
    <3>1. /\ pol'.replacements = pol.replacements + 0
          /\ pol'.dirtyEvictions = pol.dirtyEvictions + 0
      BY <1>1, <1>2, <2>1, <2>4, FreeFrameFollows
    <3>2. /\ counts'.faults = counts.faults + 1
          /\ counts'.replacements = counts.replacements + 0
          /\ counts'.dirtyEvictions = counts.dirtyEvictions + 0
          /\ CountFaultOf(pid)
      BY <1>2, <2>4 DEF FaultWithFreeFrame, CountFault, Counters
    <3>3. \A q \in Processes :
            procStats'[q].faults = procStats[q].faults + IF q = pid THEN 1 ELSE 0
      BY <1>1, <3>2, ProcessCounts
    <3>4. p \notin Resident /\ Resident' = Resident \cup {p}
      BY <1>1, <2>1, <2>4, FreeFrameEffect DEF PInv
    <3>5. Cardinality(Resident') = Cardinality(Resident) + 1 - 0
      <4>1. Cardinality(Resident') = Cardinality(Resident) + 1
        BY <1>3, <3>4, FS_AddElement
      <4> QED
        BY <1>3, <4>1
    <3> QED
      BY <3>1, <3>2, <3>3, <3>5, CountersMove
  <2>5. CASE FaultRefusesVictim(pid, p, a)
    <3>1. /\ HasVictim(pol) /\ pages' = pages /\ pol' = AfterChoice(pol)
          /\ ~Evictable(Victim(pol)) \/ ~Representable(Victim(pol), a)
      BY <2>5 DEF FaultRefusesVictim
    <3>2. /\ pol'.replacements = pol.replacements + 1
          /\ pol'.dirtyEvictions = pol.dirtyEvictions + 0
      BY <1>1, <1>2, <3>1, RefusalFollows
    <3>3. /\ counts'.faults = counts.faults + 1
          /\ counts'.replacements = counts.replacements + 0
          /\ counts'.dirtyEvictions = counts.dirtyEvictions + 0
          /\ CountFaultOf(pid)
      BY <1>2, <2>5 DEF FaultRefusesVictim, CountFault, Counters
    <3>4. \A q \in Processes :
            procStats'[q].faults = procStats[q].faults + IF q = pid THEN 1 ELSE 0
      BY <1>1, <3>3, ProcessCounts
    <3>5. Cardinality(Resident') = Cardinality(Resident) + 1 - 1
      BY <1>3, <3>1 DEF Resident
    <3>6. ~AddressesFit
      BY <1>1, <3>1, VictimEvictable, FittingAddress
    <3> QED
      BY <3>2, <3>3, <3>4, <3>5, <3>6, CountersMove
  <2>6. CASE FaultWithReplacement(pid, p, a, write)
    <3> DEFINE v  == mem.frames[Victim(pol)]
               wb == IF pages[v].dirty THEN 1 ELSE 0
    <3>1. /\ pol'.replacements = pol.replacements + 1
          /\ pol'.dirtyEvictions = pol.dirtyEvictions + wb
      BY <1>1, <2>1, <2>6, ReplacementFollows
    <3>2. /\ counts'.faults = counts.faults + 1
          /\ counts'.replacements = counts.replacements + 1
          /\ counts'.dirtyEvictions = counts.dirtyEvictions + wb
          /\ CountFaultOf(pid)
      BY <2>6 DEF FaultWithReplacement
    <3>3. \A q \in Processes :
            procStats'[q].faults = procStats[q].faults + IF q = pid THEN 1 ELSE 0
      BY <1>1, <3>2, ProcessCounts
    <3>4. v \in Resident /\ p \notin Resident /\ Resident' = (Resident \ {v}) \cup {p}
      BY <1>1, <2>1, <2>6, ReplacementEffect DEF PInv
    <3>5. wb \in {0, 1}
      OBVIOUS
    <3> HIDE DEF v, wb
    <3>6. Cardinality(Resident') = Cardinality(Resident) + 1 - 1
      <4>1. IsFiniteSet(Resident \ {v}) /\ Cardinality(Resident \ {v}) = Cardinality(Resident) - 1
        BY <1>3, <3>4, FS_RemoveElement
      <4>2. Cardinality(Resident') = Cardinality(Resident \ {v}) + 1
        BY <3>4, <4>1, FS_AddElement
      <4> QED
        BY <1>3, <4>1, <4>2
    <3>7. wb <= 1
      BY <3>5
    <3> QED
      BY <3>1, <3>2, <3>3, <3>5, <3>6, <3>7, CountersMove
  <2>7. CASE FaultWithoutVictim(pid, p)
    <3>1. ~HasVictim(pol) /\ pages' = pages /\ pol' = AfterChoice(pol)
      BY <2>7 DEF FaultWithoutVictim
    <3>2. /\ pol'.replacements = pol.replacements + 0
          /\ pol'.dirtyEvictions = pol.dirtyEvictions + 0
      BY <1>1, <1>2, <3>1, RefusalFollows
    <3>3. /\ counts'.faults = counts.faults + 1
          /\ counts'.replacements = counts.replacements + 0
          /\ counts'.dirtyEvictions = counts.dirtyEvictions + 0
          /\ CountFaultOf(pid)
      BY <1>2, <2>7 DEF FaultWithoutVictim, CountFault, Counters
    <3>4. \A q \in Processes :
            procStats'[q].faults = procStats[q].faults + IF q = pid THEN 1 ELSE 0
      BY <1>1, <3>3, ProcessCounts
    <3>5. ~(NumFrames > 0)
      BY <1>1, <2>1, <2>7, NeverInconsistent
    <3> QED
      BY <3>2, <3>3, <3>4, <3>5, CountersMove
  <2> QED
    BY <1>5, <2>2, <2>3, <2>4, <2>5, <2>6, <2>7 DEF AccessKnown, p
<1> QED
  BY <1>4, <1>5 DEF Access

(* reset() clears the three places that count, and the residents. *)
LEMMA ResetCounts ==
  ASSUME CInv, Reset
  PROVE  CountersAgree'
<1>1. Resident' = {} /\ pol'.replacements = 0 /\ pol'.dirtyEvictions = 0
  BY ResetFollows DEF CInv
<1>2. counts' = NoCounts /\ procStats' = NoProcStats
  BY DEF Reset
<1>3. FaultsIn(procStats', Processes) = 0
  BY <1>2, SumOfNone, ProcessesAssumption DEF NoProcStats
<1>4. Cardinality(Resident') = 0
  BY <1>1, FS_EmptySet
<1> QED
  BY <1>1, <1>2, <1>3, <1>4 DEF CountersAgree, FaultsIn, MapThenSumSet, MapThenFoldSet, NoCounts

(* In a new unit nothing is counted and nothing is resident. *)
LEMMA InitCounts == Init => CInv
<1> SUFFICES ASSUME Init PROVE CountersAgree
  BY InitFollows DEF CInv
<1>1. PICK kind \in Kinds : pol = NewPolicy(kind)
  BY DEF Init
<1>2. pol.replacements = 0 /\ pol.dirtyEvictions = 0
  BY <1>1, KindsAssumption, PolicyNew
<1>3. counts = NoCounts /\ procStats = NoProcStats /\ Resident = {}
  BY DEF Init, Resident, AbsentPage
<1>4. FaultsIn(procStats, Processes) = 0
  BY <1>3, SumOfNone, ProcessesAssumption DEF NoProcStats
<1>5. Cardinality(Resident) = 0
  BY <1>3, FS_EmptySet
<1> QED
  BY <1>2, <1>3, <1>4, <1>5 DEF CountersAgree, FaultsIn, MapThenSumSet, MapThenFoldSet, NoCounts

(* Every step keeps the counters in agreement. *)
LEMMA NextCounts == CInv /\ [Next]_vars => CInv'
<1> SUFFICES ASSUME CInv, [Next]_vars PROVE CountersAgree'
  BY NextFollows DEF CInv
<1>1. PInv
  BY DEF CInv
<1>2. ASSUME NEW r \in IdRegistrations, RegisterPage(r[1], r[2]) PROVE CountersAgree'
  <2>1. Resident' = Resident /\ UNCHANGED <<pol, statistics>>
    BY <1>1, <1>2, VirtualPagesAssumption, RegistrationFollows DEF RegisterPage
  <2> QED
    BY <2>1, CountersStay DEF CInv
<1>3. ASSUME NEW r \in VpnRegistrations, RegisterPageAt(r[1], r[2], r[3])
      PROVE  CountersAgree'
  <2>1. Resident' = Resident /\ UNCHANGED <<pol, statistics>>
    BY <1>1, <1>3, VirtualPagesAssumption, RegistrationFollows DEF RegisterPageAt
  <2> QED
    BY <2>1, CountersStay DEF CInv
<1>4. ASSUME NEW pid \in Processes, NEW a \in Addresses, NEW write \in BOOLEAN,
             Access(pid, a, write)
      PROVE  CountersAgree'
  BY <1>4, AccessCounts
<1>5. ASSUME NEW references \in References, SupplyReferences(references)
      PROVE  CountersAgree'
  <2>1. pages' = pages /\ UNCHANGED statistics
    BY <1>5 DEF SupplyReferences
  <2> QED
    BY <1>1, <1>5, <2>1, SupplyFollows, CountersStay DEF CInv, Resident
<1>6. ASSUME Reset PROVE CountersAgree'
  BY <1>6, ResetCounts
<1>7. ASSUME UNCHANGED vars PROVE CountersAgree'
  <2>1. UNCHANGED <<pages, pol, statistics>>
    BY <1>7 DEF vars, statistics
  <2> QED
    BY <2>1, CountersStay DEF CInv, Resident
<1> QED
  BY <1>2, <1>3, <1>4, <1>5, <1>6, <1>7 DEF Next

(***************************************************************************)
(* Since the last reset every fault either took a free frame or made the   *)
(* policy decide, the faults of the processes add up to the total, and no  *)
(* decision is lost unless an address of some victim does not fit.         *)
(***************************************************************************)
THEOREM CountersTheorem == Spec => []CountersAgree
<1>1. CInv => CountersAgree
  BY DEF CInv
<1> QED
  BY <1>1, InitCounts, NextCounts, PTL DEF Spec
=============================================================================
