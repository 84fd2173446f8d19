------------------------ MODULE ControlledTraceProofs ------------------------
(***************************************************************************)
(* Proofs about the controlled trace of the demonstration, for every       *)
(* trace, number of frames and policy:                                     *)
(*                                                                         *)
(*   WriteBackTheorem    what was written is written back exactly once     *)
(*   LruTheorem          LRU keeps the pages referenced last               *)
(*   OptimalTheorem      Optimal has the fewest faults possible            *)
(*   LogTheorem          the log tells of each write-back                  *)
(*   TraceServedTheorem  every reference succeeds                          *)
(*                                                                         *)
(* All rest on UnitReady: the unit is coherent and its policy tracks its   *)
(* residents (PInv, of MemoryManagementUnitProofs), and every page of the  *)
(* trace has its virtual page.  Each theorem adds the invariant it needs.  *)
(***************************************************************************)
EXTENDS ControlledTrace, MemoryManagementUnitProofs

-----------------------------------------------------------------------------
(* The unit of the demonstration *)

(* The page of the reference that comes next, and whether it is a write. *)
NextPage == trace[index + 1]
Writes == index = 0

(***************************************************************************)
(* The unit is coherent, its policy tracks its residents, and the virtual  *)
(* pages lead to the pages of the same number.                             *)
(***************************************************************************)
UnitReady ==
  /\ PInv
  /\ trace \in Seq(Pages)
  /\ index \in 0 .. Len(trace)
  /\ \A p \in Pages : owner[p] = 1 /\ vmap[1][p] = p

(* The addresses of the demonstration lie on the pages they are made from. *)
LEMMA AddressOnPage ==
  ASSUME NEW p \in Pages
  PROVE  AddressIn(p) \in Addresses /\ AddressIn(p) \div PageSize = p
<1> DEFINE s == PageSize
<1>1. p \in Nat /\ s \in Nat /\ s > 1 /\ AddressIn(p) \in Addresses
  BY TraceAssumption, AddressesAssumption
<1>2. AddressIn(p) = p * s + 1
  BY DEF AddressIn
<1> HIDE DEF s
<1>3. (p * s + 1) \div s = p
  BY <1>1
<1> QED
  BY <1>1, <1>2, <1>3 DEF s

(* Every reference is served, in one of three ways. *)
LEMMA ReferenceServed ==
  ASSUME UnitReady, Reference
  PROVE  /\ NextPage \in Pages /\ NextPage \in registered /\ Writes \in BOOLEAN
         /\ 1 \in Processes /\ AddressIn(NextPage) \in Addresses
         /\ Access(1, AddressIn(NextPage), Writes)
         /\ \/ AccessResident(1, NextPage, AddressIn(NextPage), Writes)
            \/ FaultWithFreeFrame(1, NextPage, AddressIn(NextPage), Writes)
            \/ FaultWithReplacement(1, NextPage, AddressIn(NextPage), Writes)
<1> DEFINE p == NextPage
           a == AddressIn(p)
           w == Writes
<1>1. trace \in Seq(Pages) /\ index \in 0 .. Len(trace) /\ index < Len(trace)
  BY DEF UnitReady, Reference
<1>2. p \in Pages /\ w \in BOOLEAN
  BY <1>1 DEF NextPage, Writes
<1>3. 1 \in Processes /\ a \in Addresses /\ a \div PageSize = p
  BY <1>2, TraceAssumption, AddressOnPage
<1>4. Access(1, a, w)
  BY DEF Reference, NextPage, Writes
<1>5. owner[p] = 1 /\ vmap[1][p] = p
  BY <1>2 DEF UnitReady
<1> HIDE DEF p, a, w
<1>6. 1 # NoProcess
  BY <1>3, ProcessesAssumption
<1>7. Resolve(1, a) = p /\ p \in registered
  BY <1>2, <1>3, <1>5, <1>6 DEF Resolve, registered
<1>8. Known(1, a)
  BY <1>5, <1>7 DEF Known
<1>9. AccessKnown(1, p, a, w)
  BY <1>4, <1>7, <1>8 DEF Access, AccessUnknown
<1>10. PInv /\ AddressesFit /\ NumFrames # 0
  BY TraceAssumption DEF UnitReady
<1>11. \/ AccessResident(1, p, a, w)
       \/ FaultWithFreeFrame(1, p, a, w)
       \/ FaultWithReplacement(1, p, a, w)
  BY <1>2, <1>3, <1>7, <1>9, <1>10, OnlySuccesses
<1> QED
  BY <1>2, <1>3, <1>4, <1>7, <1>11 DEF p, a, w

(* It leaves the unit ready for the next one. *)
LEMMA ReferenceKeepsUnit ==
  ASSUME UnitReady, Reference
  PROVE  UnitReady'
<1>1. /\ 1 \in Processes /\ AddressIn(NextPage) \in Addresses /\ Writes \in BOOLEAN
      /\ Access(1, AddressIn(NextPage), Writes)
      /\ \/ AccessResident(1, NextPage, AddressIn(NextPage), Writes)
         \/ FaultWithFreeFrame(1, NextPage, AddressIn(NextPage), Writes)
         \/ FaultWithReplacement(1, NextPage, AddressIn(NextPage), Writes)
  BY ReferenceServed
<1>2. PInv'
  BY <1>1, AccessKeepsPolicy DEF UnitReady
<1>3. owner' = owner /\ vmap' = vmap
  BY <1>1 DEF AccessResident, FaultWithFreeFrame, FaultWithReplacement
<1>4. trace' = trace /\ index' = index + 1 /\ index < Len(trace)
  BY DEF Reference
<1> QED
  BY <1>2, <1>3, <1>4 DEF UnitReady

(* What the demonstration builds before its first reference. *)
LEMMA PreparedPolicy ==
  ASSUME NEW kind \in Kinds, trace \in References
  PROVE  /\ IsPolicy(Prepared(kind), Pages, Frames) /\ Tracked(Prepared(kind)) = {}
         /\ Prepared(kind).kind = kind
<1> DEFINE n == NewPolicy(kind)
<1>1. kind \in PolicyKinds /\ Len(trace) \in Nat
  BY KindsAssumption, ReferencesAssumption
<1>2. IsPolicy(n, Pages, Frames) /\ Tracked(n) = {} /\ n.kind = kind
  BY <1>1, PolicyNew
<1> HIDE DEF n
<1>3. CASE kind = "OPTIMAL"
  <2> DEFINE m == SetReferenceSequence(n, trace)
  <2>1. IsPolicy(m, Pages, Frames) /\ Tracked(m) = Tracked(n) /\ m.kind = n.kind
    BY <1>1, <1>2, <1>3, PolicySetReferences
  <2>2. Prepared(kind) = m
    BY <1>3 DEF Prepared, n
  <2> HIDE DEF m
  <2> QED
    BY <1>2, <2>1, <2>2
<1>4. CASE kind # "OPTIMAL"
  BY <1>2, <1>4 DEF Prepared, n
<1> QED
  BY <1>3, <1>4

(* Nothing is resident before the first reference. *)
LEMMA UnitReadyInitially ==
  ASSUME TraceInit
  PROVE  /\ UnitReady
         /\ index = 0 /\ Resident = {}
<1>1. PICK kind \in Kinds : pol = Prepared(kind)
  BY DEF TraceInit
<1>2. /\ trace \in References /\ trace \in Seq(Pages) /\ index = 0
      /\ pages = [p \in Pages |-> AbsentPage]
      /\ Processes = {1} /\ VirtualPages = Pages
  BY TraceAssumption DEF TraceInit
<1>3. /\ owner = [p \in Pages |-> 1]
      /\ vmap = [pid \in Processes |-> [p \in VirtualPages |-> p]]
  BY DEF TraceInit
<1>4. IInv
  <2>1. /\ owner \in [Pages -> Processes \cup {NoProcess}]
        /\ vmap \in [Processes -> [VirtualPages -> Pages \cup {NoPage}]]
    BY <1>2, <1>3
  <2> QED
    BY <1>2, <2>1, EmptyCoherent DEF TraceInit
<1>5. Resident = {} /\ ResidentPairs = {}
  BY <1>2 DEF Resident, ResidentPairs, AbsentPage
<1>6. IsPolicy(pol, Pages, Frames) /\ Tracked(pol) = {}
  BY <1>1, <1>2, PreparedPolicy
<1>7. PInv
  BY <1>4, <1>5, <1>6 DEF PInv, PolicyTracksResidents
<1>8. \A p \in Pages : owner[p] = 1 /\ vmap[1][p] = p
  BY <1>2, <1>3
<1>9. index \in 0 .. Len(trace)
  BY <1>2
<1> QED
  BY <1>2, <1>5, <1>7, <1>8, <1>9 DEF UnitReady

(* A step that changes nothing keeps everything. *)
LEMMA UnitStutters ==
  ASSUME UnitReady, UNCHANGED traceVars
  PROVE  UnitReady'
<1>1. UNCHANGED vars /\ UNCHANGED <<trace, index>>
  BY DEF traceVars
<1>2. PInv'
  BY <1>1, NextFollows DEF UnitReady
<1>3. owner' = owner /\ vmap' = vmap
  BY <1>1 DEF vars
<1> QED
  BY <1>1, <1>2, <1>3 DEF UnitReady

-----------------------------------------------------------------------------
(* Dirty data *)

(* Page q after a reference that made page v, if any, leave memory. *)
DirtAfter(q, v) == q # v /\ (pages[q].dirty \/ (q = NextPage /\ Writes))

(***************************************************************************)
(* A reference that replaces no page changes dirt only by writing; one     *)
(* that does writes the victim back if it was dirty.                       *)
(***************************************************************************)
NothingWrittenBack ==
  /\ counts'.dirtyEvictions = counts.dirtyEvictions
  /\ \A q \in Pages : pages'[q].dirty <=> pages[q].dirty \/ (q = NextPage /\ Writes)

VictimWrittenBack(v) ==
  /\ counts'.dirtyEvictions = counts.dirtyEvictions + IF pages[v].dirty THEN 1 ELSE 0
  /\ \A q \in Pages : pages'[q].dirty <=> DirtAfter(q, v)

(* A page that is used is dirty afterwards if it was or is written to. *)
LEMMA TouchedDirt ==
  ASSUME NEW page, NEW f, NEW write
  PROVE  Touched(page, f, write).dirty <=> page.dirty \/ write
BY DEF Touched

(* A use of a resident page. *)
LEMMA ResidentDirt ==
  ASSUME UnitReady, Reference, AccessResident(1, NextPage, AddressIn(NextPage), Writes)
  PROVE  NothingWrittenBack
<1>1. NextPage \in Pages
  BY ReferenceServed
<1>2. /\ pages' = [pages EXCEPT ![NextPage] = Touched(@, mem.table[NextPage], Writes)]
      /\ counts' = counts
  BY DEF AccessResident
<1>3. pages \in [Pages -> PageRecords]
  BY DEF UnitReady, PInv, IInv, TypeOK, PageRecords
<1>4. \A q \in Pages : pages'[q] = IF q = NextPage THEN Touched(pages[q], mem.table[q], Writes)
                                   ELSE pages[q]
  BY <1>1, <1>2, <1>3
<1> QED
  BY <1>2, <1>4, TouchedDirt DEF NothingWrittenBack

(* A load into a free frame. *)
LEMMA FreeFrameDirt ==
  ASSUME UnitReady, Reference, FaultWithFreeFrame(1, NextPage, AddressIn(NextPage), Writes)
  PROVE  NothingWrittenBack
<1>1. /\ NextPage \in registered /\ 1 \in Processes /\ Writes \in BOOLEAN
      /\ IInv
  BY ReferenceServed DEF UnitReady, PInv
<1>2. PICK f \in Frames \ OccupiedFrames(mem) :
        \A q \in Pages : pages'[q] = IF q = NextPage THEN Touched(pages[NextPage], f, Writes)
                                     ELSE pages[q]
  BY <1>1, FreeFrameEffect
<1>3. counts \in Counters /\ counts' = [counts EXCEPT !.faults = @ + 1]
  BY <1>1 DEF FaultWithFreeFrame, CountFault, IInv, TypeOK
<1>4. counts'.dirtyEvictions = counts.dirtyEvictions
  BY <1>3 DEF Counters
<1> QED
  BY <1>2, <1>4, TouchedDirt DEF NothingWrittenBack

(* A replacement. *)
LEMMA ReplacementDirt ==
  ASSUME UnitReady, Reference, FaultWithReplacement(1, NextPage, AddressIn(NextPage), Writes)
  PROVE  LET v == mem.frames[Victim(pol)]
         IN  v \in Pages /\ v # NextPage /\ VictimWrittenBack(v)
<1> DEFINE f == Victim(pol)
           v == mem.frames[f]
<1>1. /\ NextPage \in registered /\ 1 \in Processes /\ Writes \in BOOLEAN
      /\ IInv
  BY ReferenceServed DEF UnitReady, PInv
<1>2. /\ v \in Resident /\ NextPage \in Pages \ Resident
      /\ \A q \in Pages : pages'[q] = IF q = NextPage THEN Touched(pages[NextPage], f, Writes)
                                      ELSE IF q = v THEN AbsentPage
                                      ELSE pages[q]
  BY <1>1, ReplacementEffect
<1>3. counts' = [faults         |-> counts.faults + 1,
                 replacements   |-> counts.replacements + 1,
                 dirtyEvictions |-> counts.dirtyEvictions + IF pages[v].dirty THEN 1 ELSE 0]
  BY DEF FaultWithReplacement
<1> HIDE DEF f, v
<1>4. v \in Pages /\ v # NextPage
  BY <1>2 DEF Resident
<1>5. counts'.dirtyEvictions = counts.dirtyEvictions + IF pages[v].dirty THEN 1 ELSE 0
  BY <1>3
<1>6. AbsentPage.dirty = FALSE
  BY DEF AbsentPage
<1>7. ASSUME NEW q \in Pages PROVE pages'[q].dirty <=> DirtAfter(q, v)
  <2>1. CASE q = NextPage
    BY <1>2, <1>4, <2>1, TouchedDirt DEF DirtAfter
  <2>2. CASE q = v
    BY <1>2, <1>4, <1>6, <2>2 DEF DirtAfter
  <2>3. CASE q # NextPage /\ q # v
    BY <1>2, <2>3 DEF DirtAfter
  <2> QED
    BY <2>1, <2>2, <2>3
<1> QED
  BY <1>4, <1>5, <1>7 DEF VictimWrittenBack, f, v

(***************************************************************************)
(* The inductive invariant: nothing is dirty before the first reference,   *)
(* and what that reference wrote is all that is written back.              *)
(***************************************************************************)
DirtyOnce ==
  /\ counts.dirtyEvictions \in Nat
  /\ index = 0 => counts.dirtyEvictions = 0 /\ \A p \in Pages : ~pages[p].dirty
  /\ index > 0 =>
       /\ \A p \in Pages : pages[p].dirty => p = trace[1]
       /\ counts.dirtyEvictions = IF pages[trace[1]].dirty THEN 0 ELSE 1

(* The first page of the trace, before and after a reference. *)
LEMMA FirstPage ==
  ASSUME UnitReady, Reference
  PROVE  /\ trace[1] \in Pages /\ trace'[1] = trace[1]
         /\ index \in Nat /\ index' = index + 1
         /\ index = 0 => NextPage = trace[1] /\ Writes = TRUE
         /\ index > 0 => Writes = FALSE
<1>1. trace \in Seq(Pages) /\ index \in 0 .. Len(trace) /\ index < Len(trace)
      /\ index' = index + 1 /\ trace' = trace
  BY DEF UnitReady, Reference
<1>2. trace[1] \in Pages
  BY <1>1
<1> QED
  BY <1>1, <1>2 DEF NextPage, Writes

(* No reference breaks it. *)
LEMMA ReferenceDirtyOnce ==
  ASSUME UnitReady, DirtyOnce, Reference
  PROVE  DirtyOnce'
<1>1. /\ trace[1] \in Pages /\ trace'[1] = trace[1]
      /\ index \in Nat /\ index' = index + 1
      /\ index = 0 => NextPage = trace[1] /\ Writes = TRUE
      /\ index > 0 => Writes = FALSE
  BY FirstPage
<1>2. NextPage \in Pages
  BY ReferenceServed
<1>3. CASE NothingWrittenBack
  <2>1. CASE index = 0
    BY <1>1, <1>2, <1>3, <2>1 DEF NothingWrittenBack, DirtyOnce
  <2>2. CASE index > 0
    BY <1>1, <1>2, <1>3, <2>2 DEF NothingWrittenBack, DirtyOnce
  <2> QED
    BY <1>1, <2>1, <2>2
<1>4. ASSUME NEW v \in Pages, v # NextPage, VictimWrittenBack(v) PROVE DirtyOnce'
  <2>1. CASE index = 0
    BY <1>1, <1>2, <1>4, <2>1 DEF VictimWrittenBack, DirtAfter, DirtyOnce
  <2>2. CASE index > 0
    <3>1. \A p \in Pages : pages'[p].dirty => p = trace[1]
      BY <1>1, <1>2, <1>4, <2>2 DEF VictimWrittenBack, DirtAfter, DirtyOnce
    <3>2. counts'.dirtyEvictions = IF pages'[trace[1]].dirty THEN 0 ELSE 1
      <4>1. CASE v = trace[1]
        BY <1>1, <1>2, <1>4, <2>2, <4>1 DEF VictimWrittenBack, DirtAfter, DirtyOnce
      <4>2. CASE v # trace[1]
        BY <1>1, <1>2, <1>4, <2>2, <4>2 DEF VictimWrittenBack, DirtAfter, DirtyOnce
      <4> QED
        BY <4>1, <4>2
    <3> QED
      BY <1>1, <2>2, <3>1, <3>2 DEF DirtyOnce
  <2> QED
    BY <1>1, <2>1, <2>2
<1> QED
  BY <1>3, <1>4, ReferenceServed, ResidentDirt, FreeFrameDirt, ReplacementDirt

(* It holds before the first reference. *)
LEMMA DirtyOnceInitially ==
  ASSUME TraceInit
  PROVE  DirtyOnce
BY DEF TraceInit, DirtyOnce, NoCounts, AbsentPage

(* The unit stays in order as long as references follow one another. *)
LEMMA UnitInvariant == TraceSpec => []UnitReady
<1>1. TraceInit => UnitReady
  BY UnitReadyInitially
<1>2. UnitReady /\ [Reference]_traceVars => UnitReady'
  BY ReferenceKeepsUnit, UnitStutters
<1> QED
  BY <1>1, <1>2, PTL DEF TraceSpec

(***************************************************************************)
(* What the first reference wrote is written back exactly once, when its   *)
(* page first leaves memory: DirtyDataWrittenBackOnce, for every trace,    *)
(* number of frames and policy.                                            *)
(***************************************************************************)
THEOREM WriteBackTheorem == TraceSpec => []DirtyDataWrittenBackOnce
<1>1. TraceInit => DirtyOnce
  BY DirtyOnceInitially
<1>2. UnitReady /\ DirtyOnce /\ [Reference]_traceVars => DirtyOnce'
  <2> SUFFICES ASSUME UnitReady, DirtyOnce, [Reference]_traceVars PROVE DirtyOnce'
    OBVIOUS
  <2>1. CASE Reference
    BY <2>1, ReferenceDirtyOnce
  <2>2. CASE UNCHANGED traceVars
    BY <2>2 DEF traceVars, vars, DirtyOnce
  <2> QED
    BY <2>1, <2>2
<1>3. DirtyOnce => DirtyDataWrittenBackOnce
  BY DEF DirtyOnce, DirtyDataWrittenBackOnce
<1> QED
  BY <1>1, <1>2, <1>3, UnitInvariant, PTL DEF TraceSpec

-----------------------------------------------------------------------------
(* LRU *)

(* <<p, q>>: page p has been referenced since page q was last. *)
UsedSince ==
  {e \in Pages \X Pages :
     \E i \in 1 .. index : trace[i] = e[1] /\ \A j \in i .. index : trace[j] # e[2]}

(***************************************************************************)
(* The inductive invariant: the list runs in the order of the references,  *)
(* and a page that has been evicted was last referenced before all that    *)
(* are resident.                                                           *)
(***************************************************************************)
KeepsRecent ==
  pol.kind = "LRU" =>
    /\ Ordered(pol.state.list, UsedSince)
    /\ Resident \subseteq ReferencedPages
    /\ \A q \in ReferencedPages \ Resident :
         /\ Cardinality(Resident) = NumFrames
         /\ \A p \in Resident : <<p, q>> \in UsedSince

(* A reference makes its page the most recent of all. *)
LEMMA ReferenceRenews ==
  ASSUME UnitReady, Reference
  PROVE  /\ Renews(UsedSince', UsedSince, NextPage, Pages)
         /\ ReferencedPages' = ReferencedPages \cup {NextPage}
<1>1. trace \in Seq(Pages) /\ index \in 0 .. Len(trace) /\ index < Len(trace)
      /\ index' = index + 1 /\ trace' = trace
  BY DEF UnitReady, Reference
<1>2. NextPage \in Pages /\ NextPage = trace[index + 1]
  BY <1>1 DEF NextPage
<1>3. ASSUME NEW e \in UsedSince, e[1] # NextPage, e[2] # NextPage PROVE e \in UsedSince'
  <2>1. e \in Pages \X Pages
    BY <1>3 DEF UsedSince
  <2>2. PICK i \in 1 .. index : trace[i] = e[1] /\ \A j \in i .. index : trace[j] # e[2]
    BY <1>3 DEF UsedSince
  <2>3. i \in 1 .. index'
    BY <1>1
  <2>4. ASSUME NEW j \in i .. index' PROVE trace[j] # e[2]
    <3>1. j \in i .. index \/ j = index + 1
      BY <1>1
    <3> QED
      BY <1>2, <1>3, <2>2, <3>1
  <2> QED
    BY <1>1, <2>1, <2>2, <2>3, <2>4 DEF UsedSince
<1>4. ASSUME NEW q \in Pages \ {NextPage} PROVE <<NextPage, q>> \in UsedSince'
  <2> DEFINE e == <<NextPage, q>>
  <2>1. e \in Pages \X Pages /\ e[1] = NextPage /\ e[2] = q
    BY <1>2
  <2>2. index + 1 \in 1 .. index' /\ trace[index + 1] = e[1]
    BY <1>1, <1>2, <2>1
  <2>3. \A j \in index + 1 .. index' : trace[j] # e[2]
    <3>1. \A j \in index + 1 .. index' : j = index + 1
      BY <1>1
    <3> QED
      BY <1>2, <2>1, <3>1
  <2> HIDE DEF e
  <2>4. e \in UsedSince'
    BY <1>1, <2>1, <2>2, <2>3 DEF UsedSince
  <2> QED
    BY <2>4 DEF e
<1>5. ReferencedPages' = ReferencedPages \cup {NextPage}
  <2>1. \A i : i \in 1 .. index' <=> i \in 1 .. index \/ i = index + 1
    BY <1>1
  <2> QED
    BY <1>1, <1>2, <2>1 DEF ReferencedPages
<1> QED
  BY <1>3, <1>4, <1>5 DEF Renews

(* A page that is renewed keeps everybody behind it behind it. *)
LEMMA StillSince ==
  ASSUME NEW R, NEW S, NEW r, Renews(S, R, r, Pages),
         NEW p \in Pages, NEW q \in Pages, q # r, p = r \/ <<p, q>> \in R
  PROVE  <<p, q>> \in S
<1> DEFINE e == <<p, q>>
<1>1. e[1] = p /\ e[2] = q
  OBVIOUS
<1>2. CASE p = r
  BY <1>2 DEF Renews
<1>3. CASE p # r /\ e \in R
  <2> HIDE DEF e
  <2>1. e \in S
    BY <1>1, <1>3 DEF Renews
  <2> QED
    BY <2>1 DEF e
<1> QED
  BY <1>2, <1>3

(* What LRU's list becomes by a load. *)
LEMMA LruAfterLoad ==
  ASSUME NEW policy, IsPolicy(policy, Pages, Frames), policy.kind = "LRU",
         NEW p \in Pages, NEW f \in Frames, ~Conflicts(Tracked(policy), p, f)
  PROVE  /\ AfterLoad(policy, p, f).state.list = Append(policy.state.list, Pair(p, f))
         /\ AfterLoad(policy, p, f).kind = "LRU"
<1> DEFINE a == PageAccessed(policy, p, f)
           n == PageLoaded(a, p, f)
<1>1. /\ IsPolicy(a, Pages, Frames) /\ Tracked(a) = Tracked(policy)
      /\ a.kind = policy.kind
  BY PolicyPageAccessed
<1>2. Pair(p, f) \notin Tracked(policy)
  <2>1. Pair(p, f).page = p
    BY DEF Pair
  <2> QED
    BY <2>1 DEF Conflicts
<1>3. a.state.list = policy.state.list
  BY <1>2, QueueAfterAccess
<1> HIDE DEF a
<1>4. n.state.list = Append(a.state.list, Pair(p, f)) /\ n.kind = a.kind
  <2>1. n.kind = a.kind
    BY <1>1, PolicyPageLoaded
  <2>2. a.kind = "LRU" /\ p \in Pages /\ f \in Frames /\ IsPolicy(a, Pages, Frames)
    BY <1>1
  <2>3. PageLoaded(a, p, f).state.list =
          IF Conflicts(Tracked(a), p, f) THEN a.state.list
          ELSE Append(a.state.list, Pair(p, f))
    BY <2>2, QueueAfterLoad
  <2> QED
    BY <1>1, <2>1, <2>3
<1>5. AfterLoad(policy, p, f) = n
  BY DEF AfterLoad, a
<1> HIDE DEF n
<1> QED
  BY <1>1, <1>3, <1>4, <1>5

(* The kind of the policy and the pairs in LRU's list. *)
LEMMA LruList ==
  ASSUME PInv, pol.kind = "LRU"
  PROVE  /\ IsQueue(pol.state.list, Pages, Frames)
         /\ \A e : e \in ToSet(pol.state.list) <=> \E p \in Resident : e = Pair(p, pages[p].frame)
         /\ Tracked(pol) = ToSet(pol.state.list)
<1>1. IsPolicy(pol, Pages, Frames) /\ Tracked(pol) = ResidentPairs
  BY DEF PInv, PolicyTracksResidents
<1>2. IsLru(pol.state, Pages, Frames) /\ Tracked(pol) = ToSet(pol.state.list)
  BY <1>1, StateByKind
<1>3. IsQueue(pol.state.list, Pages, Frames)
  BY <1>2 DEF IsLru
<1>4. \A e : e \in ResidentPairs <=> \E p \in Resident : e = Pair(p, pages[p].frame)
  BY ResidentFacts DEF PInv
<1> QED
  BY <1>1, <1>2, <1>3, <1>4

(* A use of a resident page moves it to the end of the list. *)
LEMMA ResidentKeepsRecent ==
  ASSUME UnitReady, KeepsRecent, Reference,
         AccessResident(1, NextPage, AddressIn(NextPage), Writes)
  PROVE  KeepsRecent' /\ pol'.kind = pol.kind
<1> DEFINE p == NextPage
           f == mem.table[p]
<1>1. /\ p \in Pages /\ p \in registered /\ 1 \in Processes
      /\ AddressIn(p) \in Addresses /\ Writes \in BOOLEAN
      /\ PInv /\ IsPolicy(pol, Pages, Frames)
  BY ReferenceServed DEF UnitReady, PInv
<1>2. /\ Resident' = Resident
      /\ pol' = PageAccessed(pol, p, f) /\ mem' = mem /\ IsMapped(mem, p)
  BY <1>1, ResidentAccessFollows DEF AccessResident
<1>3. p \in Resident /\ pages[p].frame = f /\ f \in Frames
  BY <1>1, <1>2, ResidentFacts DEF PInv
<1> HIDE DEF p, f
<1>4. pol'.kind = pol.kind
  BY <1>1, <1>2, <1>3, PolicyPageAccessed
<1>5. Renews(UsedSince', UsedSince, p, Pages) /\ ReferencedPages' = ReferencedPages \cup {p}
  BY ReferenceRenews DEF p
<1>6. ASSUME pol.kind = "LRU"
      PROVE  /\ Ordered(pol'.state.list, UsedSince')
             /\ Resident' \subseteq ReferencedPages'
             /\ \A q \in ReferencedPages' \ Resident' :
                  /\ Cardinality(Resident') = NumFrames
                  /\ \A x \in Resident' : <<x, q>> \in UsedSince'
  <2>1. /\ IsQueue(pol.state.list, Pages, Frames)
        /\ Pair(p, f) \in ToSet(pol.state.list)
        /\ Tracked(pol) = ToSet(pol.state.list)
    BY <1>1, <1>3, <1>6, LruList
  <2>2. pol'.state.list = Append(RemoveFirst(pol.state.list, Pair(p, f)), Pair(p, f))
    <3>1. PageAccessed(pol, p, f).state.list =
            IF Pair(p, f) \in Tracked(pol)
            THEN Append(RemoveFirst(pol.state.list, Pair(p, f)), Pair(p, f))
            ELSE pol.state.list
      BY <1>1, <1>3, <1>6, QueueAfterAccess
    <3> QED
      BY <1>2, <2>1, <3>1
  <2>3. Ordered(pol.state.list, UsedSince)
    BY <1>6 DEF KeepsRecent
  <2>4. Ordered(pol'.state.list, UsedSince')
    BY <1>1, <1>3, <1>5, <2>1, <2>2, <2>3, OrderMoveToEnd
  <2>5. Resident' \subseteq ReferencedPages'
    BY <1>2, <1>5, <1>6 DEF KeepsRecent
  <2>6. ASSUME NEW q \in ReferencedPages' \ Resident'
        PROVE  /\ Cardinality(Resident') = NumFrames
               /\ \A x \in Resident' : <<x, q>> \in UsedSince'
    <3>1. q \in ReferencedPages \ Resident /\ q # p
      BY <1>2, <1>3, <1>5, <2>6
    <3>2. /\ Cardinality(Resident) = NumFrames
          /\ \A x \in Resident : <<x, q>> \in UsedSince
      BY <1>6, <3>1 DEF KeepsRecent
    <3>3. q \in Pages
      BY <3>1 DEF ReferencedPages, UnitReady
    <3>4. ASSUME NEW x \in Resident PROVE <<x, q>> \in UsedSince'
      <4>1. x \in Pages
        BY DEF Resident
      <4> QED
        BY <1>5, <3>1, <3>2, <3>3, <4>1, StillSince
    <3> QED
      BY <1>2, <3>2, <3>4
  <2> QED
    BY <2>4, <2>5, <2>6
<1> QED
  BY <1>4, <1>6 DEF KeepsRecent

(* A load into a free frame adds its page at the end of the list; nobody   *)
(* has been evicted so far.                                                *)
LEMMA FreeFrameKeepsRecent ==
  ASSUME UnitReady, KeepsRecent, Reference,
         FaultWithFreeFrame(1, NextPage, AddressIn(NextPage), Writes)
  PROVE  KeepsRecent' /\ pol'.kind = pol.kind
<1> DEFINE p == NextPage
<1>1. /\ p \in Pages /\ p \in registered /\ 1 \in Processes
      /\ AddressIn(p) \in Addresses /\ Writes \in BOOLEAN
      /\ PInv /\ IsPolicy(pol, Pages, Frames) /\ IInv
  BY ReferenceServed DEF UnitReady, PInv
<1>2. PICK f \in Frames \ OccupiedFrames(mem) :
        /\ f = MapPage(mem, p).table[p]
        /\ p \in Pages \ Resident
        /\ Resident' = Resident \cup {p}
  BY <1>1, FreeFrameEffect
<1>3. pol' = AfterLoad(pol, p, f) /\ HasFreeFrame(mem)
  BY <1>2 DEF FaultWithFreeFrame
<1> HIDE DEF p
<1>4. Tracked(pol) = ResidentPairs
  BY <1>1 DEF PInv, PolicyTracksResidents
<1>5. ~Conflicts(Tracked(pol), p, f)
  <2> SUFFICES ASSUME NEW e \in ResidentPairs, e.page = p \/ e.frame = f PROVE FALSE
    BY <1>4 DEF Conflicts
  <2>1. PICK q \in Resident : e = Pair(q, pages[q].frame)
    BY <1>1, ResidentFacts
  <2>2. e.page = q /\ e.frame = pages[q].frame
    BY <2>1 DEF Pair
  <2>3. pages[q].frame \in OccupiedFrames(mem)
    BY <1>1, ResidentFacts
  <2> QED
    BY <1>2, <2>2, <2>3
<1>6. pol'.kind = pol.kind
  <2> DEFINE a == PageAccessed(pol, p, f)
  <2>1. IsPolicy(a, Pages, Frames) /\ a.kind = pol.kind
    BY <1>1, <1>2, PolicyPageAccessed
  <2>2. pol' = PageLoaded(a, p, f)
    BY <1>3 DEF AfterLoad
  <2> HIDE DEF a
  <2> QED
    BY <1>1, <1>2, <2>1, <2>2, PolicyPageLoaded
<1>7. Renews(UsedSince', UsedSince, p, Pages) /\ ReferencedPages' = ReferencedPages \cup {p}
  BY ReferenceRenews DEF p
<1>8. ASSUME pol.kind = "LRU"
      PROVE  /\ Ordered(pol'.state.list, UsedSince')
             /\ Resident' = ReferencedPages'
  <2>1. IsQueue(pol.state.list, Pages, Frames) /\ Tracked(pol) = ToSet(pol.state.list)
    BY <1>1, <1>8, LruList
  <2>2. pol'.state.list = Append(pol.state.list, Pair(p, f))
    BY <1>1, <1>2, <1>3, <1>5, <1>8, LruAfterLoad
  <2>3. Ordered(pol.state.list, UsedSince)
    BY <1>8 DEF KeepsRecent
  <2>4. Ordered(pol'.state.list, UsedSince')
    BY <1>1, <1>2, <1>5, <1>7, <2>1, <2>2, <2>3, OrderAppend
  <2>5. Cardinality(Resident) < NumFrames
    BY <1>1, <1>3, ResidentCount
  <2>6. Resident = ReferencedPages
    <3>1. Cardinality(Resident) # NumFrames
      BY <2>5, NumFramesAssumption
    <3>2. /\ Resident \subseteq ReferencedPages
          /\ \A q \in ReferencedPages \ Resident : Cardinality(Resident) = NumFrames
      BY <1>8 DEF KeepsRecent
    <3> QED
      BY <3>1, <3>2
  <2> QED
    BY <1>2, <1>7, <2>4, <2>6
<1> QED
  BY <1>6, <1>8 DEF KeepsRecent

(* LRU's victim is the page at the head of its list. *)
LEMMA LruVictim ==
  ASSUME PInv, pol.kind = "LRU", HasVictim(pol),
         NEW R, Ordered(pol.state.list, R),
         NEW v, v = mem.frames[Victim(pol)]
  PROVE  \A p \in Resident \ {v} : <<p, v>> \in R
<1> DEFINE q == pol.state.list
<1>1. /\ IsQueue(q, Pages, Frames)
      /\ \A e : e \in ToSet(q) <=> \E p \in Resident : e = Pair(p, pages[p].frame)
      /\ IsLru(pol.state, Pages, Frames)
  BY LruList, StateByKind DEF PInv
<1>2. 1 \in 1 .. Len(q) /\ Victim(pol) = q[1].frame
  <2>1. Lru!HasVictim(pol.state) /\ Victim(pol) = Lru!Victim(pol.state)
    BY DEF HasVictim, Victim
  <2> QED
    BY <1>1, <2>1, LruChoice
<1> HIDE DEF q
<1>3. \A i \in 1 .. Len(q) : q[i] \in ToSet(q)
  BY <1>1, QueueElements
<1>4. \A p \in Resident : mem.frames[pages[p].frame] = p
  BY ResidentFacts DEF PInv
<1>5. q[1].page = v
  <2>1. PICK p \in Resident : q[1] = Pair(p, pages[p].frame)
    BY <1>1, <1>2, <1>3
  <2>2. q[1].page = p /\ q[1].frame = pages[p].frame
    BY <2>1 DEF Pair
  <2> QED
    BY <1>2, <1>4, <2>2
<1>6. ASSUME NEW p \in Resident \ {v} PROVE <<p, v>> \in R
  <2>1. PICK j \in 1 .. Len(q) : q[j] = Pair(p, pages[p].frame)
    <3>1. Pair(p, pages[p].frame) \in ToSet(q)
      BY <1>1
    <3> QED
      BY <1>1, <3>1, QueueElements
  <2>2. q[j].page = p
    BY <2>1 DEF Pair
  <2>3. Len(q) \in Nat /\ j # 1
    BY <1>1, <1>5, <2>2, QueueElements
  <2>4. <<q[j].page, q[1].page>> \in R
    BY <1>2, <2>3 DEF Ordered, q
  <2> QED
    BY <1>5, <2>2, <2>4
<1> QED
  BY <1>6

(* What a replacement makes of LRU's list, in the terms of the calls. *)
LEMMA LruAfterReplacement ==
  ASSUME NEW policy, IsPolicy(policy, Pages, Frames), policy.kind = "LRU",
         NEW p \in Pages, NEW v \in Pages, NEW f \in Frames,
         \A e \in Tracked(policy) : (e.page = p \/ e.frame = f) => e = Pair(v, f)
  PROVE  LET c == AfterChoice(policy)
             r == PageRemoved(c, v, f)
             n == AfterLoad(r, p, f)
         IN  /\ n.state.list = Append(RemoveFirst(policy.state.list, Pair(v, f)), Pair(p, f))
             /\ n.kind = "LRU"
<1> DEFINE c == AfterChoice(policy)
           r == PageRemoved(c, v, f)
           n == AfterLoad(r, p, f)
<1>1. /\ IsPolicy(c, Pages, Frames) /\ Tracked(c) = Tracked(policy) /\ c.kind = "LRU"
      /\ c.state = policy.state
  <2>1. /\ IsPolicy(c, Pages, Frames) /\ Tracked(c) = Tracked(policy) /\ c.kind = policy.kind
    BY PolicyAfterChoice
  <2>2. AfterChoice(policy).state = policy.state
    BY QueueAfterChoice
  <2> QED
    BY <2>1, <2>2
<1> HIDE DEF c
<1>2. /\ IsPolicy(r, Pages, Frames) /\ Tracked(r) = Tracked(c) \ {Pair(v, f)}
      /\ r.kind = c.kind
  BY <1>1, PolicyPageRemoved
<1>3. PageRemoved(c, v, f).state.list = RemoveFirst(c.state.list, Pair(v, f))
  BY <1>1, QueueAfterRemoval
<1>4. r.state.list = RemoveFirst(policy.state.list, Pair(v, f)) /\ r.kind = "LRU"
  BY <1>1, <1>2, <1>3
<1> HIDE DEF r
<1>5. ~Conflicts(Tracked(r), p, f)
  BY <1>1, <1>2 DEF Conflicts
<1>6. /\ AfterLoad(r, p, f).state.list = Append(r.state.list, Pair(p, f))
      /\ AfterLoad(r, p, f).kind = "LRU"
  BY <1>2, <1>4, <1>5, LruAfterLoad
<1>7. n.state.list = Append(RemoveFirst(policy.state.list, Pair(v, f)), Pair(p, f))
      /\ n.kind = "LRU"
  BY <1>4, <1>6
<1> HIDE DEF n
<1> QED
  BY <1>7 DEF n, r, c

(* The count of dirty evictions is not part of the list. *)
LEMMA RecordingKeepsList ==
  ASSUME NEW policy, policy = [kind |-> policy.kind, state |-> policy.state,
                               replacements |-> policy.replacements,
                               dirtyEvictions |-> policy.dirtyEvictions]
  PROVE  /\ RecordDirtyEviction(policy).kind = policy.kind
         /\ RecordDirtyEviction(policy).state = policy.state
BY DEF RecordDirtyEviction

(* A replacement takes the head of the list out: the page that was last    *)
(* referenced before all others.                                           *)
LEMMA ReplacementKeepsRecent ==
  ASSUME UnitReady, KeepsRecent, Reference, pol.kind = "LRU",
         FaultWithReplacement(1, NextPage, AddressIn(NextPage), Writes)
  PROVE  KeepsRecent'
<1> DEFINE p == NextPage
           f == Victim(pol)
           v == mem.frames[f]
           d == pages[v].dirty
           q == pol.state.list
           n == AfterReplacement(p, v, f)
<1>1. /\ p \in Pages /\ p \in registered /\ 1 \in Processes
      /\ AddressIn(p) \in Addresses /\ Writes \in BOOLEAN
      /\ PInv /\ IsPolicy(pol, Pages, Frames) /\ IInv
  BY ReferenceServed DEF UnitReady, PInv
<1>2. /\ f \in Frames
      /\ v \in Resident /\ p \in Pages \ Resident
      /\ pages[v].frame = f
      /\ Resident' = (Resident \ {v}) \cup {p}
  BY <1>1, ReplacementEffect
<1>3. /\ HasVictim(pol) /\ ~HasFreeFrame(mem)
      /\ pol' = IF d THEN RecordDirtyEviction(n) ELSE n
  BY DEF FaultWithReplacement
<1>4. n = AfterLoad(PageRemoved(AfterChoice(pol), v, f), p, f)
  BY DEF AfterReplacement
<1>5. IsPolicy(pol', Pages, Frames)
  BY <1>1, ReplacementFollows DEF Follows
<1>6. IsQueue(q, Pages, Frames) /\ Ordered(q, UsedSince) /\ Tracked(pol) = ToSet(q)
      /\ \A e : e \in ToSet(q) <=> \E x \in Resident : e = Pair(x, pages[x].frame)
  BY <1>1, LruList DEF KeepsRecent
<1>7. \A x \in Resident \ {v} : <<x, v>> \in UsedSince
  BY <1>1, <1>3, <1>6, LruVictim
<1>8. Renews(UsedSince', UsedSince, p, Pages) /\ ReferencedPages' = ReferencedPages \cup {p}
  BY ReferenceRenews
<1>9. Cardinality(Resident') = NumFrames
  <2>1. Cardinality(Resident) = NumFrames
    BY <1>1, <1>3, ResidentCount
  <2>2. IsFiniteSet(Resident)
    BY PagesAssumption, FS_Subset DEF Resident
  <2>3. IsFiniteSet(Resident \ {v}) /\ Cardinality(Resident \ {v}) = NumFrames - 1
    BY <1>2, <2>1, <2>2, FS_RemoveElement
  <2>4. Cardinality((Resident \ {v}) \cup {p}) = NumFrames - 1 + 1
    BY <1>2, <2>3, FS_AddElement
  <2> QED
    BY <1>2, <2>4, NumFramesAssumption
<1>10. \A e \in Tracked(pol) : (e.page = p \/ e.frame = f) => e = Pair(v, f)
  <2> SUFFICES ASSUME NEW e \in Tracked(pol), e.page = p \/ e.frame = f PROVE e = Pair(v, f)
    OBVIOUS
  <2>1. PICK x \in Resident : e = Pair(x, pages[x].frame)
    BY <1>6
  <2>2. e.page = x /\ e.frame = pages[x].frame
    BY <2>1 DEF Pair
  <2>3. mem.frames[pages[x].frame] = x
    BY <1>1, ResidentFacts
  <2> QED
    BY <1>2, <2>1, <2>2, <2>3
<1> HIDE DEF p, f, v, d, q, n
<1>11. n.state.list = Append(RemoveFirst(q, Pair(v, f)), Pair(p, f)) /\ n.kind = "LRU"
  <2>1. v \in Pages
    BY <1>2 DEF Resident
  <2>2. LET c == AfterChoice(pol)
            r == PageRemoved(c, v, f)
            m == AfterLoad(r, p, f)
        IN  /\ m.state.list = Append(RemoveFirst(pol.state.list, Pair(v, f)), Pair(p, f))
            /\ m.kind = "LRU"
    BY <1>1, <1>2, <1>10, <2>1, LruAfterReplacement
  <2> QED
    BY <1>4, <2>2 DEF q
<1>12. pol'.state.list = n.state.list
  <2>1. CASE ~d
    BY <1>3, <2>1
  <2>2. CASE d
    <3>1. pol' = [n EXCEPT !.dirtyEvictions = @ + 1]
      BY <1>3, <2>2 DEF RecordDirtyEviction
    <3>2. pol'.state = n.state
      BY <1>5, <3>1 DEF IsPolicy
    <3> QED
      BY <3>2
  <2> QED
    BY <2>1, <2>2
<1>13. Ordered(pol'.state.list, UsedSince')
  <2> DEFINE r == RemoveFirst(q, Pair(v, f))
  <2>1. IsQueue(r, Pages, Frames) /\ ToSet(r) = ToSet(q) \ {Pair(v, f)}
    BY <1>6, QueueRemoveFirst
  <2>2. Ordered(r, UsedSince)
    BY <1>6, OrderRemove
  <2> HIDE DEF r
  <2>3. ~Conflicts(ToSet(r), p, f)
    BY <1>6, <1>10, <2>1 DEF Conflicts
  <2>4. Ordered(Append(r, Pair(p, f)), UsedSince')
    BY <1>1, <1>2, <1>8, <2>1, <2>2, <2>3, OrderAppend
  <2> QED
    BY <1>11, <1>12, <2>4 DEF r
<1>14. Resident' \subseteq ReferencedPages'
  BY <1>2, <1>8 DEF KeepsRecent
<1>15. ASSUME NEW x \in ReferencedPages' \ Resident', NEW y \in Resident'
       PROVE  <<y, x>> \in UsedSince'
  <2>1. x # p /\ x \in ReferencedPages /\ (x = v \/ x \notin Resident)
    BY <1>2, <1>8, <1>15
  <2>2. x \in Pages /\ y \in Pages
    <3>1. ReferencedPages \subseteq Pages
      BY DEF ReferencedPages, UnitReady
    <3> QED
      BY <1>1, <1>2, <2>1, <3>1 DEF Resident
  <2>3. y = p \/ <<y, x>> \in UsedSince
    <3>1. y = p \/ y \in Resident \ {v}
      BY <1>2, <1>15
    <3>2. CASE x = v
      BY <1>7, <3>1, <3>2
    <3>3. CASE x \notin Resident
      BY <2>1, <3>1, <3>3 DEF KeepsRecent
    <3> QED
      BY <2>1, <3>2, <3>3
  <2> QED
    BY <1>8, <2>1, <2>2, <2>3, StillSince
<1> QED
  BY <1>9, <1>13, <1>14, <1>15 DEF KeepsRecent

(* A replacement keeps the kind of the policy. *)
LEMMA ReplacementKeepsKind ==
  ASSUME UnitReady, Reference, FaultWithReplacement(1, NextPage, AddressIn(NextPage), Writes)
  PROVE  pol'.kind = pol.kind
<1> DEFINE p == NextPage
           f == Victim(pol)
           v == mem.frames[f]
           d == pages[v].dirty
           c == AfterChoice(pol)
           r == PageRemoved(c, v, f)
           a == PageAccessed(r, p, f)
           n == PageLoaded(a, p, f)
<1>1. /\ p \in Pages /\ p \in registered /\ 1 \in Processes
      /\ AddressIn(p) \in Addresses /\ Writes \in BOOLEAN
      /\ PInv /\ IsPolicy(pol, Pages, Frames) /\ IInv
  BY ReferenceServed DEF UnitReady, PInv
<1>2. f \in Frames /\ v \in Pages
  BY <1>1, ReplacementEffect DEF Resident
<1>3. pol' = IF d THEN RecordDirtyEviction(n) ELSE n
  BY DEF FaultWithReplacement, AfterReplacement, AfterLoad
<1> HIDE DEF p, f, v, d
<1>4. IsPolicy(c, Pages, Frames) /\ c.kind = pol.kind
  BY <1>1, PolicyAfterChoice
<1> HIDE DEF c
<1>5. IsPolicy(r, Pages, Frames) /\ r.kind = c.kind
  BY <1>2, <1>4, PolicyPageRemoved
<1> HIDE DEF r
<1>6. IsPolicy(a, Pages, Frames) /\ a.kind = r.kind
  BY <1>1, <1>2, <1>5, PolicyPageAccessed
<1> HIDE DEF a
<1>7. IsPolicy(n, Pages, Frames) /\ n.kind = a.kind
  BY <1>1, <1>2, <1>6, PolicyPageLoaded
<1> HIDE DEF n
<1>8. RecordDirtyEviction(n).kind = n.kind
  BY <1>7, RecordingKeepsList DEF IsPolicy
<1> QED
  BY <1>3, <1>4, <1>5, <1>6, <1>7, <1>8

(* A bounded set of numbers has a greatest element. *)
LEMMA GreatestNumber ==
  ASSUME NEW n \in Nat, NEW S \in SUBSET (1 .. n), S # {}
  PROVE  Max(S) \in S /\ \A x \in S : x <= Max(S)
<1> DEFINE T == {n - x : x \in S}
<1>1. T \in SUBSET Nat /\ T # {}
  <2>1. \A x \in S : n - x \in Nat
    OBVIOUS
  <2>2. PICK x \in S : TRUE
    OBVIOUS
  <2>3. n - x \in T
    OBVIOUS
  <2> QED
    BY <2>1, <2>3
<1>2. Min(T) \in T /\ \A t \in T : Min(T) <= t
  BY <1>1, LeastNatural
<1>3. PICK m \in S : Min(T) = n - m
  BY <1>2
<1>4. \A x \in S : x \in Nat /\ m \in Nat /\ n - x \in T
  OBVIOUS
<1>5. \A x \in S : m >= x
  <2> HIDE DEF T
  <2> QED
    BY <1>2, <1>3, <1>4
<1> HIDE DEF T
<1>6. \E x \in S : \A y \in S : x >= y
  BY <1>5
<1>7. Max(S) \in S /\ \A y \in S : Max(S) >= y
  BY <1>6 DEF Max
<1> QED
  BY <1>7

(* After its last reference a page is not referenced any more. *)
LEMMA LastOfPage ==
  ASSUME UnitReady, NEW p \in ReferencedPages
  PROVE  /\ LastReference(p) \in 1 .. index /\ trace[LastReference(p)] = p
         /\ \A j \in 1 .. index : trace[j] = p => j <= LastReference(p)
<1> DEFINE S == {i \in 1 .. index : trace[i] = p}
<1>1. index \in Nat
  BY DEF UnitReady
<1>2. S \in SUBSET (1 .. index) /\ S # {}
  BY DEF ReferencedPages
<1>3. LastReference(p) = Max(S)
  BY DEF LastReference
<1>4. Max(S) \in S /\ \A i \in S : i <= Max(S)
  BY <1>1, <1>2, GreatestNumber
<1> QED
  BY <1>3, <1>4

(* One page has been used since another just when its last reference is    *)
(* the later one.                                                          *)
LEMMA SinceIsLater ==
  ASSUME UnitReady, NEW p \in ReferencedPages, NEW q \in ReferencedPages
  PROVE  <<p, q>> \in UsedSince <=> LastReference(p) > LastReference(q)
<1> DEFINE l == LastReference(p)
           m == LastReference(q)
           e == <<p, q>>
<1>1. /\ l \in 1 .. index /\ trace[l] = p
      /\ \A j \in 1 .. index : trace[j] = p => j <= l
      /\ m \in 1 .. index /\ trace[m] = q
      /\ \A j \in 1 .. index : trace[j] = q => j <= m
  BY LastOfPage
<1>2. index \in Nat /\ p \in Pages /\ q \in Pages
  BY DEF UnitReady, ReferencedPages
<1>3. e \in Pages \X Pages /\ e[1] = p /\ e[2] = q
  BY <1>2
<1> HIDE DEF l, m, e
<1>4. ASSUME e \in UsedSince PROVE l > m
  <2>1. PICK i \in 1 .. index : trace[i] = p /\ \A j \in i .. index : trace[j] # q
    BY <1>3, <1>4 DEF UsedSince
  <2>2. i <= l /\ m \notin i .. index
    BY <1>1, <2>1
  <2> QED
    BY <1>1, <1>2, <2>2
<1>5. ASSUME l > m PROVE e \in UsedSince
  <2>1. \A j \in l .. index : trace[j] # q
    BY <1>1, <1>2, <1>5
  <2> QED
    BY <1>1, <1>3, <2>1 DEF UsedSince
<1> QED
  BY <1>4, <1>5 DEF l, m, e

(* So the residents are the pages that few others have been used since.    *)
LEMMA KeepsRecentSuffices ==
  ASSUME UnitReady, KeepsRecent
  PROVE  LruKeepsMostRecent
<1> SUFFICES ASSUME pol.kind = "LRU"
             PROVE  Resident = {p \in ReferencedPages :
                      Cardinality({q \in ReferencedPages : LastReference(q) > LastReference(p)})
                        < NumFrames}
  BY DEF LruKeepsMostRecent
<1> DEFINE Later(p) == {q \in ReferencedPages : LastReference(q) > LastReference(p)}
<1>1. ReferencedPages \subseteq Pages /\ Resident \subseteq Pages
  BY DEF UnitReady, ReferencedPages, Resident
<1>2. IsFiniteSet(ReferencedPages) /\ IsFiniteSet(Resident)
  BY <1>1, PagesAssumption, FS_Subset
<1>3. Resident \subseteq ReferencedPages
  BY DEF KeepsRecent
<1>4. ASSUME NEW q \in ReferencedPages \ Resident
      PROVE  /\ Cardinality(Resident) = NumFrames
             /\ \A p \in Resident : LastReference(p) > LastReference(q)
  <2>1. /\ Cardinality(Resident) = NumFrames
        /\ \A p \in Resident : <<p, q>> \in UsedSince
    BY DEF KeepsRecent
  <2> QED
    BY <1>3, <2>1, SinceIsLater
<1>5. \A p \in ReferencedPages : LastReference(p) \in Int
  BY LastOfPage DEF UnitReady
<1>6. Cardinality(Resident) \in Nat /\ Cardinality(Resident) <= NumFrames
  <2>1. Cardinality(Resident) \in Nat
    BY <1>2, FS_CardinalityType
  <2>2. HasFreeFrame(mem) => Cardinality(Resident) < NumFrames
    BY ResidentCount DEF UnitReady, PInv
  <2>3. ~HasFreeFrame(mem) => Cardinality(Resident) = NumFrames
    BY ResidentCount DEF UnitReady, PInv
  <2> QED
    BY <2>1, <2>2, <2>3, NumFramesAssumption
<1>7. ASSUME NEW p \in Resident PROVE Cardinality(Later(p)) < NumFrames
  <2>1. Later(p) \in SUBSET (Resident \ {p})
    BY <1>3, <1>4, <1>5
  <2>2. IsFiniteSet(Resident \ {p}) /\ Cardinality(Resident \ {p}) = Cardinality(Resident) - 1
    BY <1>2, FS_RemoveElement
  <2> HIDE DEF Later
  <2>3. IsFiniteSet(Later(p)) /\ Cardinality(Later(p)) <= Cardinality(Resident \ {p})
    BY <2>1, <2>2, FS_Subset
  <2>4. Cardinality(Later(p)) \in Nat
    BY <2>3, FS_CardinalityType
  <2> QED
    BY <1>6, <2>2, <2>3, <2>4, NumFramesAssumption
<1>8. ASSUME NEW p \in ReferencedPages \ Resident PROVE ~(Cardinality(Later(p)) < NumFrames)
  <2>1. Resident \in SUBSET Later(p) /\ Cardinality(Resident) = NumFrames
    BY <1>3, <1>4
  <2>2. Later(p) \in SUBSET ReferencedPages
    OBVIOUS
  <2> HIDE DEF Later
  <2>3. IsFiniteSet(Later(p))
    BY <1>2, <2>2, FS_Subset
  <2>4. Cardinality(Resident) <= Cardinality(Later(p)) /\ Cardinality(Later(p)) \in Nat
    BY <2>1, <2>3, FS_Subset, FS_CardinalityType
  <2> QED
    BY <2>1, <2>4, NumFramesAssumption
<1> QED
  BY <1>3, <1>7, <1>8

(* No reference breaks the invariant, *)
LEMMA ReferenceKeepsRecent ==
  ASSUME UnitReady, KeepsRecent, Reference
  PROVE  KeepsRecent'
<1>1. CASE FaultWithReplacement(1, NextPage, AddressIn(NextPage), Writes)
  <2>1. pol'.kind = pol.kind
    BY <1>1, ReplacementKeepsKind
  <2>2. CASE pol.kind = "LRU"
    BY <1>1, <2>2, ReplacementKeepsRecent
  <2>3. CASE pol.kind # "LRU"
    BY <2>1, <2>3 DEF KeepsRecent
  <2> QED
    BY <2>2, <2>3
<1> QED
  BY <1>1, ReferenceServed, ResidentKeepsRecent, FreeFrameKeepsRecent

(* and it holds before the first. *)
LEMMA KeepsRecentInitially ==
  ASSUME TraceInit
  PROVE  KeepsRecent
<1>1. index = 0 /\ Resident = {}
  BY UnitReadyInitially
<1>2. ReferencedPages = {}
  BY <1>1 DEF ReferencedPages
<1>3. ASSUME pol.kind = "LRU" PROVE Ordered(pol.state.list, UsedSince)
  <2>1. PICK kind \in Kinds : pol = Prepared(kind)
    BY DEF TraceInit
  <2>2. kind = "LRU"
    BY <1>3, <2>1, PreparedPolicy DEF TraceInit
  <2>3. pol = NewPolicy("LRU")
    BY <2>1, <2>2 DEF Prepared
  <2>4. pol.state.list = <<>>
    BY <2>3 DEF NewPolicy, Lru!Empty
  <2> QED
    BY <2>4 DEF Ordered
<1> QED
  BY <1>1, <1>2, <1>3 DEF KeepsRecent

(***************************************************************************)
(* Under LRU the resident pages are the NumFrames pages referenced last:   *)
(* LruKeepsMostRecent, for every trace and number of frames.               *)
(***************************************************************************)
THEOREM LruTheorem == TraceSpec => []LruKeepsMostRecent
<1>1. TraceInit => KeepsRecent
  BY KeepsRecentInitially
<1>2. UnitReady /\ KeepsRecent /\ [Reference]_traceVars => KeepsRecent'
  <2> SUFFICES ASSUME UnitReady, KeepsRecent, [Reference]_traceVars PROVE KeepsRecent'
    OBVIOUS
  <2>1. CASE Reference
    BY <2>1, ReferenceKeepsRecent
  <2>2. CASE UNCHANGED traceVars
    <3>1. UNCHANGED <<trace, index, pages, pol>>
      BY <2>2 DEF traceVars, vars
    <3>2. UsedSince' = UsedSince /\ ReferencedPages' = ReferencedPages /\ Resident' = Resident
      BY <3>1 DEF UsedSince, ReferencedPages, Resident
    <3> QED
      BY <3>1, <3>2 DEF KeepsRecent, Ordered
  <2> QED
    BY <2>1, <2>2
<1>3. UnitReady /\ KeepsRecent => LruKeepsMostRecent
  BY KeepsRecentSuffices
<1> QED
  BY <1>1, <1>2, <1>3, UnitInvariant, PTL DEF TraceSpec

-----------------------------------------------------------------------------
(* The activity log *)

(* What an event has besides the flags. *)
IsEvent(e) == {"type", "sequence", "page", "frame", "victim"} \subseteq DOMAIN e

(* Two events that differ at most in their number and their flags. *)
TellsSame(d, e) ==
  d.type = e.type /\ d.page = e.page /\ d.frame = e.frame /\ d.victim = e.victim

(* A log that is attached and has a list of events. *)
IsLog(l) ==
  /\ l = [attached |-> TRUE, events |-> l.events, next |-> l.next]
  /\ \E S : l.events \in Seq(S)

(* The events the unit reports besides write-backs, *)
LEMMA OtherEvents ==
  ASSUME NEW pid, NEW p
  PROVE  /\ IsEvent(Activity!Status(pid, p)) /\ Activity!Status(pid, p).type = "Status"
         /\ IsEvent(Activity!PageFault(pid, p)) /\ Activity!PageFault(pid, p).type = "PageFault"
         /\ \A f : /\ IsEvent(Activity!FrameAssignment(pid, p, f))
                  /\ Activity!FrameAssignment(pid, p, f).type = "FrameAssignment"
         /\ \A f, r : /\ IsEvent(Activity!Access(pid, p, f, r))
                     /\ Activity!Access(pid, p, f, r).type = "Access"
BY DEF IsEvent, Activity!Status, Activity!Access, Activity!PageFault,
       Activity!FrameAssignment, Activity!Event

(* and the two that tell of one. *)
LEMMA WriteBackEvents ==
  ASSUME NEW pid, NEW p, NEW f, NEW v
  PROVE  /\ IsEvent(Activity!PageReplacement(pid, p, f, v))
         /\ Activity!PageReplacement(pid, p, f, v).type = "PageReplacement"
         /\ Activity!PageReplacement(pid, p, f, v).frame = f
         /\ Activity!PageReplacement(pid, p, f, v).victim = v
         /\ IsEvent(Activity!DirtyEviction(pid, v, f))
         /\ Activity!DirtyEviction(pid, v, f).type = "DirtyEviction"
         /\ Activity!DirtyEviction(pid, v, f).frame = f
         /\ Activity!DirtyEviction(pid, v, f).page = v
BY DEF IsEvent, Activity!PageReplacement, Activity!DirtyEviction, Activity!Event

(* An event tells the same whatever its number. *)
LEMMA NumberedTellsSame ==
  ASSUME NEW e, IsEvent(e), NEW n
  PROVE  TellsSame([e EXCEPT !.sequence = n], e)
BY DEF IsEvent, TellsSame

(* Recording is appending. *)
LEMMA Recorded ==
  ASSUME NEW l, IsLog(l), NEW E, NEW es \in Seq(E), \A i \in 1 .. Len(es) : IsEvent(es[i]),
         NEW k, k = Activity!RecordAll(l, es)
  PROVE  /\ IsLog(k)
         /\ Len(l.events) \in Nat /\ Len(k.events) = Len(l.events) + Len(es)
         /\ \A i \in 1 .. Len(l.events) : k.events[i] = l.events[i]
         /\ \A i \in 1 .. Len(es) : TellsSame(k.events[Len(l.events) + i], es[i])
<1> DEFINE n == Len(es)
           m == Len(l.events)
           t == [i \in 1 .. n |-> [es[i] EXCEPT !.sequence = l.next + i - 1]]
<1>1. PICK S : l.events \in Seq(S)
  BY DEF IsLog
<1>2. n \in Nat /\ m \in Nat /\ DOMAIN t = 1 .. n
  BY <1>1
<1>3. k = [attached |-> TRUE, events |-> l.events \o t, next |-> l.next + n]
  <2>1. l.attached = TRUE /\ l = [attached |-> TRUE, events |-> l.events, next |-> l.next]
    BY DEF IsLog
  <2>2. k = [l EXCEPT !.events = l.events \o t, !.next = l.next + n]
    BY <2>1 DEF Activity!RecordAll
  <2> HIDE DEF t, n
  <2> QED
    BY <2>1, <2>2
<1>4. \A i \in 1 .. n : TellsSame(t[i], es[i])
  <2> SUFFICES ASSUME NEW i \in 1 .. n PROVE TellsSame(t[i], es[i])
    OBVIOUS
  <2>1. t[i] = [es[i] EXCEPT !.sequence = l.next + i - 1]
    OBVIOUS
  <2>2. IsEvent(es[i])
    OBVIOUS
  <2> HIDE DEF t, n
  <2> QED
    BY <2>1, <2>2, NumberedTellsSame
<1> DEFINE T == S \cup {t[i] : i \in 1 .. n}
<1>5. l.events \in Seq(T) /\ t \in Seq(T) /\ Len(t) = n
  <2>1. l.events \in Seq(T)
    <3>1. \A i \in 1 .. Len(l.events) : l.events[i] \in T
      BY <1>1, ElementOfSeq
    <3>2. l.events = [i \in 1 .. Len(l.events) |-> l.events[i]] /\ Len(l.events) \in Nat
      BY <1>1
    <3> HIDE DEF T
    <3> QED
      BY <3>1, <3>2
  <2>2. t \in Seq(T)
    <3>1. t = [i \in 1 .. n |-> t[i]]
      OBVIOUS
    <3> HIDE DEF t
    <3>2. \A i \in 1 .. n : t[i] \in T
      OBVIOUS
    <3> HIDE DEF T
    <3>3. [i \in 1 .. n |-> t[i]] \in [1 .. n -> T]
      BY <3>2
    <3> QED
      BY <1>2, <3>1, <3>3
  <2>3. Len(t) = n
    BY <1>2, <2>2, LenProperties
  <2> QED
    BY <2>1, <2>2, <2>3
<1> HIDE DEF t, T
<1>6. /\ l.events \o t \in Seq(T) /\ Len(l.events \o t) = m + n
      /\ \A i \in 1 .. m + n : (l.events \o t)[i] = IF i <= m THEN l.events[i] ELSE t[i - m]
  <2> DEFINE a == l.events
  <2>1. a \in Seq(T) /\ t \in Seq(T) /\ Len(a) = m /\ Len(t) = n
    BY <1>5
  <2> HIDE DEF a, n, m
  <2>2. /\ a \o t \in Seq(T) /\ Len(a \o t) = Len(a) + Len(t)
        /\ \A i \in 1 .. Len(a) + Len(t) :
             (a \o t)[i] = IF i <= Len(a) THEN a[i] ELSE t[i - Len(a)]
    BY <2>1, ConcatProperties
  <2>3. /\ a \o t \in Seq(T) /\ Len(a \o t) = m + n
        /\ \A i \in 1 .. m + n : (a \o t)[i] = IF i <= m THEN a[i] ELSE t[i - m]
    BY <2>1, <2>2
  <2> QED
    BY <2>3 DEF a
<1>7. k.events = l.events \o t
  BY <1>3
<1> HIDE DEF n
<1>8. \A i \in 1 .. m : k.events[i] = l.events[i]
  BY <1>2, <1>6, <1>7
<1>9. ASSUME NEW i \in 1 .. n PROVE TellsSame(k.events[m + i], es[i])
  <2>1. m + i \in 1 .. m + n /\ ~(m + i <= m) /\ (m + i) - m = i
    BY <1>2
  <2>2. k.events[m + i] = t[i]
    BY <1>6, <1>7, <2>1
  <2> QED
    BY <1>4, <2>2
<1>10. IsLog(k)
  BY <1>3, <1>6 DEF IsLog
<1> QED
  BY <1>2, <1>6, <1>7, <1>8, <1>9, <1>10 DEF n

(* A list between a first and a last element. *)
LEMMA Framed ==
  ASSUME NEW F, NEW first \in F, NEW last \in F, NEW es \in Seq(F)
  PROVE  LET all == <<first>> \o es \o <<last>>
         IN  /\ all \in Seq(F) /\ Len(all) = Len(es) + 2 /\ Len(es) \in Nat
             /\ all[1] = first /\ all[Len(es) + 2] = last
             /\ \A i \in 1 .. Len(es) : all[i + 1] = es[i]
<1> DEFINE all == <<first>> \o es \o <<last>>
           n   == Len(es)
           b   == <<first>> \o es
<1>1. n \in Nat
  OBVIOUS
<1>2. /\ <<first>> \in Seq(F) /\ <<last>> \in Seq(F) /\ Len(<<first>>) = 1 /\ Len(<<last>>) = 1
      /\ <<first>>[1] = first /\ <<last>>[1] = last
  OBVIOUS
<1>3. b \in Seq(F) /\ Len(b) = n + 1 /\ b[1] = first /\ \A i \in 1 .. n : b[i + 1] = es[i]
  <2>1. b \in Seq(F) /\ Len(b) = 1 + n
    BY <1>2, ConcatProperties
  <2>2. \A i \in 1 .. 1 + n : b[i] = IF i <= 1 THEN <<first>>[i] ELSE es[i - 1]
    BY <1>2, ConcatProperties
  <2>3. b[1] = first
    BY <1>1, <1>2, <2>2
  <2>4. \A i \in 1 .. n : i + 1 \in 1 .. 1 + n /\ ~(i + 1 <= 1) /\ (i + 1) - 1 = i
    BY <1>1
  <2>5. \A i \in 1 .. n : b[i + 1] = es[i]
    BY <2>2, <2>4
  <2> HIDE DEF b, n
  <2> QED
    BY <1>1, <2>1, <2>3, <2>5
<1>4. all = b \o <<last>>
  OBVIOUS
<1> HIDE DEF b, n
<1>5. all \in Seq(F) /\ Len(all) = n + 2
      /\ \A i \in 1 .. n + 2 : all[i] = IF i <= n + 1 THEN b[i] ELSE <<last>>[i - (n + 1)]
  BY <1>1, <1>2, <1>3, <1>4, ConcatProperties
<1> HIDE DEF all
<1>6. all[1] = first
  BY <1>1, <1>3, <1>5
<1>7. all[n + 2] = last
  <2>1. n + 2 \in 1 .. n + 2 /\ ~(n + 2 <= n + 1) /\ (n + 2) - (n + 1) = 1
    BY <1>1
  <2> QED
    BY <1>2, <1>5, <2>1
<1>8. \A i \in 1 .. n : all[i + 1] = es[i]
  <2>1. \A i \in 1 .. n : i + 1 \in 1 .. n + 2 /\ i + 1 <= n + 1
    BY <1>1
  <2> QED
    BY <1>3, <1>5, <2>1
<1> QED
  BY <1>1, <1>5, <1>6, <1>7, <1>8 DEF all, n

(* What an access adds to the log: what happened on the way, between the   *)
(* report that it begins and its result.                                   *)
LEMMA Reported ==
  ASSUME IsLog(log), NEW pid, NEW p, NEW E, NEW es \in Seq(E), NEW f,
         \A i \in 1 .. Len(es) : IsEvent(es[i]),
         Reports(pid, p, es, f)
  PROVE  /\ IsLog(log')
         /\ Len(log.events) \in Nat /\ Len(es) \in Nat
         /\ Len(log'.events) = Len(log.events) + Len(es) + 2
         /\ \A i \in 1 .. Len(log.events) : log'.events[i] = log.events[i]
         /\ log'.events[Len(log.events) + 1].type = "Status"
         /\ \A i \in 1 .. Len(es) : TellsSame(log'.events[Len(log.events) + 1 + i], es[i])
         /\ log'.events[Len(log.events) + Len(es) + 2].type = "Access"
<1> DEFINE first == Activity!Status(pid, p)
           last  == Activity!Access(pid, p, f, result')
           all   == <<first>> \o es \o <<last>>
           n     == Len(es)
           m     == Len(log.events)
           F     == E \cup {first, last}
<1>1. IsEvent(first) /\ first.type = "Status" /\ IsEvent(last) /\ last.type = "Access"
  BY OtherEvents
<1>2. log' = Activity!RecordAll(log, all)
  BY DEF Reports
<1> HIDE DEF first, last
<1>3. es \in Seq(F) /\ n \in Nat /\ first \in F /\ last \in F
  OBVIOUS
<1> HIDE DEF F
<1>4. /\ all \in Seq(F) /\ Len(all) = n + 2
      /\ all[1] = first /\ all[n + 2] = last
      /\ \A i \in 1 .. n : all[i + 1] = es[i]
  BY <1>3, Framed
<1> HIDE DEF all
<1>5. \A i \in 1 .. Len(all) : IsEvent(all[i])
  <2> SUFFICES ASSUME NEW i \in 1 .. n + 2 PROVE IsEvent(all[i])
    BY <1>4
  <2>1. i = 1 \/ i = n + 2 \/ (i - 1 \in 1 .. n /\ i = (i - 1) + 1)
    BY <1>3
  <2> QED
    BY <1>1, <1>4, <2>1
<1>6. /\ IsLog(log')
      /\ m \in Nat /\ Len(log'.events) = m + Len(all)
      /\ \A i \in 1 .. m : log'.events[i] = log.events[i]
      /\ \A i \in 1 .. Len(all) : TellsSame(log'.events[m + i], all[i])
  BY <1>2, <1>4, <1>5, Recorded
<1> HIDE DEF n, m
<1>7. log'.events[m + 1].type = "Status"
  <2>1. 1 \in 1 .. Len(all)
    BY <1>3, <1>4
  <2> QED
    BY <1>1, <1>4, <1>6, <2>1 DEF TellsSame
<1>8. log'.events[m + n + 2].type = "Access"
  <2>1. n + 2 \in 1 .. Len(all) /\ m + (n + 2) = m + n + 2
    BY <1>3, <1>4, <1>6
  <2>2. TellsSame(log'.events[m + (n + 2)], all[n + 2])
    BY <1>6, <2>1
  <2> QED
    BY <1>1, <1>4, <2>1, <2>2 DEF TellsSame
<1>9. ASSUME NEW i \in 1 .. n PROVE TellsSame(log'.events[m + 1 + i], es[i])
  <2>1. i + 1 \in 1 .. Len(all) /\ m + (i + 1) = m + 1 + i
    BY <1>3, <1>4, <1>6
  <2>2. TellsSame(log'.events[m + (i + 1)], all[i + 1])
    BY <1>6, <2>1
  <2> QED
    BY <1>4, <2>1, <2>2
<1>10. Len(log'.events) = m + n + 2
  BY <1>3, <1>4, <1>6
<1> QED
  BY <1>3, <1>6, <1>7, <1>8, <1>9, <1>10 DEF n, m

-----------------------------------------------------------------------------
(* What the log tells of write-backs *)

WriteBacks(events) == {i \in 1 .. Len(events) : events[i].type = "DirtyEviction"}

(* The event before i is the replacement that evicted i's page. *)
FollowsReplacement(events, i) ==
  /\ i > 1 /\ events[i - 1].type = "PageReplacement"
  /\ events[i - 1].victim = events[i].page
  /\ events[i - 1].frame = events[i].frame

TellsWriteBacks(events) == \A i \in WriteBacks(events) : FollowsReplacement(events, i)

(* A longer list tells of what the shorter one did, and of what was added. *)
LEMMA MoreWriteBacks ==
  ASSUME NEW s, NEW t, NEW n \in Nat, Len(s) \in Nat, Len(t) = Len(s) + n,
         \A i \in 1 .. Len(s) : t[i] = s[i]
  PROVE  /\ WriteBacks(t) =
              WriteBacks(s) \cup {i \in Len(s) + 1 .. Len(s) + n : t[i].type = "DirtyEviction"}
         /\ \A i \in WriteBacks(s) : FollowsReplacement(s, i) => FollowsReplacement(t, i)
<1> DEFINE m == Len(s)
           added == {i \in m + 1 .. m + n : t[i].type = "DirtyEviction"}
<1>1. m \in Nat /\ Len(t) = m + n /\ \A i \in 1 .. m : t[i] = s[i]
  OBVIOUS
<1>2. WriteBacks(s) = {i \in 1 .. m : s[i].type = "DirtyEviction"}
      /\ WriteBacks(t) = {i \in 1 .. m + n : t[i].type = "DirtyEviction"}
  BY <1>1 DEF WriteBacks
<1> HIDE DEF m
<1>3. ASSUME NEW i PROVE i \in WriteBacks(t) <=> i \in WriteBacks(s) \cup added
  <2>1. i \in 1 .. m + n <=> i \in 1 .. m \/ i \in m + 1 .. m + n
    BY <1>1
  <2> QED
    BY <1>1, <1>2, <2>1
<1>4. ASSUME NEW i \in WriteBacks(s), FollowsReplacement(s, i) PROVE FollowsReplacement(t, i)
  <2>1. i \in 1 .. m /\ i > 1
    BY <1>2, <1>4 DEF FollowsReplacement
  <2>2. i - 1 \in 1 .. m
    BY <1>1, <2>1
  <2>3. t[i] = s[i] /\ t[i - 1] = s[i - 1]
    BY <1>1, <2>1, <2>2
  <2> QED
    BY <1>4, <2>3 DEF FollowsReplacement
<1> QED
  BY <1>3, <1>4 DEF m

(* What the log gains when es happens on the way. *)
Gains(s, t, es) ==
  /\ t[Len(s) + 1].type = "Status"
  /\ \A i \in 1 .. Len(es) : TellsSame(t[Len(s) + 1 + i], es[i])
  /\ t[Len(s) + Len(es) + 2].type = "Access"

(* If es has no write-back, no number is added, *)
LEMMA NoneAdded ==
  ASSUME NEW s, NEW t, NEW es, Len(s) \in Nat, Len(es) \in Nat, Gains(s, t, es),
         \A i \in 1 .. Len(es) : es[i].type # "DirtyEviction",
         NEW i \in Len(s) + 1 .. Len(s) + (Len(es) + 2)
  PROVE  t[i].type # "DirtyEviction"
<1> DEFINE m == Len(s)
           n == Len(es)
<1>1. m \in Nat /\ n \in Nat /\ i \in m + 1 .. m + (n + 2)
  OBVIOUS
<1>2. t[m + 1].type # "DirtyEviction" /\ t[m + n + 2].type # "DirtyEviction"
  BY DEF Gains
<1>3. \A j \in 1 .. n : t[m + 1 + j].type # "DirtyEviction"
  BY DEF Gains, TellsSame
<1> HIDE DEF m, n
<1>4. i = m + 1 \/ i = m + n + 2 \/ (i - m - 1 \in 1 .. n /\ i = m + 1 + (i - m - 1))
  BY <1>1
<1> QED
  BY <1>2, <1>3, <1>4

(* and if es is a replacement with its write-back, one is. *)
LEMMA OneAdded ==
  ASSUME NEW s, NEW t, NEW es, Len(s) \in Nat, Len(es) = 3, Gains(s, t, es),
         es[1].type = "PageFault",
         es[2].type = "PageReplacement", es[3].type = "DirtyEviction",
         es[2].victim = es[3].page, es[2].frame = es[3].frame
  PROVE  /\ {i \in Len(s) + 1 .. Len(s) + 5 : t[i].type = "DirtyEviction"} = {Len(s) + 4}
         /\ FollowsReplacement(t, Len(s) + 4)
<1> DEFINE m == Len(s)
<1>1. m \in Nat
  OBVIOUS
<1>2. /\ t[m + 1].type = "Status"
      /\ TellsSame(t[m + 1 + 1], es[1])
      /\ TellsSame(t[m + 1 + 2], es[2])
      /\ TellsSame(t[m + 1 + 3], es[3])
      /\ t[m + 3 + 2].type = "Access"
  BY DEF Gains
<1> HIDE DEF m
<1>3. m + 1 + 1 = m + 2 /\ m + 1 + 2 = m + 3 /\ m + 1 + 3 = m + 4 /\ m + 3 + 2 = m + 5
  BY <1>1
<1>4. /\ t[m + 1].type = "Status" /\ t[m + 2].type = "PageFault"
      /\ t[m + 3].type = "PageReplacement"
      /\ t[m + 4].type = "DirtyEviction"
      /\ t[m + 3].victim = t[m + 4].page /\ t[m + 3].frame = t[m + 4].frame
      /\ t[m + 5].type = "Access"
  BY <1>2, <1>3 DEF TellsSame
<1>5. \A i \in m + 1 .. m + 5 :
        i = m + 1 \/ i = m + 2 \/ i = m + 3 \/ i = m + 4 \/ i = m + 5
  BY <1>1
<1>6. m + 4 \in m + 1 .. m + 5 /\ m + 4 > 1 /\ (m + 4) - 1 = m + 3
  BY <1>1
<1>7. {i \in m + 1 .. m + 5 : t[i].type = "DirtyEviction"} = {m + 4}
  BY <1>4, <1>5, <1>6
<1>8. FollowsReplacement(t, m + 4)
  BY <1>4, <1>6 DEF FollowsReplacement
<1> QED
  BY <1>7, <1>8 DEF m

(* An access that reports no write-back adds none to the log. *)
LEMMA NoWriteBackReported ==
  ASSUME IsLog(log), TellsWriteBacks(log.events),
         NEW p, NEW E, NEW es \in Seq(E), NEW f,
         \A i \in 1 .. Len(es) : IsEvent(es[i]) /\ es[i].type # "DirtyEviction",
         Reports(1, p, es, f)
  PROVE  /\ IsLog(log')
         /\ WriteBacks(log'.events) = WriteBacks(log.events)
         /\ TellsWriteBacks(log'.events)
<1> DEFINE s == log.events
           t == log'.events
           k == Len(es) + 2
<1>1. /\ IsLog(log')
      /\ Len(log.events) \in Nat /\ Len(es) \in Nat
      /\ Len(log'.events) = Len(log.events) + Len(es) + 2
      /\ \A i \in 1 .. Len(log.events) : log'.events[i] = log.events[i]
      /\ Gains(log.events, log'.events, es)
  BY Reported DEF Gains
<1>2. Len(s) \in Nat /\ Len(es) \in Nat /\ k \in Nat
  BY <1>1
<1>3. Len(t) = Len(s) + Len(es) + 2 /\ \A i \in 1 .. Len(s) : t[i] = s[i]
  BY <1>1
<1>4. Gains(s, t, es) /\ \A i \in 1 .. Len(es) : es[i].type # "DirtyEviction"
  BY <1>1
<1>5. TellsWriteBacks(s) /\ IsLog(log')
  BY <1>1
<1> HIDE DEF s, t
<1>6. Len(t) = Len(s) + k
  BY <1>2, <1>3
<1>7. \A i \in Len(s) + 1 .. Len(s) + k : t[i].type # "DirtyEviction"
  BY <1>2, <1>4, NoneAdded
<1> HIDE DEF k
<1>8. /\ WriteBacks(t) =
            WriteBacks(s) \cup {i \in Len(s) + 1 .. Len(s) + k : t[i].type = "DirtyEviction"}
      /\ \A i \in WriteBacks(s) : FollowsReplacement(s, i) => FollowsReplacement(t, i)
  BY <1>2, <1>3, <1>6, MoreWriteBacks
<1>9. WriteBacks(t) = WriteBacks(s)
  BY <1>7, <1>8
<1>10. TellsWriteBacks(t)
  BY <1>5, <1>8, <1>9 DEF TellsWriteBacks
<1> QED
  BY <1>5, <1>9, <1>10 DEF s, t

(* A list of two, *)
LEMMA PairOf ==
  ASSUME NEW a, NEW b
  PROVE  /\ <<a, b>> \in Seq({a, b})
         /\ Len(<<a, b>>) = 2 /\ <<a, b>>[1] = a /\ <<a, b>>[2] = b
OBVIOUS

(* and of three. *)
LEMMA TripleOf ==
  ASSUME NEW a, NEW b, NEW c
  PROVE  LET es == <<a, b>> \o <<c>>
         IN  /\ es \in Seq({a, b, c})
             /\ Len(es) = 3 /\ es[1] = a /\ es[2] = b /\ es[3] = c
<1> DEFINE es == <<a, b>> \o <<c>>
<1> DEFINE S == {a, b, c}
<1> PICK d, e : d = <<a, b>> /\ e = <<c>>
  OBVIOUS
<1>1. d \in Seq(S) /\ e \in Seq(S)
  OBVIOUS
<1>2. Len(d) = 2 /\ Len(e) = 1
  OBVIOUS
<1>3. d[1] = a /\ d[2] = b /\ e[1] = c
  OBVIOUS
<1>4. es = d \o e
  OBVIOUS
<1> HIDE DEF S, es
<1>5. /\ d \o e \in Seq(S) /\ Len(d \o e) = Len(d) + Len(e)
      /\ \A i \in 1 .. Len(d) + Len(e) :
           (d \o e)[i] = IF i <= Len(d) THEN d[i] ELSE e[i - Len(d)]
  BY <1>1, ConcatProperties
<1>6. Len(es) = 3
  BY <1>2, <1>4, <1>5
<1>7. es[1] = d[1]
  BY <1>2, <1>4, <1>5
<1>8. es[2] = d[2]
  BY <1>2, <1>4, <1>5
<1>9. es[3] = e[1]
  BY <1>2, <1>4, <1>5
<1> QED
  BY <1>3, <1>4, <1>5, <1>6, <1>7, <1>8, <1>9 DEF S, es
(* The events of a replacement that writes the victim back. *)
LEMMA ReplacementTold ==
  ASSUME NEW p, NEW v, NEW f, NEW es, es = ReplacementEvents(1, p, v, f, TRUE)
  PROVE  /\ \E E : es \in Seq(E)
         /\ Len(es) = 3 /\ \A i \in 1 .. Len(es) : IsEvent(es[i])
         /\ es[1].type = "PageFault"
         /\ es[2].type = "PageReplacement" /\ es[3].type = "DirtyEviction"
         /\ es[2].victim = es[3].page /\ es[2].frame = es[3].frame
<1> DEFINE a == Activity!PageFault(1, p)
           b == Activity!PageReplacement(1, p, f, v)
           c == Activity!DirtyEviction(1, v, f)
<1>1. es = <<a, b>> \o <<c>>
  BY DEF ReplacementEvents
<1>2. /\ IsEvent(a) /\ a.type = "PageFault"
      /\ IsEvent(b) /\ b.type = "PageReplacement" /\ b.frame = f /\ b.victim = v
      /\ IsEvent(c) /\ c.type = "DirtyEviction" /\ c.frame = f /\ c.page = v
  BY OtherEvents, WriteBackEvents
<1> HIDE DEF a, b, c
<1>3. es \in Seq({a, b, c}) /\ Len(es) = 3 /\ es[1] = a /\ es[2] = b /\ es[3] = c
  <2> DEFINE u == <<a, b>> \o <<c>>
  <2>1. u \in Seq({a, b, c}) /\ Len(u) = 3 /\ u[1] = a /\ u[2] = b /\ u[3] = c
    BY TripleOf
  <2>2. es = u
    BY <1>1
  <2> HIDE DEF u
  <2> QED
    BY <2>1, <2>2
<1>6. \A i \in 1 .. 3 : i = 1 \/ i = 2 \/ i = 3
  OBVIOUS
<1>7. \A i \in 1 .. Len(es) : IsEvent(es[i])
  BY <1>2, <1>3, <1>6
<1>8. \E E : es \in Seq(E)
  BY <1>3
<1> QED
  BY <1>2, <1>3, <1>7, <1>8

(* An access that writes a page back adds it, after the replacement. *)
LEMMA WriteBackReported ==
  ASSUME IsLog(log), TellsWriteBacks(log.events), NEW p, NEW v, NEW f,
         Reports(1, p, ReplacementEvents(1, p, v, f, TRUE), f)
  PROVE  /\ IsLog(log')
         /\ WriteBacks(log'.events) = WriteBacks(log.events) \cup {Len(log.events) + 4}
         /\ Len(log.events) \in Nat
         /\ TellsWriteBacks(log'.events)
<1> PICK es : es = ReplacementEvents(1, p, v, f, TRUE)
  OBVIOUS
<1> DEFINE s == log.events
           t == log'.events
<1>1. /\ \E E : es \in Seq(E)
      /\ Len(es) = 3 /\ \A i \in 1 .. Len(es) : IsEvent(es[i])
      /\ es[1].type = "PageFault"
      /\ es[2].type = "PageReplacement" /\ es[3].type = "DirtyEviction"
      /\ es[2].victim = es[3].page /\ es[2].frame = es[3].frame
  BY ReplacementTold
<1>2. PICK E : es \in Seq(E)
  BY <1>1
<1>3. Reports(1, p, es, f) /\ \A i \in 1 .. Len(es) : IsEvent(es[i])
  BY <1>1
<1>4. /\ IsLog(log')
      /\ Len(log.events) \in Nat
      /\ Len(log'.events) = Len(log.events) + Len(es) + 2
      /\ \A i \in 1 .. Len(log.events) : log'.events[i] = log.events[i]
      /\ Gains(log.events, log'.events, es)
  BY <1>2, <1>3, Reported DEF Gains
<1>5. Len(s) \in Nat /\ 5 \in Nat /\ Len(t) = Len(s) + 5
      /\ \A i \in 1 .. Len(s) : t[i] = s[i]
  BY <1>1, <1>4
<1>6. Gains(s, t, es) /\ TellsWriteBacks(s) /\ IsLog(log')
  BY <1>4
<1> HIDE DEF s, t
<1>7. /\ WriteBacks(t) =
            WriteBacks(s) \cup {i \in Len(s) + 1 .. Len(s) + 5 : t[i].type = "DirtyEviction"}
      /\ \A i \in WriteBacks(s) : FollowsReplacement(s, i) => FollowsReplacement(t, i)
  BY <1>5, MoreWriteBacks
<1>8. /\ {i \in Len(s) + 1 .. Len(s) + 5 : t[i].type = "DirtyEviction"} = {Len(s) + 4}
      /\ FollowsReplacement(t, Len(s) + 4)
  BY <1>1, <1>5, <1>6, OneAdded
<1>9. WriteBacks(t) = WriteBacks(s) \cup {Len(s) + 4}
  BY <1>7, <1>8
<1>10. TellsWriteBacks(t)
  BY <1>6, <1>7, <1>8, <1>9 DEF TellsWriteBacks
<1> QED
  BY <1>5, <1>6, <1>9, <1>10 DEF s, t

(***************************************************************************)
(* The inductive invariant: what LogTellsWriteBacks says, and that the log *)
(* is attached and has its events.                                         *)
(***************************************************************************)
LogExact ==
  /\ IsLog(log)
  /\ counts.dirtyEvictions \in Nat
  /\ Cardinality(WriteBacks(log.events)) = counts.dirtyEvictions
  /\ TellsWriteBacks(log.events)

(* A use of a resident page reports nothing on the way. *)
LEMMA ResidentReports ==
  ASSUME UnitReady, LogExact, Reference, AccessResident(1, NextPage, AddressIn(NextPage), Writes)
  PROVE  LogExact'
<1>1. Reports(1, NextPage, <<>>, mem.table[NextPage]) /\ counts' = counts
  BY DEF AccessResident
<1>2. /\ <<>> \in Seq({})
      /\ \A i \in 1 .. Len(<<>>) : IsEvent(<<>>[i]) /\ <<>>[i].type # "DirtyEviction"
  OBVIOUS
<1>3. /\ IsLog(log')
      /\ WriteBacks(log'.events) = WriteBacks(log.events)
      /\ TellsWriteBacks(log'.events)
  BY <1>1, <1>2, NoWriteBackReported DEF LogExact
<1> QED
  BY <1>1, <1>3 DEF LogExact

(* The events of a load into a free frame. *)
LEMMA LoadTold ==
  ASSUME NEW p, NEW f, NEW es,
         es = <<Activity!PageFault(1, p), Activity!FrameAssignment(1, p, f)>>
  PROVE  /\ \E E : es \in Seq(E)
         /\ \A i \in 1 .. Len(es) : IsEvent(es[i]) /\ es[i].type # "DirtyEviction"
<1> DEFINE a == Activity!PageFault(1, p)
           b == Activity!FrameAssignment(1, p, f)
<1>1. /\ IsEvent(a) /\ a.type = "PageFault" /\ IsEvent(b) /\ b.type = "FrameAssignment"
      /\ es = <<a, b>>
  BY OtherEvents
<1> HIDE DEF a, b
<1>2. es \in Seq({a, b}) /\ Len(es) = 2 /\ es[1] = a /\ es[2] = b
  BY <1>1
<1>3. \A i \in 1 .. 2 : i = 1 \/ i = 2
  OBVIOUS
<1>4. \A i \in 1 .. Len(es) : es[i] = a \/ es[i] = b
  BY <1>2, <1>3
<1> QED
  BY <1>1, <1>2, <1>4

(* The events of a replacement that writes nothing back. *)
LEMMA ReplacementOnlyTold ==
  ASSUME NEW p, NEW v, NEW f, NEW es, es = ReplacementEvents(1, p, v, f, FALSE)
  PROVE  /\ \E E : es \in Seq(E)
         /\ \A i \in 1 .. Len(es) : IsEvent(es[i]) /\ es[i].type # "DirtyEviction"
<1> DEFINE a == Activity!PageFault(1, p)
           b == Activity!PageReplacement(1, p, f, v)
<1>1. /\ IsEvent(a) /\ a.type = "PageFault" /\ IsEvent(b) /\ b.type = "PageReplacement"
      /\ es = <<a, b>> \o <<>>
  BY OtherEvents, WriteBackEvents DEF ReplacementEvents
<1> HIDE DEF a, b
<1> PICK d : d = <<a, b>>
  OBVIOUS
<1>2. d \in Seq({a, b}) /\ Len(d) = 2 /\ d[1] = a /\ d[2] = b
  BY PairOf
<1>3. es = d
  <2>1. d \o <<>> = d
    BY <1>2, ConcatEmptySeq
  <2> QED
    BY <1>1, <2>1
<1>4. \A i \in 1 .. 2 : i = 1 \/ i = 2
  OBVIOUS
<1>5. \A i \in 1 .. Len(es) : es[i] = a \/ es[i] = b
  BY <1>2, <1>3, <1>4
<1> QED
  BY <1>1, <1>2, <1>3, <1>5

(* A load into a free frame. *)
LEMMA FreeFrameReports ==
  ASSUME UnitReady, LogExact, Reference,
         FaultWithFreeFrame(1, NextPage, AddressIn(NextPage), Writes)
  PROVE  LogExact'
<1>1. \E f, es :
        /\ es = <<Activity!PageFault(1, NextPage), Activity!FrameAssignment(1, NextPage, f)>>
        /\ Reports(1, NextPage, es, f)
  BY DEF FaultWithFreeFrame
<1>2. PICK f, es :
        /\ es = <<Activity!PageFault(1, NextPage), Activity!FrameAssignment(1, NextPage, f)>>
        /\ Reports(1, NextPage, es, f)
  BY <1>1
<1>3. /\ \E E : es \in Seq(E)
      /\ \A i \in 1 .. Len(es) : IsEvent(es[i]) /\ es[i].type # "DirtyEviction"
  BY <1>2, LoadTold
<1>4. PICK E : es \in Seq(E)
  BY <1>3
<1>5. /\ IsLog(log')
      /\ WriteBacks(log'.events) = WriteBacks(log.events)
      /\ TellsWriteBacks(log'.events)
  BY <1>2, <1>3, <1>4, NoWriteBackReported DEF LogExact
<1>6. counts'.dirtyEvictions = counts.dirtyEvictions
  BY FreeFrameDirt DEF NothingWrittenBack
<1> QED
  BY <1>5, <1>6 DEF LogExact

(* A replacement. *)
LEMMA ReplacementReports ==
  ASSUME UnitReady, LogExact, Reference,
         FaultWithReplacement(1, NextPage, AddressIn(NextPage), Writes)
  PROVE  LogExact'
<1> DEFINE f == Victim(pol)
           v == mem.frames[f]
           d == pages[v].dirty
           s == log.events
<1>1. Reports(1, NextPage, ReplacementEvents(1, NextPage, v, f, d), f)
  BY DEF FaultWithReplacement
<1>2. v \in Pages /\ counts'.dirtyEvictions = counts.dirtyEvictions + IF d THEN 1 ELSE 0
  BY ReplacementDirt DEF VictimWrittenBack
<1>3. d \in BOOLEAN
  BY <1>2 DEF UnitReady, PInv, IInv, TypeOK
<1> HIDE DEF f, v, d
<1>4. CASE d = TRUE
  <2>1. Reports(1, NextPage, ReplacementEvents(1, NextPage, v, f, TRUE), f)
    BY <1>1, <1>4
  <2>2. /\ IsLog(log')
        /\ WriteBacks(log'.events) = WriteBacks(log.events) \cup {Len(log.events) + 4}
        /\ Len(log.events) \in Nat
        /\ TellsWriteBacks(log'.events)
    BY <2>1, WriteBackReported DEF LogExact
  <2>3. WriteBacks(s) \subseteq 1 .. Len(s) /\ Len(s) \in Nat
    BY <2>2 DEF WriteBacks
  <2>4. IsFiniteSet(WriteBacks(s))
    <3>1. IsFiniteSet(1 .. Len(s))
      BY <2>3, FS_Interval
    <3> QED
      BY <2>3, <3>1, FS_Subset
  <2>5. Len(s) + 4 \notin WriteBacks(s)
    BY <2>3
  <2>6. Cardinality(WriteBacks(log'.events)) = Cardinality(WriteBacks(s)) + 1
    BY <2>2, <2>4, <2>5, FS_AddElement
  <2>7. counts'.dirtyEvictions = counts.dirtyEvictions + 1
    BY <1>2, <1>4
  <2> QED
    BY <2>2, <2>6, <2>7 DEF LogExact
<1>5. CASE d = FALSE
  <2> PICK es : es = ReplacementEvents(1, NextPage, v, f, FALSE)
    OBVIOUS
  <2>1. Reports(1, NextPage, es, f)
    BY <1>1, <1>5
  <2>2. /\ \E E : es \in Seq(E)
        /\ \A i \in 1 .. Len(es) : IsEvent(es[i]) /\ es[i].type # "DirtyEviction"
    BY ReplacementOnlyTold
  <2>3. PICK E : es \in Seq(E)
    BY <2>2
  <2>4. /\ IsLog(log')
        /\ WriteBacks(log'.events) = WriteBacks(log.events)
        /\ TellsWriteBacks(log'.events)
    BY <2>1, <2>2, <2>3, NoWriteBackReported DEF LogExact
  <2>5. counts'.dirtyEvictions = counts.dirtyEvictions
    BY <1>2, <1>5 DEF LogExact
  <2> QED
    BY <2>4, <2>5 DEF LogExact
<1> QED
  BY <1>3, <1>4, <1>5

(* Nothing is in the log before the first reference. *)
LEMMA LogExactInitially ==
  ASSUME TraceInit
  PROVE  LogExact
<1>1. log.events = <<>> /\ counts.dirtyEvictions = 0
      /\ log = [attached |-> TRUE, events |-> <<>>, next |-> 0]
  BY DEF TraceInit, NoCounts, Activity!NewLog
<1>2. IsLog(log)
  <2>1. \E S : log.events \in Seq(S)
    BY <1>1
  <2>2. log = [attached |-> TRUE, events |-> log.events, next |-> log.next]
    BY <1>1
  <2> QED
    BY <2>1, <2>2 DEF IsLog
<1>3. WriteBacks(log.events) = {}
  BY <1>1 DEF WriteBacks
<1>4. Cardinality(WriteBacks(log.events)) = 0 /\ TellsWriteBacks(log.events)
  BY <1>3, FS_EmptySet DEF TellsWriteBacks
<1> QED
  BY <1>1, <1>2, <1>4 DEF LogExact

(***************************************************************************)
(* The activity log tells of each write-back once, directly after the      *)
(* replacement that evicted the page and from the same frame:              *)
(* LogTellsWriteBacks, for every trace, number of frames and policy.       *)
(***************************************************************************)
THEOREM LogTheorem == TraceSpec => []LogTellsWriteBacks
<1>1. TraceInit => LogExact
  BY LogExactInitially
<1>2. UnitReady /\ LogExact /\ [Reference]_traceVars => LogExact'
  <2> SUFFICES ASSUME UnitReady, LogExact, [Reference]_traceVars PROVE LogExact'
    OBVIOUS
  <2>1. CASE Reference
    BY <2>1, ReferenceServed, ResidentReports, FreeFrameReports, ReplacementReports
  <2>2. CASE UNCHANGED traceVars
    BY <2>2 DEF traceVars, vars, LogExact
  <2> QED
    BY <2>1, <2>2
<1>3. LogExact => LogTellsWriteBacks
  BY DEF LogExact, LogTellsWriteBacks, WriteBacks, TellsWriteBacks, FollowsReplacement
<1> QED
  BY <1>1, <1>2, <1>3, UnitInvariant, PTL DEF TraceSpec

-----------------------------------------------------------------------------
(* The recursion over the rest of the trace *)

(***************************************************************************)
(* FewestFaults is the value of a recursive function from the positions in *)
(* the trace.  First that there is such a function: one that is right from *)
(* some position on can be made right from the position before it on.      *)
(***************************************************************************)

(* The positions, and one past the end. *)
Places == 1 .. Len(trace) + 1

(* The fewest faults from position i on with the pages in held resident,   *)
(* where next has those from the next position on.                         *)
FaultsBy(next, i, held) ==
  CASE i > Len(trace)                       -> 0
    [] i <= Len(trace) /\ trace[i] \in held -> next[held]
    [] OTHER ->
         1 + IF Cardinality(held) < NumFrames
             THEN next[held \cup {trace[i]}]
             ELSE Min({next[(held \ {victim}) \cup {trace[i]}] : victim \in held})

(* The same for all sets of resident pages. *)
RowBy(next, i) == [held \in SUBSET Pages |-> FaultsBy(next, i, held)]

(* The recursive function, and its values. *)
IsCounting(g) == g = [i \in Places |-> RowBy(g[i + 1], i)]

Counting == CHOOSE g : IsCounting(g)

FaultsFrom(i, held) == Counting[i][held]

(* What the lower bound is compared with. *)
LEMMA FewestFrom == FewestFaults = FaultsFrom(1, {})
BY DEF FewestFaults, FaultsFrom, Counting, IsCounting, FaultsBy, Places, RowBy

(* g is right where at most k references are left. *)
Settled(g, k) ==
  /\ g = [i \in Places |-> g[i]]
  /\ \A i \in Places : i + k > Len(trace) => g[i] = RowBy(g[i + 1], i)

(* Past the end nothing matters. *)
LEMMA RowPastEnd ==
  ASSUME Len(trace) \in Nat, NEW i \in Places, i > Len(trace), NEW next
  PROVE  RowBy(next, i) = [held \in SUBSET Pages |-> 0]
BY DEF RowBy, FaultsBy, Places

(* However many references are left, some function is right about them. *)
LEMMA SettledExists ==
  ASSUME trace \in Seq(Pages), NEW k \in Nat
  PROVE  \E g : Settled(g, k)
<1> DEFINE K == {j \in Nat : ~\E g : Settled(g, j)}
<1>1. SUFFICES ASSUME K # {} PROVE FALSE
  OBVIOUS
<1> DEFINE m == Min(K)
<1>2. m \in K /\ \A j \in K : m <= j
  BY <1>1, LeastNatural
<1> HIDE DEF m
<1>3. m \in Nat /\ ~\E g : Settled(g, m)
  BY <1>2
<1>4. Len(trace) \in Nat
  BY LenProperties
<1>5. CASE m = 0
  <2> DEFINE g == [i \in Places |-> [held \in SUBSET Pages |-> 0]]
  <2>1. \A i \in Places : g[i] = [held \in SUBSET Pages |-> 0]
    OBVIOUS
  <2>2. g = [i \in Places |-> g[i]]
    OBVIOUS
  <2> HIDE DEF g
  <2>3. ASSUME NEW i \in Places, i + 0 > Len(trace) PROVE g[i] = RowBy(g[i + 1], i)
    <3>1. i > Len(trace)
      BY <1>4, <2>3 DEF Places
    <3> QED
      BY <1>4, <2>1, <3>1, RowPastEnd
  <2>4. Settled(g, 0)
    BY <2>2, <2>3 DEF Settled
  <2> QED
    BY <1>3, <1>5, <2>4
<1>6. CASE m # 0
  <2>1. m - 1 \in Nat /\ m - 1 \notin K
    BY <1>2, <1>3, <1>6
  <2>2. PICK g : Settled(g, m - 1)
    BY <2>1
  <2>3. \A i \in Places : i + (m - 1) > Len(trace) => g[i] = RowBy(g[i + 1], i)
    BY <2>2 DEF Settled
  <2> DEFINE h == [i \in Places |-> RowBy(g[i + 1], i)]
  <2>4. h = [i \in Places |-> h[i]] /\ \A i \in Places : h[i] = RowBy(g[i + 1], i)
    OBVIOUS
  <2> HIDE DEF h
  <2>5. ASSUME NEW i \in Places, i + m > Len(trace)
        PROVE  h[i] = RowBy(h[i + 1], i)
    <3>1. CASE i > Len(trace)
      BY <1>4, <2>4, <3>1, RowPastEnd
    <3>2. CASE i <= Len(trace)
      <4>1. i + 1 \in Places /\ (i + 1) + (m - 1) > Len(trace)
        BY <1>3, <1>4, <2>5, <3>2 DEF Places
      <4>2. g[i + 1] = h[i + 1]
        BY <2>3, <2>4, <4>1
      <4> QED
        BY <2>4, <4>2
    <3> QED
      BY <1>4, <3>1, <3>2 DEF Places
  <2>6. Settled(h, m)
    BY <2>4, <2>5 DEF Settled
  <2> QED
    BY <1>3, <2>6
<1> QED
  BY <1>5, <1>6

(* So the recursive function is what its definition says. *)
LEMMA CountingEquation ==
  ASSUME trace \in Seq(Pages)
  PROVE  \A i \in Places, held \in SUBSET Pages :
           FaultsFrom(i, held) = FaultsBy(Counting[i + 1], i, held)
<1>1. Len(trace) \in Nat
  BY LenProperties
<1>2. PICK g : Settled(g, Len(trace))
  BY <1>1, SettledExists
<1>3. \A i \in Places : g[i] = RowBy(g[i + 1], i)
  <2>1. \A i \in Places : i + Len(trace) > Len(trace)
    BY <1>1 DEF Places
  <2> QED
    BY <1>2, <2>1 DEF Settled
<1>4. g = [i \in Places |-> RowBy(g[i + 1], i)]
  BY <1>2, <1>3 DEF Settled
<1>5. IsCounting(Counting)
  BY <1>4 DEF Counting, IsCounting
<1> DEFINE c == Counting
<1> HIDE DEF c
<1>6. c = [i \in Places |-> RowBy(c[i + 1], i)]
  BY <1>5 DEF IsCounting, c
<1>7. \A i \in Places, held \in SUBSET Pages : c[i][held] = FaultsBy(c[i + 1], i, held)
  BY <1>6 DEF RowBy
<1> QED
  BY <1>7 DEF FaultsFrom, c

(* A property of positions that passes from each to the one before holds   *)
(* of all if it holds past the end.                                        *)
LEMMA Backwards ==
  ASSUME NEW n \in Nat, NEW S, n + 1 \in S, \A i \in 1 .. n : i + 1 \in S => i \in S
  PROVE  \A i \in 1 .. n + 1 : i \in S
<1> DEFINE K == {k \in 0 .. n : n + 1 - k \notin S}
<1>1. ASSUME K # {} PROVE FALSE
  <2>1. K \in SUBSET Nat
    OBVIOUS
  <2> DEFINE m == Min(K)
  <2>2. m \in K /\ \A k \in K : m <= k
    BY <1>1, <2>1, LeastNatural
  <2> HIDE DEF m
  <2>3. m \in 0 .. n /\ n + 1 - m \notin S
    BY <2>2
  <2>4. m # 0
    BY <2>3
  <2>5. m - 1 \in 0 .. n /\ ~(m <= m - 1)
    BY <2>3, <2>4
  <2>6. n + 1 - (m - 1) \in S
    BY <2>2, <2>5
  <2>7. n + 1 - m \in 1 .. n /\ (n + 1 - m) + 1 = n + 1 - (m - 1)
    BY <2>3, <2>4
  <2> QED
    BY <2>3, <2>6, <2>7
<1>2. ASSUME NEW i \in 1 .. n + 1 PROVE i \in S
  <2>1. n + 1 - i \in 0 .. n /\ n + 1 - (n + 1 - i) = i
    OBVIOUS
  <2> QED
    BY <1>1, <2>1
<1> QED
  BY <1>2

-----------------------------------------------------------------------------
(* What a reference makes of the resident pages *)

(* Pages that can be resident together. *)
Fits(held) == held \in SUBSET Pages /\ Cardinality(held) <= NumFrames

(* The resident pages after a reference to p, for each choice of a victim. *)
Successors(held, p) ==
  IF p \in held
  THEN {held}
  ELSE IF Cardinality(held) < NumFrames
       THEN {held \cup {p}}
       ELSE {(held \ {victim}) \cup {p} : victim \in held}

(* The faults of that reference. *)
Cost(held, p) == IF p \in held THEN 0 ELSE 1

(* Pages that fit are finitely many. *)
LEMMA FitsFinite ==
  ASSUME NEW held, Fits(held)
  PROVE  /\ IsFiniteSet(held) /\ held \in SUBSET Pages
         /\ Cardinality(held) \in Nat /\ Cardinality(held) <= NumFrames
BY PagesAssumption, FS_Subset, FS_CardinalityType DEF Fits

(* Two that fit, one of them full. *)
LEMMA FullHasOther ==
  ASSUME NEW A, NEW C, Fits(A), Fits(C), ~(Cardinality(A) < NumFrames)
  PROVE  /\ Cardinality(A) = NumFrames
         /\ A \subseteq C => A = C
         /\ C # A => \E v \in A : v \notin C
<1>1. /\ IsFiniteSet(A) /\ Cardinality(A) \in Nat /\ Cardinality(A) <= NumFrames
      /\ IsFiniteSet(C) /\ Cardinality(C) \in Nat /\ Cardinality(C) <= NumFrames
  BY FitsFinite
<1>2. Cardinality(A) = NumFrames
  BY <1>1, NumFramesAssumption
<1>3. ASSUME A \subseteq C PROVE A = C
  <2>1. Cardinality(A) <= Cardinality(C) /\ (Cardinality(A) = Cardinality(C) => A = C)
    BY <1>1, <1>3, FS_Subset
  <2> QED
    BY <1>1, <1>2, <2>1, NumFramesAssumption
<1> QED
  BY <1>2, <1>3

(* What fits goes on to fit. *)
LEMMA SuccessorsFit ==
  ASSUME NEW held, Fits(held), NEW p \in Pages
  PROVE  /\ \A K \in Successors(held, p) : Fits(K)
         /\ Successors(held, p) # {}
<1>1. /\ IsFiniteSet(held) /\ held \in SUBSET Pages
      /\ Cardinality(held) \in Nat /\ Cardinality(held) <= NumFrames
  BY FitsFinite
<1>2. CASE p \in held
  BY <1>2 DEF Successors
<1>3. CASE p \notin held /\ Cardinality(held) < NumFrames
  <2>1. Successors(held, p) = {held \cup {p}}
    BY <1>3 DEF Successors
  <2>2. Cardinality(held \cup {p}) = Cardinality(held) + 1
    BY <1>1, <1>3, FS_AddElement
  <2>3. Fits(held \cup {p})
    BY <1>1, <1>3, <2>2, NumFramesAssumption DEF Fits
  <2> QED
    BY <2>1, <2>3
<1>4. CASE p \notin held /\ ~(Cardinality(held) < NumFrames)
  <2>1. Successors(held, p) = {(held \ {victim}) \cup {p} : victim \in held}
    BY <1>4 DEF Successors
  <2>2. ASSUME NEW v \in held PROVE Fits((held \ {v}) \cup {p})
    <3>1. IsFiniteSet(held \ {v}) /\ Cardinality(held \ {v}) = Cardinality(held) - 1
      BY <1>1, FS_RemoveElement
    <3>2. Cardinality((held \ {v}) \cup {p}) = Cardinality(held) - 1 + 1
      BY <1>4, <3>1, FS_AddElement
    <3>3. (held \ {v}) \cup {p} \in SUBSET Pages
      BY <1>1
    <3> QED
      BY <1>1, <3>2, <3>3, NumFramesAssumption DEF Fits
  <2>3. held # {}
    BY <1>1, <1>4, TraceAssumption, FS_EmptySet
  <2> QED
    BY <2>1, <2>2, <2>3
<1> QED
  BY <1>2, <1>3, <1>4

(* Whoever holds more faults no more, and can go on to hold more. *)
LEMMA MoreSucceeds ==
  ASSUME NEW A, NEW C, Fits(A), Fits(C), C \subseteq A,
         NEW p \in Pages, NEW K \in Successors(C, p)
  PROVE  \E J \in Successors(A, p) : K \subseteq J /\ Cost(A, p) <= Cost(C, p)
<1>1. CASE p \in A
  <2>1. Successors(A, p) = {A} /\ Cost(A, p) = 0 /\ Cost(C, p) \in {0, 1}
    BY <1>1 DEF Successors, Cost
  <2>2. K \subseteq C \cup {p}
    BY DEF Successors
  <2> QED
    BY <1>1, <2>1, <2>2
<1>2. CASE p \notin A /\ Cardinality(A) < NumFrames
  <2>1. Successors(A, p) = {A \cup {p}} /\ Cost(A, p) = 1 /\ Cost(C, p) = 1
    BY <1>2 DEF Successors, Cost
  <2>2. K \subseteq C \cup {p}
    BY DEF Successors
  <2> QED
    BY <2>1, <2>2
<1>3. CASE p \notin A /\ ~(Cardinality(A) < NumFrames)
  <2>1. Successors(A, p) = {(A \ {v}) \cup {p} : v \in A} /\ Cost(A, p) = 1 /\ Cost(C, p) = 1
    BY <1>3 DEF Successors, Cost
  <2>2. CASE C = A
    BY <2>1, <2>2
  <2>3. CASE C # A
    <3>1. PICK v \in A : v \notin C
      BY <1>3, <2>3, FullHasOther
    <3>2. (A \ {v}) \cup {p} \in Successors(A, p) /\ K \subseteq C \cup {p}
      BY <2>1 DEF Successors
    <3>3. K \subseteq (A \ {v}) \cup {p} /\ Cost(A, p) <= Cost(C, p)
      BY <2>1, <3>1, <3>2
    <3> QED
      BY <3>2, <3>3
  <2> QED
    BY <2>2, <2>3
<1> QED
  BY <1>1, <1>2, <1>3

(* Where only c is missing it is missing still, or nothing is any more for *)
(* one fault.                                                              *)
LEMMA MissingSucceeds ==
  ASSUME NEW A, NEW C, Fits(A), Fits(C), NEW c, C \ A \subseteq {c},
         NEW p \in Pages, NEW K \in Successors(C, p)
  PROVE  \E J \in Successors(A, p) :
           \/ K \subseteq J /\ Cost(A, p) <= Cost(C, p) + 1
           \/ K \ J \subseteq {c} /\ Cost(A, p) <= Cost(C, p)
<1>1. K \subseteq C \cup {p}
  BY DEF Successors
<1>2. CASE p \in A
  <2>1. Successors(A, p) = {A} /\ Cost(A, p) <= Cost(C, p)
    BY <1>2 DEF Successors, Cost
  <2>2. K \ A \subseteq {c}
    BY <1>1, <1>2
  <2> QED
    BY <2>1, <2>2
<1>3. CASE p \notin A /\ p \in C
  <2>1. K = C /\ p = c /\ Cost(A, p) <= Cost(C, p) + 1 /\ C # A
    BY <1>3 DEF Successors, Cost
  <2>2. CASE Cardinality(A) < NumFrames
    <3>1. A \cup {p} \in Successors(A, p) /\ K \subseteq A \cup {p}
      BY <1>3, <2>1, <2>2 DEF Successors
    <3> QED
      BY <2>1, <3>1
  <2>3. CASE ~(Cardinality(A) < NumFrames)
    <3>1. PICK v \in A : v \notin C
      BY <2>1, <2>3, FullHasOther
    <3>2. (A \ {v}) \cup {p} \in Successors(A, p)
      BY <1>3, <2>3 DEF Successors
    <3>3. K \subseteq (A \ {v}) \cup {p}
      BY <2>1, <3>1
    <3> QED
      BY <2>1, <3>2, <3>3
  <2> QED
    BY <2>2, <2>3
<1>4. CASE p \notin A /\ p \notin C
  <2>1. Cost(A, p) = 1 /\ Cost(C, p) = 1
    BY <1>4 DEF Cost
  <2>2. CASE Cardinality(A) < NumFrames
    <3>1. A \cup {p} \in Successors(A, p)
      BY <1>4, <2>2 DEF Successors
    <3>2. K \ (A \cup {p}) \subseteq {c}
      BY <1>1
    <3> QED
      BY <2>1, <3>1, <3>2
  <2>3. CASE ~(Cardinality(A) < NumFrames)
    <3>1. \A v \in A : (A \ {v}) \cup {p} \in Successors(A, p)
      BY <1>4, <2>3 DEF Successors
    <3>2. CASE C = A
      BY <2>1, <3>2
    <3>3. CASE C # A
      <4>1. PICK v \in A : v \notin C
        BY <2>3, <3>3, FullHasOther
      <4> DEFINE J == (A \ {v}) \cup {p}
      <4>2. K \ J \subseteq {c} /\ J \in Successors(A, p)
        BY <1>1, <3>1, <4>1
      <4> HIDE DEF J
      <4> QED
        BY <2>1, <4>2
    <3> QED
      BY <3>2, <3>3
  <2> QED
    BY <2>2, <2>3
<1> QED
  BY <1>2, <1>3, <1>4

(* Held in common, with one page more. *)
With(common, one) == common \cup {one}

(***************************************************************************)
(* Who holds x where the other holds y can do as the other does: until the *)
(* other keeps nothing more than he does, or until x is referenced, which  *)
(* costs the other a fault.                                                *)
(***************************************************************************)
LEMMA ExchangeSucceeds ==
  ASSUME NEW common, NEW x, NEW y, x # y, x \notin common, y \notin common,
         Fits(With(common, x)), Fits(With(common, y)),
         NEW p \in Pages, p # y, NEW K \in Successors(With(common, y), p)
  PROVE  LET A == With(common, x)
             B == With(common, y)
         IN  \E J \in Successors(A, p) :
               \/ J = K /\ Cost(A, p) <= Cost(B, p)
               \/ /\ p \notin {x, y} /\ Cost(A, p) <= Cost(B, p)
                  /\ \E rest : /\ x \notin rest /\ y \notin rest
                               /\ J = With(rest, x) /\ K = With(rest, y)
               \/ K \ J \subseteq {y} /\ Cost(A, p) + 1 <= Cost(B, p)
<1> DEFINE A == With(common, x)
           B == With(common, y)
<1>1. IsFiniteSet(A) /\ IsFiniteSet(B) /\ Cardinality(A) = Cardinality(B)
  <2>1. IsFiniteSet(A) /\ IsFiniteSet(B)
    BY FitsFinite
  <2>2. A \ {x} = common /\ B \ {y} = common /\ x \in A /\ y \in B
    BY DEF With
  <2> HIDE DEF A, B
  <2>3. Cardinality(common) = Cardinality(A) - 1
    BY <2>1, <2>2, FS_RemoveElement
  <2>4. Cardinality(common) = Cardinality(B) - 1
    BY <2>1, <2>2, FS_RemoveElement
  <2>5. Cardinality(A) \in Nat /\ Cardinality(B) \in Nat
    BY <2>1, FS_CardinalityType
  <2>6. \A k, a, b : a \in Nat /\ b \in Nat /\ k = a - 1 /\ k = b - 1 => a = b
    OBVIOUS
  <2> QED
    BY <2>1, <2>3, <2>4, <2>5, <2>6
<1>2. CASE p = x
  <2>1. A \in Successors(A, p) /\ Cost(A, p) = 0 /\ Cost(B, p) = 1
    BY <1>2 DEF Successors, Cost, With
  <2>2. K \ A \subseteq {y}
    <3>1. K \subseteq B \cup {p}
      BY DEF Successors
    <3> QED
      BY <1>2, <3>1 DEF With
  <2> HIDE DEF A, B
  <2> QED
    BY <2>1, <2>2 DEF A, B
<1>3. CASE p \in common
  <2>1. A \in Successors(A, p) /\ K = B /\ Cost(A, p) = 0 /\ Cost(B, p) = 0
    BY <1>3 DEF Successors, Cost, With
  <2>2. p \notin {x, y}
    BY <1>3
  <2> QED
    BY <2>1, <2>2
<1>4. CASE p # x /\ p \notin common
  <2>1. p \notin A /\ p \notin B /\ Cost(A, p) = 1 /\ Cost(B, p) = 1
    BY <1>4 DEF Cost, With
  <2>2. CASE Cardinality(A) < NumFrames
    <3> DEFINE rest == common \cup {p}
    <3>1. A \cup {p} \in Successors(A, p) /\ K = B \cup {p}
      BY <1>1, <2>1, <2>2 DEF Successors
    <3>2. A \cup {p} = With(rest, x) /\ B \cup {p} = With(rest, y)
      BY DEF With
    <3>3. x \notin rest /\ y \notin rest /\ p \notin {x, y}
      BY <1>4
    <3>4. With(rest, x) \in Successors(A, p) /\ K = With(rest, y)
      BY <3>1, <3>2
    <3> HIDE DEF rest, A, B
    <3> QED
      BY <2>1, <3>3, <3>4 DEF A, B
  <2>3. CASE ~(Cardinality(A) < NumFrames)
    <3>1. \A v \in A : (A \ {v}) \cup {p} \in Successors(A, p)
      BY <2>1, <2>3 DEF Successors
    <3>2. PICK v \in B : K = (B \ {v}) \cup {p}
      BY <1>1, <2>1, <2>3 DEF Successors
    <3>3. CASE v = y
      <4>1. x \in A /\ (A \ {x}) \cup {p} = K
        BY <3>2, <3>3 DEF With
      <4> QED
        BY <2>1, <3>1, <4>1
    <3>4. CASE v # y
      <4> DEFINE rest == (common \ {v}) \cup {p}
      <4>1. v \in common
        BY <3>2, <3>4 DEF With
      <4>2. v \in A /\ (A \ {v}) \cup {p} = With(rest, x) /\ K = With(rest, y)
        BY <3>2, <4>1 DEF With
      <4>3. x \notin rest /\ y \notin rest /\ p \notin {x, y}
        BY <1>4
      <4>4. With(rest, x) \in Successors(A, p)
        BY <3>1, <4>2
      <4> HIDE DEF rest, A, B
      <4> QED
        BY <2>1, <4>2, <4>3, <4>4 DEF A, B
    <3> QED
      BY <3>3, <3>4
  <2> QED
    BY <2>2, <2>3
<1> QED
  BY <1>2, <1>3, <1>4

-----------------------------------------------------------------------------
(* The fewest faults *)

(* Past the end of the trace nothing faults. *)
LEMMA FaultsPastEnd ==
  ASSUME trace \in Seq(Pages), NEW held \in SUBSET Pages
  PROVE  FaultsFrom(Len(trace) + 1, held) = 0
<1>1. Len(trace) \in Nat
  BY LenProperties
<1>2. Len(trace) + 1 \in Places
  BY <1>1 DEF Places
<1> DEFINE n == Len(trace) + 1
<1>3. n \in Places /\ n > Len(trace) /\ ~(n <= Len(trace))
  BY <1>1, <1>2
<1> HIDE DEF n
<1>4. FaultsFrom(n, held) = FaultsBy(Counting[n + 1], n, held)
  BY <1>3, CountingEquation
<1>5. FaultsFrom(n, held) = 0
  BY <1>3, <1>4 DEF FaultsBy
<1> QED
  BY <1>5 DEF n

(* The best of the choices: as few faults as one of them, and as none has. *)
IsBest(i, held) ==
  /\ FaultsFrom(i, held) \in Nat
  /\ \E K \in Successors(held, trace[i]) :
       FaultsFrom(i, held) = Cost(held, trace[i]) + FaultsFrom(i + 1, K)
  /\ \A K \in Successors(held, trace[i]) :
       FaultsFrom(i, held) <= Cost(held, trace[i]) + FaultsFrom(i + 1, K)

(* If the choices are numbers of faults, the best of them is counted. *)
LEMMA BestOfChoices ==
  ASSUME trace \in Seq(Pages), NEW i \in 1 .. Len(trace), NEW held, Fits(held),
         \A K \in Successors(held, trace[i]) : FaultsFrom(i + 1, K) \in Nat
  PROVE  IsBest(i, held)
<1> DEFINE p == trace[i]
           next == Counting[i + 1]
<1>1. Len(trace) \in Nat /\ p \in Pages
  BY LenProperties
<1>2. i \in Places /\ i <= Len(trace) /\ ~(i > Len(trace))
  BY <1>1 DEF Places
<1>3. held \in SUBSET Pages
  BY DEF Fits
<1>4. FaultsFrom(i, held) = FaultsBy(next, i, held)
  BY <1>2, <1>3, CountingEquation
<1>5. \A K : FaultsFrom(i + 1, K) = next[K]
  BY DEF FaultsFrom
<1>6. CASE p \in held
  <2>1. Successors(held, p) = {held} /\ Cost(held, p) = 0
    BY <1>6 DEF Successors, Cost
  <2>2. FaultsFrom(i, held) = next[held]
    BY <1>2, <1>4, <1>6 DEF FaultsBy
  <2> HIDE DEF p, next
  <2>3. next[held] \in Nat
    BY <1>5, <2>1 DEF p
  <2> QED
    BY <1>5, <2>1, <2>2, <2>3 DEF IsBest, p
<1>7. CASE p \notin held /\ Cardinality(held) < NumFrames
  <2>1. Successors(held, p) = {held \cup {p}} /\ Cost(held, p) = 1
    BY <1>7 DEF Successors, Cost
  <2>2. FaultsFrom(i, held) = 1 + next[held \cup {p}]
    BY <1>2, <1>4, <1>7 DEF FaultsBy
  <2> HIDE DEF p, next
  <2>3. next[held \cup {p}] \in Nat
    BY <1>5, <2>1 DEF p
  <2> QED
    BY <1>5, <2>1, <2>2, <2>3 DEF IsBest, p
<1>8. CASE p \notin held /\ ~(Cardinality(held) < NumFrames)
  <2> DEFINE After(v) == (held \ {v}) \cup {p}
             M == {next[After(v)] : v \in held}
  <2>1. Successors(held, p) = {After(v) : v \in held} /\ Cost(held, p) = 1
    BY <1>8 DEF Successors, Cost
  <2>2. FaultsFrom(i, held) = 1 + Min(M)
    BY <1>2, <1>4, <1>8 DEF FaultsBy
  <2>3. Successors(held, p) # {}
    BY <1>1, SuccessorsFit
  <2> HIDE DEF p, next, After
  <2>4. M = {next[K] : K \in Successors(held, p)}
    BY <2>1
  <2> HIDE DEF M
  <2>5. \A K \in Successors(held, p) : next[K] \in Nat
    BY <1>5 DEF p
  <2>6. M \in SUBSET Nat /\ M # {}
    BY <2>3, <2>4, <2>5
  <2>7. Min(M) \in M /\ \A m \in M : Min(M) <= m
    BY <2>6, LeastNatural
  <2>8. PICK K \in Successors(held, p) : Min(M) = next[K]
    BY <2>4, <2>7
  <2>9. \A L \in Successors(held, p) : Min(M) <= next[L]
    BY <2>4, <2>7
  <2>10. Min(M) \in Nat
    BY <2>6, <2>7
  <2>11. \A L \in Successors(held, p) : 1 + Min(M) <= 1 + next[L]
    BY <2>5, <2>9, <2>10
  <2> QED
    BY <1>5, <2>1, <2>2, <2>8, <2>10, <2>11 DEF IsBest, p
<1> QED
  BY <1>6, <1>7, <1>8

(* The fewest faults are always a number. *)
LEMMA FaultsNatural ==
  ASSUME trace \in Seq(Pages), NEW i \in Places, NEW held, Fits(held)
  PROVE  FaultsFrom(i, held) \in Nat
<1> DEFINE n == Len(trace)
           S == {j \in Places : \A H \in SUBSET Pages : Fits(H) => FaultsFrom(j, H) \in Nat}
<1>1. n \in Nat /\ Places = 1 .. n + 1 /\ \A j \in 1 .. n : trace[j] \in Pages
  BY LenProperties DEF Places
<1>2. n + 1 \in S
  BY <1>1, FaultsPastEnd
<1>3. ASSUME NEW j \in 1 .. n, j + 1 \in S PROVE j \in S
  <2>1. ASSUME NEW H \in SUBSET Pages, Fits(H) PROVE FaultsFrom(j, H) \in Nat
    <3>1. \A K \in Successors(H, trace[j]) : FaultsFrom(j + 1, K) \in Nat
      BY <1>1, <1>3, <2>1, SuccessorsFit DEF Fits
    <3> QED
      BY <2>1, <3>1, BestOfChoices DEF IsBest
  <2> QED
    BY <1>1, <2>1
<1> HIDE DEF S
<1>4. \A j \in 1 .. n + 1 : j \in S
  BY <1>1, <1>2, <1>3, Backwards
<1>5. i \in S /\ held \in SUBSET Pages
  BY <1>1, <1>4 DEF Fits
<1> QED
  BY <1>5 DEF S

(* A choice has as few faults as any, and no choice has fewer. *)
LEMMA BestExists ==
  ASSUME trace \in Seq(Pages), NEW i \in 1 .. Len(trace), NEW held, Fits(held)
  PROVE  IsBest(i, held)
<1>1. Len(trace) \in Nat /\ trace[i] \in Pages
  BY LenProperties
<1>2. i + 1 \in Places
  BY <1>1 DEF Places
<1>3. \A K \in Successors(held, trace[i]) : FaultsFrom(i + 1, K) \in Nat
  BY <1>1, <1>2, SuccessorsFit, FaultsNatural
<1> QED
  BY <1>3, BestOfChoices

(* To go on at least as well as another, it is enough to have for each of  *)
(* its choices one that makes up for the difference.                       *)
LEMMA NoWorse ==
  ASSUME trace \in Seq(Pages), NEW i \in 1 .. Len(trace),
         NEW A, NEW C, Fits(A), Fits(C), NEW d \in Nat,
         \A K \in Successors(C, trace[i]) : \E J \in Successors(A, trace[i]) :
           Cost(A, trace[i]) + FaultsFrom(i + 1, J)
             <= Cost(C, trace[i]) + FaultsFrom(i + 1, K) + d
  PROVE  FaultsFrom(i, A) <= FaultsFrom(i, C) + d
<1> DEFINE p == trace[i]
<1>1. Len(trace) \in Nat /\ p \in Pages
  BY LenProperties
<1>2. i + 1 \in Places
  BY <1>1 DEF Places
<1>3. IsBest(i, A) /\ IsBest(i, C)
  BY BestExists
<1>4. PICK K \in Successors(C, p) : FaultsFrom(i, C) = Cost(C, p) + FaultsFrom(i + 1, K)
  BY <1>3 DEF IsBest
<1>5. PICK J \in Successors(A, p) :
        Cost(A, p) + FaultsFrom(i + 1, J) <= Cost(C, p) + FaultsFrom(i + 1, K) + d
  OBVIOUS
<1>6. FaultsFrom(i, A) <= Cost(A, p) + FaultsFrom(i + 1, J)
  BY <1>3 DEF IsBest
<1>7. FaultsFrom(i + 1, J) \in Nat /\ FaultsFrom(i + 1, K) \in Nat
  BY <1>1, <1>2, SuccessorsFit, FaultsNatural
<1>8. /\ FaultsFrom(i, A) \in Nat /\ FaultsFrom(i, C) \in Nat
      /\ Cost(A, p) \in Nat /\ Cost(C, p) \in Nat
  BY <1>3 DEF IsBest, Cost
<1> HIDE DEF p
<1> QED
  BY <1>4, <1>5, <1>6, <1>7, <1>8

(* To hold more is no worse. *)
LEMMA MoreIsNoWorse ==
  ASSUME trace \in Seq(Pages), NEW i \in Places, NEW A, NEW C, Fits(A), Fits(C), C \subseteq A
  PROVE  FaultsFrom(i, A) <= FaultsFrom(i, C)
<1> DEFINE n == Len(trace)
           S == {j \in Places : \A H, L \in SUBSET Pages :
                   Fits(H) /\ Fits(L) /\ L \subseteq H => FaultsFrom(j, H) <= FaultsFrom(j, L)}
<1>1. n \in Nat /\ Places = 1 .. n + 1 /\ \A j \in 1 .. n : trace[j] \in Pages
  BY LenProperties DEF Places
<1>2. n + 1 \in S
  BY <1>1, FaultsPastEnd
<1>3. ASSUME NEW j \in 1 .. n, j + 1 \in S PROVE j \in S
  <2>1. ASSUME NEW H \in SUBSET Pages, NEW L \in SUBSET Pages,
               Fits(H), Fits(L), L \subseteq H
        PROVE  FaultsFrom(j, H) <= FaultsFrom(j, L)
    <3> DEFINE p == trace[j]
    <3>1. ASSUME NEW K \in Successors(L, p)
          PROVE  \E J \in Successors(H, p) :
                   Cost(H, p) + FaultsFrom(j + 1, J) <= Cost(L, p) + FaultsFrom(j + 1, K) + 0
      <4>1. p \in Pages
        BY <1>1
      <4>2. PICK J \in Successors(H, p) : K \subseteq J /\ Cost(H, p) <= Cost(L, p)
        BY <2>1, <4>1, MoreSucceeds
      <4>3. Fits(J) /\ Fits(K) /\ j + 1 \in Places
        BY <1>1, <2>1, <4>1, SuccessorsFit
      <4>4. FaultsFrom(j + 1, J) <= FaultsFrom(j + 1, K)
        BY <1>3, <4>2, <4>3 DEF Fits
      <4>5. FaultsFrom(j + 1, J) \in Nat /\ FaultsFrom(j + 1, K) \in Nat
        BY <4>3, FaultsNatural
      <4>6. Cost(H, p) \in Nat /\ Cost(L, p) \in Nat
        BY DEF Cost
      <4> HIDE DEF p
      <4> QED
        BY <4>2, <4>4, <4>5, <4>6
    <3>2. FaultsFrom(j, H) <= FaultsFrom(j, L) + 0
      BY <2>1, <3>1, NoWorse
    <3>3. FaultsFrom(j, L) \in Nat
      BY <1>1, <2>1, FaultsNatural
    <3> QED
      BY <3>2, <3>3
  <2> QED
    BY <1>1, <2>1
<1> HIDE DEF S
<1>4. \A j \in 1 .. n + 1 : j \in S
  BY <1>1, <1>2, <1>3, Backwards
<1>5. i \in S /\ A \in SUBSET Pages /\ C \in SUBSET Pages
  BY <1>1, <1>4 DEF Fits
<1> QED
  BY <1>5 DEF S

(* To miss one page costs at most one fault. *)
LEMMA OneMissing ==
  ASSUME trace \in Seq(Pages), NEW i \in Places, NEW A, NEW C, Fits(A), Fits(C),
         NEW c, C \ A \subseteq {c}
  PROVE  FaultsFrom(i, A) <= FaultsFrom(i, C) + 1
<1> DEFINE n == Len(trace)
           S == {j \in Places : \A H, L \in SUBSET Pages :
                   Fits(H) /\ Fits(L) /\ L \ H \subseteq {c}
                   => FaultsFrom(j, H) <= FaultsFrom(j, L) + 1}
<1>1. n \in Nat /\ Places = 1 .. n + 1 /\ \A j \in 1 .. n : trace[j] \in Pages
  BY LenProperties DEF Places
<1>2. n + 1 \in S
  BY <1>1, FaultsPastEnd
<1>3. ASSUME NEW j \in 1 .. n, j + 1 \in S PROVE j \in S
  <2>1. ASSUME NEW H \in SUBSET Pages, NEW L \in SUBSET Pages,
               Fits(H), Fits(L), L \ H \subseteq {c}
        PROVE  FaultsFrom(j, H) <= FaultsFrom(j, L) + 1
    <3> DEFINE p == trace[j]
    <3>1. ASSUME NEW K \in Successors(L, p)
          PROVE  \E J \in Successors(H, p) :
                   Cost(H, p) + FaultsFrom(j + 1, J) <= Cost(L, p) + FaultsFrom(j + 1, K) + 1
      <4>1. p \in Pages
        BY <1>1
      <4>2. PICK J \in Successors(H, p) :
              \/ K \subseteq J /\ Cost(H, p) <= Cost(L, p) + 1
              \/ K \ J \subseteq {c} /\ Cost(H, p) <= Cost(L, p)
        BY <2>1, <4>1, MissingSucceeds
      <4>3. Fits(J) /\ Fits(K) /\ j + 1 \in Places
        BY <1>1, <2>1, <4>1, SuccessorsFit
      <4>4. K \subseteq J => FaultsFrom(j + 1, J) <= FaultsFrom(j + 1, K)
        BY <4>3, MoreIsNoWorse
      <4>5. K \ J \subseteq {c} => FaultsFrom(j + 1, J) <= FaultsFrom(j + 1, K) + 1
        BY <1>3, <4>3 DEF Fits
      <4>6. FaultsFrom(j + 1, J) \in Nat /\ FaultsFrom(j + 1, K) \in Nat
        BY <4>3, FaultsNatural
      <4>7. Cost(H, p) \in Nat /\ Cost(L, p) \in Nat
        BY DEF Cost
      <4> HIDE DEF p
      <4> QED
        BY <4>2, <4>4, <4>5, <4>6, <4>7
    <3> QED
      BY <2>1, <3>1, NoWorse
  <2> QED
    BY <1>1, <2>1
<1> HIDE DEF S
<1>4. \A j \in 1 .. n + 1 : j \in S
  BY <1>1, <1>2, <1>3, Backwards
<1>5. i \in S /\ A \in SUBSET Pages /\ C \in SUBSET Pages
  BY <1>1, <1>4 DEF Fits
<1> QED
  BY <1>5 DEF S

(* From position i on, y is not referenced before x. *)
Sooner(i, x, y) ==
  \A j \in i .. Len(trace) : trace[j] = y => \E k \in i .. j : trace[k] = x

(***************************************************************************)
(* It is no worse to hold x than to hold y instead, if y is not referenced *)
(* before x.                                                               *)
(***************************************************************************)
LEMMA SoonerIsNoWorse ==
  ASSUME trace \in Seq(Pages), NEW i \in Places, NEW x, NEW y, x # y, Sooner(i, x, y),
         NEW common, x \notin common, y \notin common,
         Fits(With(common, x)), Fits(With(common, y))
  PROVE  FaultsFrom(i, With(common, x)) <= FaultsFrom(i, With(common, y))
<1> DEFINE n == Len(trace)
           Shared == {G \in SUBSET Pages : /\ x \notin G /\ y \notin G
                                           /\ Fits(With(G, x)) /\ Fits(With(G, y))}
           S == {j \in Places :
                   Sooner(j, x, y) => \A G \in Shared :
                     FaultsFrom(j, With(G, x)) <= FaultsFrom(j, With(G, y))}
<1>1. n \in Nat /\ Places = 1 .. n + 1 /\ \A j \in 1 .. n : trace[j] \in Pages
  BY LenProperties DEF Places
<1>2. n + 1 \in S
  <2>1. \A G \in Shared : /\ FaultsFrom(n + 1, With(G, x)) = 0
                          /\ FaultsFrom(n + 1, With(G, y)) = 0
    BY FaultsPastEnd DEF Fits
  <2> QED
    BY <1>1, <2>1
<1>3. ASSUME NEW j \in 1 .. n, j + 1 \in S PROVE j \in S
  <2>1. ASSUME Sooner(j, x, y), NEW G \in Shared
        PROVE  FaultsFrom(j, With(G, x)) <= FaultsFrom(j, With(G, y))
    <3> DEFINE p == trace[j]
               A == With(G, x)
               B == With(G, y)
    <3>1. p \in Pages /\ Fits(A) /\ Fits(B) /\ x \notin G /\ y \notin G
      BY <1>1
    <3>2. p # y
      BY <1>1, <2>1 DEF Sooner
    <3>3. p \notin {x, y} => Sooner(j + 1, x, y)
      <4> SUFFICES ASSUME p \notin {x, y}, NEW l \in j + 1 .. n, trace[l] = y
                   PROVE  \E k \in j + 1 .. l : trace[k] = x
        BY DEF Sooner
      <4>1. PICK k \in j .. l : trace[k] = x
        BY <1>1, <2>1 DEF Sooner
      <4> QED
        BY <1>1, <4>1
    <3>4. ASSUME NEW K \in Successors(B, p)
          PROVE  \E J \in Successors(A, p) :
                   Cost(A, p) + FaultsFrom(j + 1, J) <= Cost(B, p) + FaultsFrom(j + 1, K) + 0
      <4> HIDE DEF p
      <4>1. PICK J \in Successors(A, p) :
              \/ J = K /\ Cost(A, p) <= Cost(B, p)
              \/ /\ p \notin {x, y} /\ Cost(A, p) <= Cost(B, p)
                 /\ \E rest : /\ x \notin rest /\ y \notin rest
                              /\ J = With(rest, x) /\ K = With(rest, y)
              \/ K \ J \subseteq {y} /\ Cost(A, p) + 1 <= Cost(B, p)
        BY <3>1, <3>2, ExchangeSucceeds
      <4> HIDE DEF A, B
      <4>2. Fits(J) /\ Fits(K) /\ j + 1 \in Places
        BY <1>1, <3>1, SuccessorsFit
      <4>3. FaultsFrom(j + 1, J) \in Nat /\ FaultsFrom(j + 1, K) \in Nat
        BY <4>2, FaultsNatural
      <4>4. Cost(A, p) \in Nat /\ Cost(B, p) \in Nat
        BY DEF Cost
      <4>5. CASE J = K /\ Cost(A, p) <= Cost(B, p)
        BY <4>3, <4>4, <4>5
      <4>6. CASE /\ p \notin {x, y} /\ Cost(A, p) <= Cost(B, p)
                 /\ \E rest : /\ x \notin rest /\ y \notin rest
                              /\ J = With(rest, x) /\ K = With(rest, y)
        <5>1. PICK rest : /\ x \notin rest /\ y \notin rest
                          /\ J = With(rest, x) /\ K = With(rest, y)
          BY <4>6
        <5>2. rest \in SUBSET Pages
          BY <4>2, <5>1 DEF With, Fits
        <5>3. rest \in Shared
          BY <4>2, <5>1, <5>2
        <5>4. FaultsFrom(j + 1, J) <= FaultsFrom(j + 1, K)
          BY <1>3, <3>3, <4>6, <5>1, <5>3
        <5> QED
          BY <4>3, <4>4, <4>6, <5>4
      <4>7. CASE K \ J \subseteq {y} /\ Cost(A, p) + 1 <= Cost(B, p)
        <5>1. FaultsFrom(j + 1, J) <= FaultsFrom(j + 1, K) + 1
          BY <4>2, <4>7, OneMissing
        <5> QED
          BY <4>3, <4>4, <4>7, <5>1
      <4> QED
        BY <4>1, <4>5, <4>6, <4>7
    <3> HIDE DEF A, B
    <3>5. FaultsFrom(j, A) <= FaultsFrom(j, B) + 0
      BY <3>1, <3>4, NoWorse
    <3>6. FaultsFrom(j, B) \in Nat /\ FaultsFrom(j, A) \in Nat
      BY <1>1, <3>1, FaultsNatural
    <3> QED
      BY <3>5, <3>6 DEF A, B
  <2> QED
    BY <1>1, <2>1
<1> HIDE DEF S
<1>4. \A j \in 1 .. n + 1 : j \in S
  BY <1>1, <1>2, <1>3, Backwards
<1>5. i \in S
  BY <1>1, <1>4
<1>6. common \in Shared
  BY DEF Fits, With
<1> HIDE DEF Shared
<1> QED
  BY <1>5, <1>6 DEF S

(***************************************************************************)
(* To evict the page that is not referenced before any other resident page *)
(* is the best choice.                                                     *)
(***************************************************************************)
LEMMA FarthestIsBest ==
  ASSUME trace \in Seq(Pages), NEW i \in 1 .. Len(trace), NEW held, Fits(held),
         trace[i] \notin held, ~(Cardinality(held) < NumFrames),
         NEW v \in held, \A w \in held : Sooner(i + 1, w, v)
  PROVE  FaultsFrom(i, held) = 1 + FaultsFrom(i + 1, (held \ {v}) \cup {trace[i]})
<1> DEFINE p == trace[i]
           After(w) == (held \ {w}) \cup {p}
<1>1. Len(trace) \in Nat /\ p \in Pages
  BY LenProperties
<1>2. i + 1 \in Places
  BY <1>1 DEF Places
<1>3. Successors(held, p) = {After(w) : w \in held} /\ Cost(held, p) = 1
  BY DEF Successors, Cost
<1>4. \A w \in held : Fits(After(w))
  BY <1>1, <1>3, SuccessorsFit
<1>5. ASSUME NEW w \in held
      PROVE  FaultsFrom(i + 1, After(v)) <= FaultsFrom(i + 1, After(w))
  <2>1. CASE w = v
    <3>1. FaultsFrom(i + 1, After(v)) \in Nat
      BY <1>2, <1>4, FaultsNatural
    <3> HIDE DEF After
    <3> QED
      BY <2>1, <3>1
  <2>2. CASE w # v
    <3> DEFINE common == (held \ {v, w}) \cup {p}
    <3>1. After(v) = With(common, w) /\ After(w) = With(common, v)
      BY <2>2 DEF With
    <3>2. w \notin common /\ v \notin common
      OBVIOUS
    <3>3. Fits(With(common, w)) /\ Fits(With(common, v)) /\ Sooner(i + 1, w, v)
      BY <1>4, <3>1
    <3> HIDE DEF common, After
    <3>4. FaultsFrom(i + 1, With(common, w)) <= FaultsFrom(i + 1, With(common, v))
      BY <1>2, <2>2, <3>2, <3>3, SoonerIsNoWorse
    <3> QED
      BY <3>1, <3>4
  <2> QED
    BY <2>1, <2>2
<1>6. IsBest(i, held)
  BY BestExists
<1>7. \A w \in held : FaultsFrom(i + 1, After(w)) \in Nat
  BY <1>2, <1>4, FaultsNatural
<1> HIDE DEF p, After
<1>8. PICK w \in held : FaultsFrom(i, held) = 1 + FaultsFrom(i + 1, After(w))
  BY <1>3, <1>6 DEF IsBest, p
<1>9. FaultsFrom(i, held) <= 1 + FaultsFrom(i + 1, After(v))
  BY <1>3, <1>6 DEF IsBest, p
<1>10. FaultsFrom(i, held) = 1 + FaultsFrom(i + 1, After(v))
  BY <1>5, <1>7, <1>8, <1>9
<1> QED
  BY <1>10 DEF After, p

-----------------------------------------------------------------------------
(* What Optimal is told *)

(* A state of Optimal that is told these references, at this position. *)
Told(state, references, position) ==
  state.references = references /\ state.position = position

(* All but an access leaves what Optimal is told as it is, *)
LEMMA ToldStays ==
  ASSUME NEW policy, IsPolicy(policy, Pages, Frames), policy.kind = "OPTIMAL",
         NEW p \in Pages, NEW f \in Frames, NEW r, NEW n, Told(policy.state, r, n)
  PROVE  /\ Told(PageLoaded(policy, p, f).state, r, n)
         /\ Told(PageRemoved(policy, p, f).state, r, n)
         /\ Told(AfterChoice(policy).state, r, n)
         /\ Told(RecordDirtyEviction(policy).state, r, n)
<1> DEFINE s == policy.state
<1>1. s = [resident |-> s.resident, references |-> s.references, position |-> s.position]
  BY StateByKind DEF IsOptimal
<1>2. s.references = r /\ s.position = n
  BY DEF Told
<1>3. /\ PageLoaded(policy, p, f).state = Optimal!PageLoaded(s, p, f)
      /\ PageRemoved(policy, p, f).state = Optimal!PageRemoved(s, p, f)
      /\ AfterChoice(policy).state = s
      /\ RecordDirtyEviction(policy).state = s
  BY DEF IsPolicy, PageLoaded, PageRemoved, AfterChoice, RecordDirtyEviction, Optimal!AfterChoice
<1> HIDE DEF s
<1>4. Told(Optimal!PageLoaded(s, p, f), r, n)
  BY <1>1, <1>2 DEF Optimal!PageLoaded, Told
<1>5. Told(Optimal!PageRemoved(s, p, f), r, n)
  BY <1>1, <1>2 DEF Optimal!PageRemoved, Told
<1> QED
  BY <1>2, <1>3, <1>4, <1>5 DEF Told

(* and an access to the page it expects moves it on by one. *)
LEMMA ToldConsumed ==
  ASSUME NEW policy, IsPolicy(policy, Pages, Frames), policy.kind = "OPTIMAL",
         NEW p, NEW f, NEW r, NEW n \in Nat, Told(policy.state, r, n),
         n < Len(r), r[n + 1] = p
  PROVE  Told(PageAccessed(policy, p, f).state, r, n + 1)
<1> DEFINE s == policy.state
<1>1. s = [resident |-> s.resident, references |-> s.references, position |-> s.position]
  BY StateByKind DEF IsOptimal
<1>2. s.references = r /\ s.position = n
  BY DEF Told
<1>3. PageAccessed(policy, p, f).state = Optimal!PageAccessed(s, p, f)
  BY DEF IsPolicy, PageAccessed
<1> HIDE DEF s
<1>4. Told(Optimal!PageAccessed(s, p, f), r, n + 1)
  BY <1>1, <1>2 DEF Optimal!PageAccessed, Told
<1> QED
  BY <1>3, <1>4

(* A load is an access first. *)
LEMMA ToldByLoad ==
  ASSUME NEW policy, IsPolicy(policy, Pages, Frames), policy.kind = "OPTIMAL",
         NEW p \in Pages, NEW f \in Frames, NEW r, NEW n \in Nat, Told(policy.state, r, n),
         n < Len(r), r[n + 1] = p
  PROVE  /\ Told(AfterLoad(policy, p, f).state, r, n + 1)
         /\ IsPolicy(AfterLoad(policy, p, f), Pages, Frames)
         /\ AfterLoad(policy, p, f).kind = "OPTIMAL"
<1> DEFINE a == PageAccessed(policy, p, f)
<1>1. IsPolicy(a, Pages, Frames) /\ a.kind = "OPTIMAL"
  BY PolicyPageAccessed
<1>2. Told(a.state, r, n + 1)
  BY ToldConsumed
<1>3. AfterLoad(policy, p, f) = PageLoaded(a, p, f)
  BY DEF AfterLoad
<1> HIDE DEF a
<1>4. IsPolicy(PageLoaded(a, p, f), Pages, Frames) /\ PageLoaded(a, p, f).kind = "OPTIMAL"
  BY <1>1, PolicyPageLoaded
<1> QED
  BY <1>1, <1>2, <1>3, <1>4, ToldStays

(* A replacement is a load in the end. *)
LEMMA ToldByReplacement ==
  ASSUME NEW policy, IsPolicy(policy, Pages, Frames), policy.kind = "OPTIMAL",
         NEW p \in Pages, NEW v \in Pages, NEW f \in Frames,
         NEW r, NEW n \in Nat, Told(policy.state, r, n),
         n < Len(r), r[n + 1] = p
  PROVE  LET m == AfterLoad(PageRemoved(AfterChoice(policy), v, f), p, f)
         IN  /\ Told(m.state, r, n + 1)
             /\ Told(RecordDirtyEviction(m).state, r, n + 1)
<1> DEFINE c == AfterChoice(policy)
           d == PageRemoved(c, v, f)
           m == AfterLoad(d, p, f)
<1>1. IsPolicy(c, Pages, Frames) /\ c.kind = "OPTIMAL" /\ Told(c.state, r, n)
  BY PolicyAfterChoice, ToldStays
<1> HIDE DEF c
<1>2. IsPolicy(d, Pages, Frames) /\ d.kind = "OPTIMAL" /\ Told(d.state, r, n)
  <2>1. IsPolicy(d, Pages, Frames) /\ d.kind = c.kind
    BY <1>1, PolicyPageRemoved
  <2>2. Told(PageRemoved(c, v, f).state, r, n)
    BY <1>1, ToldStays
  <2> QED
    BY <1>1, <2>1, <2>2
<1> HIDE DEF d
<1>3. IsPolicy(m, Pages, Frames) /\ m.kind = "OPTIMAL" /\ Told(m.state, r, n + 1)
  BY <1>2, ToldByLoad
<1> HIDE DEF m
<1>4. Told(RecordDirtyEviction(m).state, r, n + 1)
  BY <1>3, ToldStays
<1> QED
  BY <1>3, <1>4 DEF m, d, c

-----------------------------------------------------------------------------
(* The invariant of Optimal *)

(***************************************************************************)
(* Optimal is told the references that are still to come, and the faults   *)
(* so far with the fewest still to come are the fewest there can be.       *)
(***************************************************************************)
KeepsToBest ==
  pol.kind = "OPTIMAL" =>
    /\ Told(pol.state, trace, index)
    /\ counts.faults + FaultsFrom(index + 1, Resident) = FaultsFrom(1, {})

(* What the next reference meets. *)
LEMMA ReferenceMeets ==
  ASSUME UnitReady, Reference
  PROVE  /\ trace \in Seq(Pages) /\ trace' = trace /\ index' = index + 1
         /\ index \in Nat /\ index < Len(trace) /\ index + 1 \in 1 .. Len(trace)
         /\ trace[index + 1] = NextPage /\ NextPage \in Pages
         /\ Fits(Resident)
         /\ counts.faults \in Nat
<1>1. /\ trace \in Seq(Pages) /\ index \in 0 .. Len(trace) /\ IInv
      /\ index < Len(trace) /\ trace' = trace /\ index' = index + 1
  BY DEF UnitReady, PInv, Reference
<1>2. Len(trace) \in Nat
  BY <1>1, LenProperties
<1>3. NextPage \in Pages /\ NextPage = trace[index + 1]
  BY ReferenceServed DEF NextPage
<1>4. Fits(Resident)
  <2>1. Resident \in SUBSET Pages /\ IsFiniteSet(Resident)
    BY PagesAssumption, FS_Subset DEF Resident
  <2>2. Cardinality(Resident) \in Nat
    BY <2>1, FS_CardinalityType
  <2>3. Cardinality(Resident) < NumFrames \/ Cardinality(Resident) = NumFrames
    BY <1>1, ResidentCount
  <2> QED
    BY <2>1, <2>2, <2>3, NumFramesAssumption DEF Fits
<1>5. counts.faults \in Nat
  BY <1>1 DEF IInv, TypeOK, Counters
<1> QED
  BY <1>1, <1>2, <1>3, <1>4, <1>5

(* The pages of Optimal's entries are the resident ones. *)
LEMMA OptimalEntries ==
  ASSUME PInv, pol.kind = "OPTIMAL"
  PROVE  /\ IsOptimal(pol.state, Pages, Frames)
         /\ IsQueue(pol.state.resident, Pages, Frames)
         /\ \A i \in 1 .. Len(pol.state.resident) :
              \E x \in Resident : pol.state.resident[i] = Pair(x, pages[x].frame)
         /\ \A x \in Resident : \E i \in 1 .. Len(pol.state.resident) :
              pol.state.resident[i] = Pair(x, pages[x].frame)
<1> DEFINE q == pol.state.resident
<1>1. IsPolicy(pol, Pages, Frames) /\ Tracked(pol) = ResidentPairs
  BY DEF PInv, PolicyTracksResidents
<1>2. IsOptimal(pol.state, Pages, Frames) /\ Tracked(pol) = ToSet(q)
  BY <1>1, StateByKind
<1>3. IsQueue(q, Pages, Frames)
  BY <1>2 DEF IsOptimal
<1>4. \A e : e \in ResidentPairs <=> \E x \in Resident : e = Pair(x, pages[x].frame)
  BY ResidentFacts DEF PInv
<1>5. ToSet(q) = {q[i] : i \in 1 .. Len(q)}
  BY <1>3, QueueElements
<1> HIDE DEF q
<1>6. \A i \in 1 .. Len(q) : \E x \in Resident : q[i] = Pair(x, pages[x].frame)
  BY <1>1, <1>2, <1>4, <1>5
<1>7. \A x \in Resident : \E i \in 1 .. Len(q) : q[i] = Pair(x, pages[x].frame)
  BY <1>1, <1>2, <1>4, <1>5
<1> QED
  BY <1>2, <1>3, <1>6, <1>7 DEF q

(* Optimal's victim is not referenced before any other resident page. *)
LEMMA VictimIsFarthest ==
  ASSUME UnitReady, Reference, pol.kind = "OPTIMAL", Told(pol.state, trace, index),
         HasVictim(pol), NextPage \notin Resident,
         NEW w \in Resident
  PROVE  Sooner(index + 2, w, mem.frames[Victim(pol)])
<1> DEFINE s == pol.state
           q == s.resident
           v == mem.frames[Victim(pol)]
           n == Len(trace)
           Use(x) == Optimal!NextUse(s, x)
<1>1. /\ trace \in Seq(Pages) /\ index \in Nat /\ index < n /\ trace[index + 1] = NextPage
      /\ n \in Nat
  BY ReferenceMeets, LenProperties
<1>2. /\ IsOptimal(s, Pages, Frames)
      /\ \A i \in 1 .. Len(q) : \E x \in Resident : q[i] = Pair(x, pages[x].frame)
      /\ \A x \in Resident : \E i \in 1 .. Len(q) : q[i] = Pair(x, pages[x].frame)
      /\ \A x \in Resident : mem.frames[pages[x].frame] = x
  BY OptimalEntries, ResidentFacts DEF UnitReady, PInv
<1>3. q # <<>> /\ Victim(pol) = Optimal!Victim(s)
  BY DEF HasVictim, Victim, Optimal!HasVictim
<1>4. PICK j : FarthestAmong(s, j, Len(q)) /\ Optimal!Victim(s) = q[j].frame
  BY <1>2, <1>3, OptimalVictim
<1>5. q[j].page = v /\ j \in 1 .. Len(q)
  <2>1. j \in 1 .. Len(q)
    BY <1>4 DEF FarthestAmong
  <2>2. PICK x \in Resident : q[j] = Pair(x, pages[x].frame)
    BY <1>2, <2>1
  <2>3. q[j].page = x /\ q[j].frame = pages[x].frame
    BY <2>2 DEF Pair
  <2> QED
    BY <1>2, <1>3, <1>4, <2>1, <2>3
<1>6. PICK i \in 1 .. Len(q) : q[i].page = w
  <2>1. PICK i \in 1 .. Len(q) : q[i] = Pair(w, pages[w].frame)
    BY <1>2
  <2> QED
    BY <2>1 DEF Pair
<1>7. Use(w) <= Use(v)
  BY <1>4, <1>5, <1>6 DEF FarthestAmong
<1>8. s.references = trace /\ s.position = index
  BY DEF Told
<1>9. /\ Use(w) \in Nat
      /\ Use(w) \in {k \in index + 1 .. n : trace[k] = w} \cup {n + 1}
      /\ Use(v) \in Nat
      /\ \A k \in index + 1 .. n : trace[k] = v => Use(v) <= k
  BY <1>2, <1>8, NextUseNatural
<1>10. w # NextPage
  OBVIOUS
<1> HIDE DEF s, q, v, Use
<1>11. ASSUME NEW k \in index + 2 .. n, trace[k] = v
       PROVE  \E l \in index + 2 .. k : trace[l] = w
  <2>1. k \in index + 1 .. n /\ Use(w) <= k /\ Use(w) # n + 1
    BY <1>1, <1>7, <1>9, <1>11
  <2>2. Use(w) \in index + 1 .. n /\ trace[Use(w)] = w
    BY <1>9, <2>1
  <2>3. Use(w) # index + 1
    BY <1>1, <1>10, <2>2
  <2> QED
    BY <1>1, <1>9, <2>1, <2>2, <2>3
<1> QED
  BY <1>11 DEF Sooner, v

(* The invariant after a step, in terms of the trace before it. *)
LEMMA NextKeepsToBest ==
  ASSUME trace' = trace
  PROVE  KeepsToBest' <=>
           (pol'.kind = "OPTIMAL" =>
              /\ Told(pol'.state, trace, index')
              /\ counts'.faults + FaultsFrom(index' + 1, Resident') = FaultsFrom(1, {}))
BY DEF KeepsToBest, Told, FaultsFrom, Counting, IsCounting, RowBy, FaultsBy, Places

(* A use of a resident page costs nothing. *)
LEMMA ResidentKeepsToBest ==
  ASSUME UnitReady, KeepsToBest, Reference,
         AccessResident(1, NextPage, AddressIn(NextPage), Writes)
  PROVE  KeepsToBest'
<1> DEFINE p == NextPage
           f == mem.table[p]
<1>1. /\ p \in Pages /\ p \in registered /\ 1 \in Processes
      /\ AddressIn(p) \in Addresses /\ Writes \in BOOLEAN
      /\ PInv /\ IsPolicy(pol, Pages, Frames)
  BY ReferenceServed DEF UnitReady, PInv
<1>2. /\ Resident' = Resident /\ counts' = counts
      /\ pol' = PageAccessed(pol, p, f) /\ mem' = mem /\ IsMapped(mem, p)
  BY <1>1, ResidentAccessFollows DEF AccessResident
<1>3. p \in Resident /\ f \in Frames
  BY <1>1, <1>2, ResidentFacts DEF PInv
<1>4. /\ trace \in Seq(Pages) /\ trace' = trace /\ index' = index + 1
      /\ index \in Nat /\ index < Len(trace) /\ index + 1 \in 1 .. Len(trace)
      /\ trace[index + 1] = p /\ Fits(Resident)
  BY ReferenceMeets
<1> HIDE DEF p, f
<1>5. pol'.kind = pol.kind
  BY <1>1, <1>2, <1>3, PolicyPageAccessed
<1>6. ASSUME pol.kind = "OPTIMAL"
      PROVE  /\ Told(pol'.state, trace, index + 1)
             /\ counts.faults + FaultsFrom((index + 1) + 1, Resident) = FaultsFrom(1, {})
  <2>1. /\ Told(pol.state, trace, index)
        /\ counts.faults + FaultsFrom(index + 1, Resident) = FaultsFrom(1, {})
    BY <1>6 DEF KeepsToBest
  <2>2. Told(PageAccessed(pol, p, f).state, trace, index + 1)
    BY <1>1, <1>4, <1>6, <2>1, ToldConsumed
  <2>3. IsBest(index + 1, Resident)
    BY <1>4, BestExists
  <2>4. Successors(Resident, p) = {Resident} /\ Cost(Resident, p) = 0
    BY <1>3 DEF Successors, Cost
  <2>5. FaultsFrom(index + 1, Resident) = 0 + FaultsFrom((index + 1) + 1, Resident)
    BY <1>4, <2>3, <2>4 DEF IsBest
  <2>6. FaultsFrom((index + 1) + 1, Resident) \in Nat
    <3>1. Len(trace) \in Nat
      BY <1>4, LenProperties
    <3>2. (index + 1) + 1 \in Places
      BY <1>4, <3>1 DEF Places
    <3> QED
      BY <1>4, <3>2, FaultsNatural
  <2>7. FaultsFrom(index + 1, Resident) = FaultsFrom((index + 1) + 1, Resident)
    BY <2>5, <2>6
  <2> QED
    BY <1>2, <2>1, <2>2, <2>7
<1> QED
  BY <1>2, <1>4, <1>5, <1>6, NextKeepsToBest

(* A fault that finds a free frame has no choice. *)
LEMMA FreeFrameKeepsToBest ==
  ASSUME UnitReady, KeepsToBest, Reference,
         FaultWithFreeFrame(1, NextPage, AddressIn(NextPage), Writes)
  PROVE  KeepsToBest'
<1> DEFINE p == NextPage
<1>1. /\ p \in Pages /\ p \in registered /\ 1 \in Processes
      /\ AddressIn(p) \in Addresses /\ Writes \in BOOLEAN
      /\ PInv /\ IsPolicy(pol, Pages, Frames) /\ IInv
  BY ReferenceServed DEF UnitReady, PInv
<1>2. PICK f \in Frames \ OccupiedFrames(mem) :
        /\ f = MapPage(mem, p).table[p]
        /\ p \in Pages \ Resident
        /\ Resident' = Resident \cup {p}
  BY <1>1, FreeFrameEffect
<1>3. /\ pol' = AfterLoad(pol, p, f) /\ HasFreeFrame(mem)
      /\ counts' = [counts EXCEPT !.faults = @ + 1]
  BY <1>2 DEF FaultWithFreeFrame, CountFault
<1>4. /\ trace \in Seq(Pages) /\ trace' = trace /\ index' = index + 1
      /\ index \in Nat /\ index < Len(trace) /\ index + 1 \in 1 .. Len(trace)
      /\ trace[index + 1] = p /\ Fits(Resident) /\ counts.faults \in Nat
  BY ReferenceMeets
<1>5. counts'.faults = counts.faults + 1
  BY <1>1, <1>3 DEF IInv, TypeOK, Counters
<1> HIDE DEF p
<1>6. Cardinality(Resident) < NumFrames
  BY <1>1, <1>3, ResidentCount
<1>7. pol'.kind = pol.kind
  <2> DEFINE a == PageAccessed(pol, p, f)
  <2>1. IsPolicy(a, Pages, Frames) /\ a.kind = pol.kind
    BY <1>1, <1>2, PolicyPageAccessed
  <2>2. pol' = PageLoaded(a, p, f)
    BY <1>3 DEF AfterLoad
  <2> HIDE DEF a
  <2> QED
    BY <1>1, <1>2, <2>1, <2>2, PolicyPageLoaded
<1>8. ASSUME pol.kind = "OPTIMAL"
      PROVE  /\ Told(pol'.state, trace, index + 1)
             /\ counts.faults + 1 + FaultsFrom((index + 1) + 1, Resident \cup {p})
                  = FaultsFrom(1, {})
  <2> DEFINE after == Resident \cup {p}
  <2>1. /\ Told(pol.state, trace, index)
        /\ counts.faults + FaultsFrom(index + 1, Resident) = FaultsFrom(1, {})
    BY <1>8 DEF KeepsToBest
  <2>2. Told(AfterLoad(pol, p, f).state, trace, index + 1)
    BY <1>1, <1>2, <1>4, <1>8, <2>1, ToldByLoad
  <2>3. IsBest(index + 1, Resident)
    BY <1>4, BestExists
  <2>4. Successors(Resident, p) = {after} /\ Cost(Resident, p) = 1
    BY <1>2, <1>6 DEF Successors, Cost
  <2>5. Fits(after)
    BY <1>1, <1>4, <2>4, SuccessorsFit
  <2> HIDE DEF after
  <2>6. FaultsFrom(index + 1, Resident) = 1 + FaultsFrom((index + 1) + 1, after)
    BY <1>4, <2>3, <2>4 DEF IsBest
  <2>7. FaultsFrom((index + 1) + 1, after) \in Nat
    <3>1. Len(trace) \in Nat
      BY <1>4, LenProperties
    <3>2. (index + 1) + 1 \in Places
      BY <1>4, <3>1 DEF Places
    <3> QED
      BY <1>4, <2>5, <3>2, FaultsNatural
  <2>8. counts.faults + 1 + FaultsFrom((index + 1) + 1, after) = FaultsFrom(1, {})
    BY <1>4, <2>1, <2>6, <2>7
  <2> QED
    BY <1>3, <2>2, <2>8 DEF after
<1> QED
  BY <1>2, <1>4, <1>5, <1>7, <1>8, NextKeepsToBest

(* A replacement evicts the page that is best evicted. *)
LEMMA ReplacementKeepsToBest ==
  ASSUME UnitReady, KeepsToBest, Reference,
         FaultWithReplacement(1, NextPage, AddressIn(NextPage), Writes)
  PROVE  KeepsToBest'
<1> DEFINE p == NextPage
           f == Victim(pol)
           v == mem.frames[f]
           d == pages[v].dirty
           m == AfterLoad(PageRemoved(AfterChoice(pol), v, f), p, f)
           after == (Resident \ {v}) \cup {p}
<1>1. /\ p \in Pages /\ p \in registered /\ 1 \in Processes
      /\ AddressIn(p) \in Addresses /\ Writes \in BOOLEAN
      /\ PInv /\ IsPolicy(pol, Pages, Frames) /\ IInv
  BY ReferenceServed DEF UnitReady, PInv
<1>2. /\ f \in Frames
      /\ v \in Resident /\ v \in Pages /\ p \in Pages \ Resident
      /\ Resident' = after
  BY <1>1, ReplacementEffect DEF Resident
<1>3. /\ HasVictim(pol) /\ ~HasFreeFrame(mem)
      /\ pol' = IF d THEN RecordDirtyEviction(m) ELSE m
      /\ counts'.faults = counts.faults + 1
  BY DEF FaultWithReplacement, AfterReplacement
<1>4. /\ trace \in Seq(Pages) /\ trace' = trace /\ index' = index + 1
      /\ index \in Nat /\ index < Len(trace) /\ index + 1 \in 1 .. Len(trace)
      /\ trace[index + 1] = p /\ Fits(Resident) /\ counts.faults \in Nat
  BY ReferenceMeets
<1>5. Cardinality(Resident) = NumFrames
  BY <1>1, <1>3, ResidentCount
<1>6. pol'.kind = pol.kind
  BY ReplacementKeepsKind
<1>7. ASSUME pol.kind = "OPTIMAL"
      PROVE  /\ Told(pol'.state, trace, index + 1)
             /\ counts.faults + 1 + FaultsFrom((index + 1) + 1, after) = FaultsFrom(1, {})
  <2>1. /\ Told(pol.state, trace, index)
        /\ counts.faults + FaultsFrom(index + 1, Resident) = FaultsFrom(1, {})
    BY <1>7 DEF KeepsToBest
  <2>2. \A w \in Resident : Sooner(index + 2, w, v)
    BY <1>2, <1>3, <1>7, <2>1, VictimIsFarthest
  <2> HIDE DEF p, f, v, d
  <2>3. Told(m.state, trace, index + 1) /\ Told(RecordDirtyEviction(m).state, trace, index + 1)
    BY <1>1, <1>2, <1>4, <1>7, <2>1, ToldByReplacement
  <2> HIDE DEF m
  <2>4. Told(pol'.state, trace, index + 1)
    BY <1>3, <2>3
  <2>5. ~(Cardinality(Resident) < NumFrames)
    BY <1>5, NumFramesAssumption
  <2>6. \A w \in Resident : Sooner((index + 1) + 1, w, v)
    <3>1. (index + 1) + 1 = index + 2
      BY <1>4
    <3> QED
      BY <2>2, <3>1
  <2>7. FaultsFrom(index + 1, Resident) = 1 + FaultsFrom((index + 1) + 1, after)
    BY <1>2, <1>4, <2>5, <2>6, FarthestIsBest
  <2>8. FaultsFrom((index + 1) + 1, after) \in Nat
    <3>1. Len(trace) \in Nat
      BY <1>4, LenProperties
    <3>2. (index + 1) + 1 \in Places
      BY <1>4, <3>1 DEF Places
    <3>3. after \in Successors(Resident, p)
      BY <1>2, <2>5 DEF Successors
    <3>4. Fits(after)
      BY <1>1, <1>4, <3>3, SuccessorsFit
    <3> QED
      BY <1>4, <3>2, <3>4, FaultsNatural
  <2> HIDE DEF after
  <2>9. counts.faults + 1 + FaultsFrom((index + 1) + 1, after) = FaultsFrom(1, {})
    BY <1>4, <2>1, <2>7, <2>8
  <2> QED
    BY <2>4, <2>9
<1> HIDE DEF p, f, v, d, m, after
<1> QED
  BY <1>2, <1>3, <1>4, <1>6, <1>7, NextKeepsToBest

(* Before the first reference all the faults are still to come. *)
LEMMA KeepsToBestInitially ==
  ASSUME TraceInit
  PROVE  KeepsToBest
<1>1. UnitReady /\ index = 0 /\ Resident = {} /\ trace \in Seq(Pages)
  BY UnitReadyInitially DEF UnitReady
<1>2. counts.faults = 0
  BY DEF TraceInit, NoCounts
<1>3. ASSUME pol.kind = "OPTIMAL" PROVE Told(pol.state, trace, index)
  <2>1. PICK kind \in Kinds : pol = Prepared(kind)
    BY DEF TraceInit
  <2>2. kind = "OPTIMAL"
    BY <1>3, <2>1, PreparedPolicy DEF TraceInit
  <2>3. pol = SetReferenceSequence(NewPolicy("OPTIMAL"), trace)
    BY <2>1, <2>2 DEF Prepared
  <2> QED
    BY <1>1, <2>3
       DEF SetReferenceSequence, NewPolicy, Optimal!Empty, Optimal!SetReferenceSequence, Told
<1>4. FaultsFrom(1, {}) \in Nat
  <2>1. Len(trace) \in Nat
    BY <1>1, LenProperties
  <2>2. 1 \in Places
    BY <2>1 DEF Places
  <2>3. Fits({})
    BY FS_EmptySet, NumFramesAssumption DEF Fits
  <2> QED
    BY <1>1, <2>2, <2>3, FaultsNatural
<1>5. counts.faults + FaultsFrom(index + 1, Resident) = FaultsFrom(1, {})
  BY <1>1, <1>2, <1>4
<1> QED
  BY <1>3, <1>5 DEF KeepsToBest

(* At the end no faults are still to come. *)
LEMMA KeepsToBestSuffices ==
  ASSUME UnitReady, KeepsToBest
  PROVE  OptimalIsLowerBound
<1> SUFFICES ASSUME Done, pol.kind = "OPTIMAL" PROVE counts.faults = FewestFaults
  BY DEF OptimalIsLowerBound
<1>1. trace \in Seq(Pages) /\ index = Len(trace) /\ Resident \in SUBSET Pages
  BY DEF UnitReady, Done, Resident
<1>2. FaultsFrom(index + 1, Resident) = 0
  BY <1>1, FaultsPastEnd
<1>3. counts.faults \in Nat
  BY DEF UnitReady, PInv, IInv, TypeOK, Counters
<1>4. counts.faults + FaultsFrom(index + 1, Resident) = FaultsFrom(1, {})
  BY DEF KeepsToBest
<1> QED
  BY <1>2, <1>3, <1>4, FewestFrom

(***************************************************************************)
(* Optimal serves every trace with the fewest faults any choice of victims *)
(* could serve it with, for every number of frames: the demonstration's    *)
(* "true lower bound", OptimalIsLowerBound.                                *)
(***************************************************************************)
THEOREM OptimalTheorem == TraceSpec => []OptimalIsLowerBound
<1>1. TraceInit => KeepsToBest
  BY KeepsToBestInitially
<1>2. UnitReady /\ KeepsToBest /\ [Reference]_traceVars => KeepsToBest'
  <2> SUFFICES ASSUME UnitReady, KeepsToBest, [Reference]_traceVars PROVE KeepsToBest'
    OBVIOUS
  <2>1. CASE Reference
    BY <2>1, ReferenceServed, ResidentKeepsToBest, FreeFrameKeepsToBest, ReplacementKeepsToBest
  <2>2. CASE UNCHANGED traceVars
    <3>1. UNCHANGED <<trace, index, pages, pol, counts>>
      BY <2>2 DEF traceVars, vars
    <3>2. Resident' = Resident
      BY <3>1 DEF Resident
    <3> QED
      BY <3>1, <3>2, NextKeepsToBest DEF KeepsToBest
  <2> QED
    BY <2>1, <2>2
<1>3. UnitReady /\ KeepsToBest => OptimalIsLowerBound
  BY KeepsToBestSuffices
<1> QED
  BY <1>1, <1>2, <1>3, UnitInvariant, PTL DEF TraceSpec

-----------------------------------------------------------------------------
(* The demonstration goes through *)

(***************************************************************************)
(* Every reference of the trace succeeds, so the demonstration never gives *)
(* up with "Controlled trace access failed".                               *)
(***************************************************************************)
THEOREM TraceServedTheorem == TraceSpec => [][Reference => result'.success]_traceVars
<1>1. UnitReady /\ Reference => result'.success
  <2> SUFFICES ASSUME UnitReady, Reference PROVE result'.success
    OBVIOUS
  <2>1. \E f, a, fault, replaced, dirty : result' = Success(f, a, fault, replaced, dirty)
    <3>1. CASE AccessResident(1, NextPage, AddressIn(NextPage), Writes)
      BY <3>1 DEF AccessResident
    <3>2. CASE FaultWithFreeFrame(1, NextPage, AddressIn(NextPage), Writes)
      BY <3>2 DEF FaultWithFreeFrame
    <3>3. CASE FaultWithReplacement(1, NextPage, AddressIn(NextPage), Writes)
      BY <3>3 DEF FaultWithReplacement
    <3> QED
      BY <3>1, <3>2, <3>3, ReferenceServed
  <2> QED
    BY <2>1 DEF Success
<1> QED
  BY <1>1, UnitInvariant, PTL DEF TraceSpec
=============================================================================
