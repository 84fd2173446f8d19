-------------------------- MODULE PolicyCallsProofs --------------------------
(***************************************************************************)
(* What every policy decides under every sequence of calls, proved for any *)
(* set of pages and frames: that each keeps the interface's promise, and   *)
(* that each algorithm evicts the page its name says.                      *)
(***************************************************************************)
EXTENDS PolicyCalls, ReplacementPolicyLemmas, FiniteSetTheorems

-----------------------------------------------------------------------------
(***************************************************************************)
(* The inductive invariant: the policy is in a state of its class, and the *)
(* queue it decides by runs in the order of the history.                   *)
(***************************************************************************)
InOrder ==
  /\ pol.kind = "FIFO" => Ordered(pol.state, loadedSince)
  /\ pol.kind = "LRU" => Ordered(pol.state.list, usedSince)
  /\ pol.kind = "OPTIMAL" => Ordered(pol.state.resident, loadedSince)

IInv ==
  /\ IsPolicy(pol, Pages, Frames)
  /\ InOrder

(* The page of a call is the most recent of all afterwards. *)
LEMMA MostRecentRenews ==
  ASSUME NEW R, NEW p
  PROVE  Renews(MostRecent(R, p), R, p, Pages)
BY DEF Renews, MostRecent

(* A new policy has an empty queue. *)
LEMMA NewInOrder ==
  ASSUME NEW kind \in PolicyKinds, NEW R
  PROVE  /\ kind = "FIFO" => Ordered(NewPolicy(kind).state, R)
         /\ kind = "LRU" => Ordered(NewPolicy(kind).state.list, R)
         /\ kind = "OPTIMAL" => Ordered(NewPolicy(kind).state.resident, R)
<1>1. Ordered(<<>>, R)
  <2>1. Len(<<>>) = 0
    OBVIOUS
  <2> QED
    BY <2>1 DEF Ordered
<1>2. kind = "FIFO" => NewPolicy(kind).state = <<>>
  BY DEF NewPolicy, Fifo!Empty
<1>3. kind = "LRU" => NewPolicy(kind).state.list = <<>>
  BY DEF NewPolicy, Lru!Empty
<1>4. kind = "OPTIMAL" => NewPolicy(kind).state.resident = <<>>
  BY DEF NewPolicy, Optimal!Empty
<1> QED
  BY <1>1, <1>2, <1>3, <1>4

(* A new policy tracks nothing, in order. *)
LEMMA InitInOrder == Init => IInv
<1> SUFFICES ASSUME Init PROVE IInv
  OBVIOUS
<1>1. PICK kind \in Kinds : pol = NewPolicy(kind)
  BY DEF Init
<1>2. kind \in PolicyKinds
  BY KindsAssumption
<1>3. IsPolicy(pol, Pages, Frames) /\ pol.kind = kind
  BY <1>1, <1>2, PolicyNew
<1>4. InOrder
  BY <1>1, <1>2, <1>3, NewInOrder DEF InOrder
<1> QED
  BY <1>3, <1>4 DEF IInv

(* A load appends the youngest entry, in every policy's order. *)
LEMMA LoadedKeepsOrder ==
  ASSUME IInv, NEW p \in Pages, NEW f \in Frames, LoadedStep(p, f)
  PROVE  IInv'
<1>1. IsPolicy(pol, Pages, Frames) /\ pol' = PageLoaded(pol, p, f)
  BY DEF IInv, LoadedStep
<1>2. IsPolicy(pol', Pages, Frames) /\ pol'.kind = pol.kind
  BY <1>1, PolicyPageLoaded
<1>3. /\ Conflicts(Tracked(pol), p, f) => usedSince' = usedSince /\ loadedSince' = loadedSince
      /\ ~Conflicts(Tracked(pol), p, f) =>
           usedSince' = MostRecent(usedSince, p) /\ loadedSince' = MostRecent(loadedSince, p)
  BY DEF LoadedStep, Conflicts
<1>4. ASSUME pol.kind = "FIFO" PROVE Ordered(pol'.state, loadedSince')
  <2>1. IsQueue(pol.state, Pages, Frames) /\ Tracked(pol) = ToSet(pol.state)
    BY <1>1, <1>4, StateByKind
  <2>2. Ordered(pol.state, loadedSince)
    BY <1>4 DEF IInv, InOrder
  <2>3. pol'.state = IF Conflicts(Tracked(pol), p, f) THEN pol.state
                     ELSE Append(pol.state, Pair(p, f))
    BY <1>1, <1>4, QueueAfterLoad
  <2> QED
    BY <1>3, <2>1, <2>2, <2>3, OrderAppend, MostRecentRenews
<1>5. ASSUME pol.kind = "LRU" PROVE Ordered(pol'.state.list, usedSince')
  <2>1. IsQueue(pol.state.list, Pages, Frames) /\ Tracked(pol) = ToSet(pol.state.list)
    BY <1>1, <1>5, StateByKind DEF IsLru
  <2>2. Ordered(pol.state.list, usedSince)
    BY <1>5 DEF IInv, InOrder
  <2>3. pol'.state.list = IF Conflicts(Tracked(pol), p, f) THEN pol.state.list
                          ELSE Append(pol.state.list, Pair(p, f))
    BY <1>1, <1>5, QueueAfterLoad
  <2> QED
    BY <1>3, <2>1, <2>2, <2>3, OrderAppend, MostRecentRenews
<1>6. ASSUME pol.kind = "OPTIMAL" PROVE Ordered(pol'.state.resident, loadedSince')
  <2>1. IsQueue(pol.state.resident, Pages, Frames) /\ Tracked(pol) = ToSet(pol.state.resident)
    BY <1>1, <1>6, StateByKind DEF IsOptimal
  <2>2. Ordered(pol.state.resident, loadedSince)
    BY <1>6 DEF IInv, InOrder
  <2>3. pol'.state.resident = IF Conflicts(Tracked(pol), p, f) THEN pol.state.resident
                              ELSE Append(pol.state.resident, Pair(p, f))
    BY <1>1, <1>6, QueueAfterLoad
  <2> QED
    BY <1>3, <2>1, <2>2, <2>3, OrderAppend, MostRecentRenews
<1> QED
  BY <1>2, <1>4, <1>5, <1>6 DEF IInv, InOrder

(* An access makes its entry the most recent one, for LRU; for the others
   it moves nothing. *)
LEMMA AccessedKeepsOrder ==
  ASSUME IInv, NEW p \in Pages, NEW f \in Frames, AccessedStep(p, f)
  PROVE  IInv'
<1>1. IsPolicy(pol, Pages, Frames) /\ pol' = PageAccessed(pol, p, f)
  BY DEF IInv, AccessedStep
<1>2. IsPolicy(pol', Pages, Frames) /\ pol'.kind = pol.kind
  BY <1>1, PolicyPageAccessed
<1>3. ASSUME pol.kind = "FIFO" PROVE Ordered(pol'.state, loadedSince')
  <2>1. pol'.state = pol.state
    BY <1>1, <1>3, QueueAfterAccess
  <2> QED
    BY <1>3, <2>1 DEF IInv, InOrder, AccessedStep
<1>4. ASSUME pol.kind = "LRU" PROVE Ordered(pol'.state.list, usedSince')
  <2>1. IsQueue(pol.state.list, Pages, Frames) /\ Tracked(pol) = ToSet(pol.state.list)
    BY <1>1, <1>4, StateByKind DEF IsLru
  <2>2. Ordered(pol.state.list, usedSince)
    BY <1>4 DEF IInv, InOrder
  <2>3. IsTracked(pol, p, f) <=> Pair(p, f) \in Tracked(pol)
    BY DEF IsTracked, Pair
  <2>4. pol'.state.list = IF IsTracked(pol, p, f)
                          THEN Append(RemoveFirst(pol.state.list, Pair(p, f)), Pair(p, f))
                          ELSE pol.state.list
    BY <1>1, <1>4, <2>3, QueueAfterAccess
  <2>5. usedSince' = IF IsTracked(pol, p, f) THEN MostRecent(usedSince, p) ELSE usedSince
    BY DEF AccessedStep
  <2> QED
    BY <2>1, <2>2, <2>3, <2>4, <2>5, OrderMoveToEnd, MostRecentRenews
<1>5. ASSUME pol.kind = "OPTIMAL" PROVE Ordered(pol'.state.resident, loadedSince')
  <2>1. pol'.state.resident = pol.state.resident
    BY <1>1, <1>5, QueueAfterAccess
  <2> QED
    BY <1>5, <2>1 DEF IInv, InOrder, AccessedStep
<1> QED
  BY <1>2, <1>3, <1>4, <1>5 DEF IInv, InOrder

(* A removal keeps the order of the entries that stay. *)
LEMMA RemovedKeepsOrder ==
  ASSUME IInv, NEW p \in Pages, NEW f \in Frames, RemovedStep(p, f)
  PROVE  IInv'
<1>1. /\ IsPolicy(pol, Pages, Frames) /\ pol' = PageRemoved(pol, p, f)
      /\ usedSince' = usedSince /\ loadedSince' = loadedSince
  BY DEF IInv, RemovedStep
<1>2. IsPolicy(pol', Pages, Frames) /\ pol'.kind = pol.kind
  BY <1>1, PolicyPageRemoved
<1>3. ASSUME pol.kind = "FIFO" PROVE Ordered(pol'.state, loadedSince')
  <2>1. pol'.state = RemoveFirst(pol.state, Pair(p, f)) /\ IsQueue(pol.state, Pages, Frames)
    BY <1>1, <1>3, QueueAfterRemoval, StateByKind
  <2> QED
    BY <1>1, <1>3, <2>1, OrderRemove DEF IInv, InOrder
<1>4. ASSUME pol.kind = "LRU" PROVE Ordered(pol'.state.list, usedSince')
  <2>1. pol'.state.list = RemoveFirst(pol.state.list, Pair(p, f))
    BY <1>1, <1>4, QueueAfterRemoval
  <2>2. IsQueue(pol.state.list, Pages, Frames)
    BY <1>1, <1>4, StateByKind DEF IsLru
  <2> QED
    BY <1>1, <1>4, <2>1, <2>2, OrderRemove DEF IInv, InOrder
<1>5. ASSUME pol.kind = "OPTIMAL" PROVE Ordered(pol'.state.resident, loadedSince')
  <2>1. pol'.state.resident = RemoveFirst(pol.state.resident, Pair(p, f))
    BY <1>1, <1>5, QueueAfterRemoval
  <2>2. IsQueue(pol.state.resident, Pages, Frames)
    BY <1>1, <1>5, StateByKind DEF IsOptimal
  <2> QED
    BY <1>1, <1>5, <2>1, <2>2, OrderRemove DEF IInv, InOrder
<1> QED
  BY <1>2, <1>3, <1>4, <1>5 DEF IInv, InOrder

(* Choosing a victim removes nothing and moves no queue. *)
LEMMA ChoiceKeepsOrder ==
  ASSUME IInv, ChooseStep
  PROVE  IInv'
<1>1. /\ IsPolicy(pol, Pages, Frames) /\ pol' = AfterChoice(pol)
      /\ usedSince' = usedSince /\ loadedSince' = loadedSince
  BY DEF IInv, ChooseStep
<1>2. IsPolicy(pol', Pages, Frames) /\ pol'.kind = pol.kind
  BY <1>1, PolicyAfterChoice
<1>3. pol.kind # "CLOCK" => pol'.state = pol.state
  BY <1>1, QueueAfterChoice
<1>4. InOrder'
  BY <1>1, <1>2, <1>3 DEF IInv, InOrder
<1> QED
  BY <1>2, <1>4 DEF IInv

(* Counting a dirty eviction touches only its counter. *)
LEMMA DirtyEvictionKeepsOrder ==
  ASSUME IInv, DirtyEvictionStep
  PROVE  IInv'
<1>1. /\ IsPolicy(pol, Pages, Frames) /\ pol' = RecordDirtyEviction(pol)
      /\ usedSince' = usedSince /\ loadedSince' = loadedSince
  BY DEF IInv, DirtyEvictionStep
<1>2. IsPolicy(pol', Pages, Frames) /\ pol'.kind = pol.kind /\ pol'.state = pol.state
  BY <1>1, PolicyRecordDirtyEviction
<1>3. InOrder'
  BY <1>1, <1>2 DEF IInv, InOrder
<1> QED
  BY <1>2, <1>3 DEF IInv

(* reset() leaves the policy as it was built. *)
LEMMA ResetKeepsOrder ==
  ASSUME IInv, ResetStep
  PROVE  IInv'
<1>1. pol.kind \in PolicyKinds /\ pol' = NewPolicy(pol.kind)
  BY DEF IInv, ResetStep, ResetPolicy, IsPolicy, IsStateOf
<1>2. IsPolicy(pol', Pages, Frames) /\ pol'.kind = pol.kind
  BY <1>1, PolicyNew
<1>3. InOrder'
  BY <1>1, <1>2, NewInOrder DEF InOrder
<1> QED
  BY <1>2, <1>3 DEF IInv

(* A new reference string leaves Optimal's residents in the order of their
   loads. *)
LEMMA SetReferencesKeepsOrder ==
  ASSUME IInv, NEW references \in References, SetReferencesStep(references)
  PROVE  IInv'
<1>1. /\ IsPolicy(pol, Pages, Frames) /\ pol.kind = "OPTIMAL"
      /\ pol' = SetReferenceSequence(pol, references)
      /\ usedSince' = usedSince /\ loadedSince' = loadedSince
      /\ Len(references) \in Nat
  BY ReferencesAssumption DEF IInv, SetReferencesStep
<1>2. /\ IsPolicy(pol', Pages, Frames) /\ pol'.kind = pol.kind
      /\ pol'.state.resident = pol.state.resident
  BY <1>1, PolicySetReferences
<1>3. InOrder'
  BY <1>1, <1>2 DEF IInv, InOrder
<1> QED
  BY <1>2, <1>3 DEF IInv

(* Every call keeps the invariant. *)
LEMMA NextInOrder == IInv /\ [Next]_vars => IInv'
<1> SUFFICES ASSUME IInv, [Next]_vars PROVE IInv'
  OBVIOUS
<1>1. ASSUME NEW p \in Pages, NEW f \in Frames, LoadedStep(p, f) PROVE IInv'
  BY <1>1, LoadedKeepsOrder
<1>2. ASSUME NEW p \in Pages, NEW f \in Frames, AccessedStep(p, f) PROVE IInv'
  BY <1>2, AccessedKeepsOrder
<1>3. ASSUME NEW p \in Pages, NEW f \in Frames, RemovedStep(p, f) PROVE IInv'
  BY <1>3, RemovedKeepsOrder
<1>4. CASE ChooseStep
  BY <1>4, ChoiceKeepsOrder
<1>5. CASE DirtyEvictionStep
  BY <1>5, DirtyEvictionKeepsOrder
<1>6. CASE ResetStep
  BY <1>6, ResetKeepsOrder
<1>7. ASSUME NEW references \in References, SetReferencesStep(references) PROVE IInv'
  BY <1>7, SetReferencesKeepsOrder
<1>8. CASE UNCHANGED vars
  BY <1>8 DEF vars, IInv, InOrder
<1> QED
  BY <1>1, <1>2, <1>3, <1>4, <1>5, <1>6, <1>7, <1>8 DEF Next

(* In every reachable state the policy is a well-formed object of its      *)
(* class and its queue runs in the order of the calls: load order for FIFO *)
(* and Optimal, order of use for LRU.                                      *)
THEOREM PoliciesInOrder == Spec => []IInv
<1> QED
  BY InitInOrder, NextInOrder, PTL DEF Spec

-----------------------------------------------------------------------------
(***************************************************************************)
(* The policies that decide by a queue.                                    *)
(***************************************************************************)

(* A queue names each of its pairs once. *)
LEMMA QueueCardinality ==
  ASSUME NEW q, IsQueue(q, Pages, Frames)
  PROVE  Cardinality(ToSet(q)) = Len(q)
<1> DEFINE g == [i \in 1 .. Len(q) |-> q[i]]
<1>1. /\ Len(q) \in Nat
      /\ ToSet(q) = {q[i] : i \in 1 .. Len(q)}
      /\ \A i, j \in 1 .. Len(q) : q[i] = q[j] => i = j
  BY QueueElements
<1>2. g \in Bijection(1 .. Len(q), ToSet(q))
  BY <1>1 DEF Bijection, Injection, Surjection, IsInjective
<1>3. ExistsBijection(1 .. Len(q), ToSet(q))
  BY <1>2 DEF ExistsBijection
<1> QED
  BY <1>1, <1>3, FS_CountingElements

(* The page of the victim, and the pages that stay, by the place of the    *)
(* victim in the queue.                                                    *)
LEMMA VictimInQueue ==
  ASSUME NEW q, IsQueue(q, Pages, Frames), Tracked(pol) = ToSet(q),
         NEW k \in 1 .. Len(q), Victim(pol) = q[k].frame
  PROVE  /\ VictimPage = q[k].page
         /\ \A r \in OtherTracked : \E i \in 1 .. Len(q) : i # k /\ r = q[i].page
<1>1. ToSet(q) = {q[i] : i \in 1 .. Len(q)}
  BY QueueElements
<1>2. q[k] \in Tracked(pol) /\ q[k].frame = Victim(pol)
  BY <1>1
<1> DEFINE e == CHOOSE e \in Tracked(pol) : e.frame = Victim(pol)
<1>3. e \in Tracked(pol) /\ e.frame = Victim(pol)
  BY <1>2
<1>4. e = q[k]
  <2> HIDE DEF e
  <2>1. PICK i \in 1 .. Len(q) : e = q[i]
    BY <1>1, <1>3
  <2>2. i = k
    BY <1>3, <2>1 DEF IsQueue, Distinct
  <2> QED
    BY <2>1, <2>2
<1>5. VictimPage = q[k].page
  BY <1>4 DEF VictimPage
<1>6. ASSUME NEW r \in OtherTracked PROVE \E i \in 1 .. Len(q) : i # k /\ r = q[i].page
  <2>1. PICK d \in Tracked(pol) : r = d.page
    BY DEF OtherTracked
  <2>2. PICK i \in 1 .. Len(q) : d = q[i]
    BY <1>1
  <2>3. r # q[k].page
    BY <1>5 DEF OtherTracked
  <2> QED
    BY <2>1, <2>2, <2>3
<1> QED
  BY <1>5, <1>6

(* The maps of LRU agree with its list. *)
LEMMA OrderGivesMaps == IInv => LruMapsMatchList
<1> SUFFICES ASSUME IInv, pol.kind = "LRU"
             PROVE  /\ pol.state.byPage = Tracked(pol)
                    /\ pol.state.byFrame = Tracked(pol)
                    /\ Cardinality(Tracked(pol)) = Len(pol.state.list)
  BY DEF LruMapsMatchList
<1>1. IsLru(pol.state, Pages, Frames) /\ Tracked(pol) = ToSet(pol.state.list)
  BY StateByKind DEF IInv
<1>2. IsQueue(pol.state.list, Pages, Frames)
  BY <1>1 DEF IsLru
<1> QED
  BY <1>1, <1>2, QueueCardinality DEF IsLru

(* The front of LRU's list is the least recently used entry. *)
LEMMA OrderGivesLruVictim == IInv => LruVictimLeastRecentlyUsed
<1> SUFFICES ASSUME IInv, pol.kind = "LRU", HasVictim(pol), NEW r \in OtherTracked
             PROVE  <<r, VictimPage>> \in usedSince
  BY DEF LruVictimLeastRecentlyUsed
<1> DEFINE q == pol.state.list
<1>1. /\ IsLru(pol.state, Pages, Frames) /\ Tracked(pol) = ToSet(q)
      /\ Ordered(q, usedSince)
  BY StateByKind DEF IInv, InOrder
<1>2. IsQueue(q, Pages, Frames)
  BY <1>1 DEF IsLru
<1>3. Lru!HasVictim(pol.state) /\ Victim(pol) = Lru!Victim(pol.state)
  BY DEF HasVictim, Victim
<1>4. 1 \in 1 .. Len(q) /\ Victim(pol) = q[1].frame
  BY <1>1, <1>3, LruChoice
<1> HIDE DEF q
<1>5. /\ VictimPage = q[1].page
      /\ \E i \in 1 .. Len(q) : i # 1 /\ r = q[i].page
  BY <1>1, <1>2, <1>4, VictimInQueue
<1> QED
  BY <1>1, <1>4, <1>5 DEF Ordered

(* The front of FIFO's queue is the entry loaded first. *)
LEMMA OrderGivesFifoVictim == IInv => FifoVictimLoadedFirst
<1> SUFFICES ASSUME IInv, pol.kind = "FIFO", HasVictim(pol), NEW r \in OtherTracked
             PROVE  <<r, VictimPage>> \in loadedSince
  BY DEF FifoVictimLoadedFirst
<1> DEFINE q == pol.state
<1>1. IsQueue(q, Pages, Frames) /\ Tracked(pol) = ToSet(q) /\ Ordered(q, loadedSince)
  BY StateByKind DEF IInv, InOrder
<1>2. Fifo!HasVictim(q) /\ Victim(pol) = Fifo!Victim(q)
  BY DEF HasVictim, Victim
<1>3. 1 \in 1 .. Len(q) /\ Victim(pol) = q[1].frame
  BY <1>1, <1>2, FifoChoice
<1> HIDE DEF q
<1>4. /\ VictimPage = q[1].page
      /\ \E i \in 1 .. Len(q) : i # 1 /\ r = q[i].page
  BY <1>1, <1>3, VictimInQueue
<1> QED
  BY <1>1, <1>3, <1>4 DEF Ordered

(* The distance the property speaks of is the one the scan compares. *)
LEMMA DistanceIsNextUse ==
  ASSUME IsOptimal(pol.state, Pages, Frames), NEW p
  PROVE  Distance(p) = Optimal!NextUse(pol.state, p) /\ Distance(p) \in Nat
<1> DEFINE s      == pol.state
           future == {i \in s.position + 1 .. Len(s.references) : s.references[i] = p}
           n      == Optimal!NextUse(s, p)
<1>1. /\ n \in Nat
      /\ n \in future \cup {Len(s.references) + 1}
      /\ \A i \in future : n <= i
      /\ n <= Len(s.references) + 1
  BY NextUseNatural
<1>2. s.position \in Nat /\ Len(s.references) \in Nat
  BY DEF IsOptimal
<1>3. Distance(p) = IF future = {} THEN Len(s.references) + 1
                    ELSE CHOOSE i \in future : \A j \in future : i <= j
  BY DEF Distance
<1> HIDE DEF n
<1>4. CASE future = {}
  BY <1>1, <1>3, <1>4 DEF n
<1>5. CASE future # {}
  <2>1. \A i \in future : i \in Nat /\ i <= Len(s.references)
    BY <1>2
  <2> HIDE DEF future
  <2>2. n \in future
    <3>1. PICK i \in future : TRUE
      BY <1>5
    <3>2. n <= i /\ i <= Len(s.references) /\ i \in Nat
      BY <1>1, <2>1, <3>1
    <3> HIDE DEF s
    <3>3. n # Len(s.references) + 1
      BY <1>1, <1>2, <3>2
    <3> QED
      BY <1>1, <3>3
  <2> DEFINE c == CHOOSE i \in future : \A j \in future : i <= j
  <2>3. c \in future /\ \A j \in future : c <= j
    BY <1>1, <2>2
  <2> HIDE DEF c
  <2>4. c = n
    BY <1>1, <2>1, <2>2, <2>3
  <2> QED
    BY <1>1, <1>3, <1>5, <2>4 DEF c, n
<1> QED
  BY <1>4, <1>5

(* The scan of Optimal's residents finds the entry whose next use is
   farthest. *)
LEMMA OrderGivesOptimalVictim == IInv => OptimalVictimFarthest
<1> SUFFICES ASSUME IInv, pol.kind = "OPTIMAL", HasVictim(pol), NEW r \in OtherTracked
             PROVE  \/ Distance(r) < Distance(VictimPage)
                    \/ /\ Distance(r) = Distance(VictimPage)
                       /\ <<r, VictimPage>> \in loadedSince
  BY DEF OptimalVictimFarthest
<1> DEFINE s == pol.state
           q == s.resident
<1>1. /\ IsOptimal(s, Pages, Frames) /\ Tracked(pol) = ToSet(q)
      /\ Ordered(q, loadedSince)
  BY StateByKind DEF IInv, InOrder
<1>2. IsQueue(q, Pages, Frames)
  BY <1>1 DEF IsOptimal
<1>3. q # <<>> /\ Victim(pol) = Optimal!Victim(s)
  BY DEF HasVictim, Victim, Optimal!HasVictim
<1>4. PICK j : FarthestAmong(s, j, Len(q)) /\ Victim(pol) = q[j].frame
  BY <1>1, <1>3, OptimalVictim
<1>5. j \in 1 .. Len(q)
  BY <1>4 DEF FarthestAmong
<1> HIDE DEF q
<1>6. VictimPage = q[j].page
  BY <1>1, <1>2, <1>4, <1>5, VictimInQueue
<1>7. PICK i \in 1 .. Len(q) : i # j /\ r = q[i].page
  BY <1>1, <1>2, <1>4, <1>5, VictimInQueue
<1> DEFINE mine == Optimal!NextUse(s, q[j].page)
           its  == Optimal!NextUse(s, q[i].page)
<1>8. its <= mine /\ (i < j => its < mine)
  BY <1>4 DEF FarthestAmong, q
<1>9. /\ Distance(VictimPage) = mine /\ mine \in Nat
      /\ Distance(r) = its /\ its \in Nat
  BY <1>1, <1>6, <1>7, DistanceIsNextUse
<1>10. j < i => <<r, VictimPage>> \in loadedSince
  BY <1>1, <1>5, <1>6, <1>7 DEF Ordered
<1> HIDE DEF mine, its
<1> QED
  BY <1>5, <1>7, <1>8, <1>9, <1>10

-----------------------------------------------------------------------------
(***************************************************************************)
(* The clock.                                                              *)
(***************************************************************************)

(* Counting round the circle once is reducing modulo its length. *)
LEMMA WrapIsModulo ==
  ASSUME NEW n \in Nat \ {0}, NEW a \in 0 .. 2 * n - 1
  PROVE  a % n = Wrap(a, n)
<1>1. CASE a < n
  <2>1. a % n = a
    BY <1>1
  <2> QED
    BY <1>1, <2>1 DEF Wrap
<1>2. CASE ~(a < n)
  <2> DEFINE b == a - n
  <2>1. b \in 0 .. n - 1 /\ a = b + n
    BY <1>2
  <2>2. (b + n) % n = b
    BY <2>1
  <2> QED
    BY <1>2, <2>1, <2>2 DEF Wrap
<1> QED
  BY <1>1, <1>2

(* One step further round the circle. *)
LEMMA WrapAgain ==
  ASSUME NEW n \in Nat \ {0}, NEW a \in 0 .. 2 * n - 1
  PROVE  (a + 1) % n = Wrap(Wrap(a, n) + 1, n)
<1>1. CASE a + 1 < 2 * n
  <2>1. (a + 1) % n = Wrap(a + 1, n)
    BY <1>1, WrapIsModulo
  <2> QED
    BY <1>1, <2>1 DEF Wrap
<1>2. CASE a + 1 = 2 * n
  <2>1. (a + 1) % n = 0
    <3>1. n % n = 0
      BY WrapIsModulo DEF Wrap
    <3>2. (n + n) % n = n % n
      OBVIOUS
    <3>3. a + 1 = n + n
      BY <1>2
    <3> QED
      BY <3>1, <3>2, <3>3
  <2> QED
    BY <1>2, <2>1 DEF Wrap
<1> QED
  BY <1>1, <1>2

(* The property's positions and its count of entries passed over are those *)
(* of the scan.                                                            *)
LEMMA ClockPositions ==
  ASSUME IsClock(pol.state, Pages, Frames), pol.state.ring # <<>>
  PROVE  /\ \A k \in 0 .. Len(pol.state.ring) : ClockAt(k) = PositionAt(pol.state, k)
         /\ ClockPassed \in 0 .. Len(pol.state.ring)
         /\ StopsAt(pol.state, ClockPassed)
<1> DEFINE s == pol.state
           L == Len(s.ring)
<1>1. L \in Nat \ {0} /\ s.hand \in Nat /\ s.hand < L
  BY ClockFields DEF IsClock
<1>2. ASSUME NEW k \in 0 .. L PROVE ClockAt(k) = PositionAt(s, k)
  <2> DEFINE a == s.hand + k
  <2>1. a \in 0 .. 2 * L - 1
    BY <1>1
  <2>2. a % L = Wrap(a, L)
    <3> HIDE DEF L, a
    <3> QED
      BY <1>1, <2>1, WrapIsModulo
  <2> QED
    BY <2>2 DEF ClockAt, PositionAt
<1> DEFINE clear == {k \in 0 .. L - 1 : ~s.ring[ClockAt(k)].bit}
           m     == IF clear = {} THEN L ELSE CHOOSE k \in clear : \A j \in clear : k <= j
<1>3. ClockPassed = m
  BY DEF ClockPassed
<1>4. clear \in SUBSET Nat
  BY <1>1
<1>5. clear # {} => \E k \in clear : \A j \in clear : k <= j
  <2> HIDE DEF clear
  <2> QED
    BY <1>4, LeastNatural
<1>6. /\ clear = {} => m = L
      /\ clear # {} => m \in clear /\ \A j \in clear : m <= j
  <2> HIDE DEF clear
  <2> QED
    BY <1>5
<1> HIDE DEF m
<1>7. m \in 0 .. L
  BY <1>1, <1>6
<1>8. \A k \in 0 .. L - 1 : k \in clear <=> ~s.ring[PositionAt(s, k)].bit
  BY <1>1, <1>2
<1> HIDE DEF clear, L
<1>9. \A k \in 0 .. m - 1 : s.ring[PositionAt(s, k)].bit
  <2> SUFFICES ASSUME NEW k \in 0 .. m - 1 PROVE k \notin clear
    BY <1>1, <1>7, <1>8
  <2>1. k \in Nat /\ ~(m <= k) /\ (clear # {} => \A j \in clear : m <= j)
    BY <1>6, <1>7, <1>1
  <2> QED
    BY <2>1
<1>10. m < L => ~s.ring[PositionAt(s, m)].bit
  <2> SUFFICES ASSUME m < L PROVE m \in clear
    BY <1>1, <1>7, <1>8
  <2> QED
    BY <1>1, <1>6, <1>7
<1> QED
  BY <1>2, <1>3, <1>7, <1>9, <1>10 DEF StopsAt, L

(* The scan of Clock's ring stops at the first entry, from the hand,
   without its reference bit. *)
LEMMA InvariantGivesSecondChance == IInv => ClockScanIsSecondChance
<1> SUFFICES ASSUME IInv, pol.kind = "CLOCK", pol.state.ring # <<>>
             PROVE  ClockScanIsSecondChance
  BY DEF ClockScanIsSecondChance
<1> DEFINE s == pol.state
           L == Len(s.ring)
           m == ClockPassed
           after  == AfterChoice(pol).state
           passed == {ClockAt(k) : k \in 0 .. ClockPassed - 1}
<1>1. IsClock(s, Pages, Frames)
  BY StateByKind DEF IInv
<1>2. L \in Nat \ {0} /\ s.hand \in Nat /\ s.hand < L
  BY <1>1, ClockFields DEF IsClock
<1>3. /\ \A k \in 0 .. L : ClockAt(k) = PositionAt(s, k)
      /\ m \in 0 .. L
      /\ StopsAt(s, m)
  BY <1>1, ClockPositions
<1>4. /\ HasVictim(pol) = Clock!HasVictim(s)
      /\ Victim(pol) = Clock!Victim(s)
  BY DEF HasVictim, Victim
<1>5. after = Clock!AfterChoice(s)
  BY DEF AfterChoice, IInv, IsPolicy
<1> HIDE DEF after
<1>6. /\ Clock!HasVictim(s)
      /\ Clock!AfterChoice(s).ring = PassedOver(s, m).ring
      /\ Clock!AfterChoice(s).hand = Wrap(Wrap(s.hand + m, L) + 1, L)
  <2>1. /\ Clock!HasVictim(s)
        /\ Clock!AfterChoice(s).ring = PassedOver(s, m).ring
        /\ Clock!AfterChoice(s).hand = Wrap(Wrap(s.hand + m, Len(s.ring)) + 1, Len(s.ring))
        /\ IsClock(Clock!AfterChoice(s), Pages, Frames)
        /\ Clock!Tracked(Clock!AfterChoice(s)) = Clock!Tracked(s)
    <3>1. s.ring # <<>>
      OBVIOUS
    <3> HIDE DEF s, m
    <3> QED
      BY <1>1, <1>3, <3>1, ClockChoice
  <2> QED
    BY <2>1
<1>7. Clock!Victim(s) = s.ring[PositionAt(s, m)].frame
  BY <1>1, <1>3, ClockVictim DEF FrameAt
<1>8. after.hand + 1 = ClockAt(m + 1)
  <2> DEFINE a == s.hand + m
  <2>1. a \in 0 .. 2 * L - 1 /\ s.hand + (m + 1) = a + 1
    BY <1>2, <1>3
  <2>2. (a + 1) % L = Wrap(Wrap(a, L) + 1, L)
    <3> HIDE DEF a, L
    <3> QED
      BY <1>2, <2>1, WrapAgain
  <2>3. after.hand = Wrap(Wrap(a, L) + 1, L)
    BY <1>5, <1>6
  <2>4. ClockAt(m + 1) = ((a + 1) % L) + 1
    BY <2>1 DEF ClockAt
  <2> QED
    BY <2>2, <2>3, <2>4
<1>9. /\ Len(after.ring) = L
      /\ \A i \in 1 .. L : after.ring[i] = [s.ring[i] EXCEPT !.bit = i \notin passed /\ @]
  <2> DEFINE t == PassedOver(s, m).ring
  <2>1. after.ring = t
    BY <1>5, <1>6
  <2>2. Len(t) = L
    BY <1>1, <1>3, PassedOverFields
  <2>3. ASSUME NEW i \in 1 .. L
        PROVE  t[i] = [s.ring[i] EXCEPT !.bit = i \notin passed /\ @]
    <3>1. (\A k \in 0 .. m - 1 : PositionAt(s, k) # i) <=> i \notin passed
      BY <1>2, <1>3
    <3>2. t[i] = [s.ring[i] EXCEPT !.bit = @ /\ \A k \in 0 .. m - 1 : PositionAt(s, k) # i]
      BY DEF PassedOver
    <3>3. s.ring[i].bit \in BOOLEAN
      BY <1>1, ClockFields
    <3> DEFINE b == s.ring[i].bit /\ \A k \in 0 .. m - 1 : PositionAt(s, k) # i
               c == i \notin passed /\ s.ring[i].bit
    <3>4. b = c
      BY <3>1, <3>3
    <3>5. t[i] = [s.ring[i] EXCEPT !.bit = b]
      BY <3>2
    <3> HIDE DEF t, b, c, passed
    <3>6. t[i] = [s.ring[i] EXCEPT !.bit = c]
      BY <3>4, <3>5
    <3> QED
      BY <3>6 DEF c
  <2> HIDE DEF t
  <2> QED
    BY <2>1, <2>2, <2>3
<1>10. HasVictim(pol) /\ Victim(pol) = s.ring[ClockAt(m)].frame
  BY <1>3, <1>4, <1>6, <1>7
<1> HIDE DEF s, L, m, passed
<1> QED
  BY <1>8, <1>9, <1>10 DEF ClockScanIsSecondChance, s, m, after, passed

(* The entry at the hand after a removal. *)
LEMMA HandAfterRemovalEntry ==
  ASSUME NEW s, IsClock(s, Pages, Frames), NEW i \in 1 .. Len(s.ring), Len(s.ring) > 1
  PROVE  ClockHandEntry(ClockWithout(s, i)) =
           IF i = s.hand + 1 THEN s.ring[PositionAt(s, 1)] ELSE ClockHandEntry(s)
<1> DEFINE L == Len(s.ring)
           h == s.hand
           n == ClockWithout(s, i)
<1>1. L \in Nat /\ L > 1 /\ h \in Nat /\ h < L
  BY ClockFields DEF IsClock
<1>2. /\ n.hand = Clock!HandAfterRemoval(h, i - 1, L - 1)
      /\ \A j \in 1 .. L - 1 : n.ring[j] = IF j < i THEN s.ring[j] ELSE s.ring[j + 1]
  <2>1. /\ IsClock(n, Pages, Frames)
        /\ Len(n.ring) = Len(s.ring) - 1
        /\ n.hand = Clock!HandAfterRemoval(s.hand, i - 1, Len(s.ring) - 1)
        /\ \A j \in 1 .. Len(s.ring) - 1 :
             n.ring[j] = IF j < i THEN s.ring[j] ELSE s.ring[j + 1]
        /\ Clock!Tracked(n) =
             Clock!Tracked(s) \ {Pair(s.ring[i].page, s.ring[i].frame)}
    BY ClockRemoval
  <2> HIDE DEF n
  <2> QED
    BY <2>1
<1>3. n.hand = IF i - 1 < h THEN h - 1
               ELSE IF i - 1 = h /\ h >= L - 1 THEN 0
               ELSE h
  BY <1>1, <1>2 DEF Clock!HandAfterRemoval
<1> HIDE DEF L, h, n
<1>4. PositionAt(s, 1) = IF h + 1 < L THEN h + 2 ELSE 1
  BY <1>1 DEF PositionAt, Wrap, h, L
<1>5. ClockHandEntry(n) = n.ring[n.hand + 1] /\ ClockHandEntry(s) = s.ring[h + 1]
  BY DEF ClockHandEntry, h
<1>6. CASE i - 1 < h
  <2>1. n.hand + 1 = h /\ h \in 1 .. L - 1 /\ ~(h < i) /\ i # h + 1
    BY <1>1, <1>3, <1>6 DEF L
  <2>2. n.ring[h] = s.ring[h + 1]
    BY <1>2, <2>1
  <2> QED
    BY <1>5, <2>1, <2>2 DEF n, h
<1>7. CASE i - 1 = h /\ h >= L - 1
  <2>1. n.hand + 1 = 1 /\ 1 \in 1 .. L - 1 /\ 1 < i /\ i = h + 1 /\ ~(h + 1 < L)
    BY <1>1, <1>3, <1>7 DEF L
  <2>2. n.ring[1] = s.ring[1]
    BY <1>2, <2>1
  <2> QED
    BY <1>4, <1>5, <2>1, <2>2 DEF n, h
<1>8. CASE i - 1 = h /\ ~(h >= L - 1)
  <2>1. n.hand + 1 = h + 1 /\ h + 1 \in 1 .. L - 1 /\ ~(h + 1 < i) /\ i = h + 1 /\ h + 1 < L
    BY <1>1, <1>3, <1>8 DEF L
  <2>2. n.ring[h + 1] = s.ring[h + 2]
    <3>1. n.ring[h + 1] = s.ring[(h + 1) + 1]
      BY <1>2, <2>1
    <3>2. (h + 1) + 1 = h + 2
      BY <1>1
    <3> QED
      BY <3>1, <3>2
  <2> QED
    BY <1>4, <1>5, <2>1, <2>2 DEF n, h
<1>9. CASE i - 1 > h
  <2>1. n.hand + 1 = h + 1 /\ h + 1 \in 1 .. L - 1 /\ h + 1 < i /\ i # h + 1
    BY <1>1, <1>3, <1>9 DEF L
  <2>2. n.ring[h + 1] = s.ring[h + 1]
    BY <1>2, <2>1
  <2> QED
    BY <1>5, <2>1, <2>2 DEF n, h
<1> QED
  BY <1>1, <1>6, <1>7, <1>8, <1>9

(* After a removal the hand is at the entry it was at, or at the next one
   when that entry was removed. *)
LEMMA RemovalKeepsHand ==
  ASSUME IInv, NEW p \in Pages, NEW f \in Frames,
         pol.kind = "CLOCK", RemovedStep(p, f), Tracked(pol') # {}
  PROVE  ClockHandEntry(pol'.state) =
           IF [page |-> p, frame |-> f] = [page  |-> ClockHandEntry(pol.state).page,
                                           frame |-> ClockHandEntry(pol.state).frame]
           THEN pol.state.ring[ClockAt(1)]
           ELSE ClockHandEntry(pol.state)
<1> DEFINE s == pol.state
           n == pol'.state
           L == Len(s.ring)
           k == s.hand + 1
<1>1. IsPolicy(pol, Pages, Frames) /\ pol' = PageRemoved(pol, p, f)
  BY DEF IInv, RemovedStep
<1>2. IsClock(s, Pages, Frames) /\ Tracked(pol) = Clock!Tracked(s)
  BY <1>1, StateByKind
<1>3. n = Clock!PageRemoved(s, p, f)
  BY <1>1 DEF PageRemoved, IsPolicy
<1>4. Tracked(pol') = Clock!Tracked(s) \ {Pair(p, f)}
  BY <1>1, <1>2, PolicyPageRemoved
<1>5. s.ring # <<>>
  BY <1>2, <1>4, ClockTrackedPairs
<1>6. k \in 1 .. L /\ L \in Nat
  BY <1>2, <1>5, ClockFields
<1>7. ClockAt(1) = PositionAt(s, 1)
  BY <1>2, <1>5, <1>6, ClockPositions
<1>8. [page |-> p, frame |-> f] = [page |-> s.ring[k].page, frame |-> s.ring[k].frame]
        <=> s.ring[k].page = p /\ s.ring[k].frame = f
  OBVIOUS
<1>9. ClockHandEntry(s) = s.ring[k]
  BY DEF ClockHandEntry
<1>10. CASE Pair(p, f) \notin Clock!Tracked(s)
  <2>1. n = s
    BY <1>2, <1>3, <1>10, ClockPageRemoved
  <2>2. ~(s.ring[k].page = p /\ s.ring[k].frame = f)
    BY <1>2, <1>6, <1>10, ClockPairTracked
  <2> HIDE DEF s, n, k
  <2>3. ClockHandEntry(n) = IF s.ring[k].page = p /\ s.ring[k].frame = f
                            THEN s.ring[ClockAt(1)] ELSE ClockHandEntry(s)
    BY <2>1, <2>2
  <2> QED
    BY <1>8, <1>9, <2>3 DEF s, n
<1>11. CASE Pair(p, f) \in Clock!Tracked(s)
  <2>1. PICK i \in 1 .. L : /\ s.ring[i].page = p /\ s.ring[i].frame = f
                            /\ n = ClockWithout(s, i)
    BY <1>2, <1>3, <1>11, ClockPageRemoved
  <2>2. i = k <=> s.ring[k].page = p /\ s.ring[k].frame = f
    BY <1>2, <1>6, <2>1 DEF IsClock, Distinct
  <2>3. L > 1
    <3>1. PICK e \in Clock!Tracked(s) : e # Pair(p, f)
      BY <1>4
    <3>2. PICK j \in 1 .. L : e = Pair(s.ring[j].page, s.ring[j].frame)
      BY <1>2, ClockTracked
    <3>3. j # i
      BY <2>1, <3>1, <3>2
    <3> HIDE DEF L
    <3> QED
      BY <1>6, <3>3
  <2>4. ClockHandEntry(n) = IF i = k THEN s.ring[PositionAt(s, 1)] ELSE ClockHandEntry(s)
    BY <1>2, <2>1, <2>3, HandAfterRemovalEntry
  <2> HIDE DEF s, n, k
  <2>5. ClockHandEntry(n) = IF s.ring[k].page = p /\ s.ring[k].frame = f
                            THEN s.ring[ClockAt(1)] ELSE ClockHandEntry(s)
    BY <1>7, <2>2, <2>4
  <2> QED
    BY <1>8, <1>9, <2>5 DEF s, n
<1> QED
  BY <1>10, <1>11

-----------------------------------------------------------------------------
(***************************************************************************)
(* Every policy implements the interface's promise, step by step.          *)
(***************************************************************************)

LEMMA InitKeepsContract == Init => Contract!Init
<1> SUFFICES ASSUME Init PROVE Contract!Init
  OBVIOUS
<1>1. PICK kind \in Kinds : pol = NewPolicy(kind)
  BY DEF Init
<1>2. kind \in PolicyKinds
  BY KindsAssumption
<1>3. Tracked(pol) = {}
  BY <1>1, <1>2, PolicyNew
<1> QED
  BY <1>3 DEF Contract!Init, Init

(* A load is a load of the contract, ignored exactly when the contract     *)
(* ignores it.                                                             *)
LEMMA LoadedKeepsContract ==
  ASSUME IInv, NEW p \in Pages, NEW f \in Frames, LoadedStep(p, f)
  PROVE  Contract!Load(p, f)
<1>1. pol' = PageLoaded(pol, p, f) /\ victim' = victim
  BY DEF LoadedStep
<1>2. Tracked(pol') = IF Conflicts(Tracked(pol), p, f) THEN Tracked(pol)
                      ELSE Tracked(pol) \cup {Pair(p, f)}
  <2>1. LET n == PageLoaded(pol, p, f)
        IN  /\ IsPolicy(n, Pages, Frames)
            /\ Tracked(n) = IF Conflicts(Tracked(pol), p, f) THEN Tracked(pol)
                            ELSE Tracked(pol) \cup {Pair(p, f)}
            /\ n.kind = pol.kind
            /\ n.replacements = pol.replacements /\ n.dirtyEvictions = pol.dirtyEvictions
    BY PolicyPageLoaded DEF IInv
  <2> QED
    BY <1>1, <2>1
<1> QED
  BY <1>1, <1>2 DEF Contract!Load, Conflicts, Pair

(* A removal is a removal of the contract. *)
LEMMA RemovedKeepsContract ==
  ASSUME IInv, NEW p \in Pages, NEW f \in Frames, RemovedStep(p, f)
  PROVE  Contract!Remove(p, f)
<1>1. pol' = PageRemoved(pol, p, f) /\ victim' = victim
  BY DEF RemovedStep
<1>2. Tracked(pol') = Tracked(pol) \ {Pair(p, f)}
  BY <1>1, PolicyPageRemoved DEF IInv
<1> QED
  BY <1>1, <1>2 DEF Contract!Remove, Pair

(* A choice is a choice of the contract: Clock's search, which gives up    *)
(* after two rounds, never comes back without a victim.                    *)
LEMMA ChoiceKeepsContract ==
  ASSUME IInv, ChooseStep
  PROVE  Contract!Choose
<1>1. IsPolicy(pol, Pages, Frames) /\ pol' = AfterChoice(pol)
  BY DEF IInv, ChooseStep
<1>2. Tracked(pol') = Tracked(pol)
  BY <1>1, PolicyAfterChoice
<1>3. /\ HasVictim(pol) <=> Tracked(pol) # {}
      /\ HasVictim(pol) => \E e \in Tracked(pol) : Victim(pol) = e.frame
  BY <1>1, PolicyVictim
<1>4. victim' = IF HasVictim(pol) THEN Victim(pol) ELSE NoFrame
  BY DEF ChooseStep
<1> QED
  BY <1>2, <1>3, <1>4 DEF Contract!Choose

(* The remaining calls change neither what is tracked nor the last answer, *)
(* or forget everything, as the contract lets a reset do.                  *)
LEMMA OtherCallsKeepContract ==
  ASSUME IInv
  PROVE  /\ \A p \in Pages, f \in Frames :
              AccessedStep(p, f) => UNCHANGED <<Tracked(pol), victim>>
         /\ DirtyEvictionStep => UNCHANGED <<Tracked(pol), victim>>
         /\ \A references \in References :
              SetReferencesStep(references) => UNCHANGED <<Tracked(pol), victim>>
         /\ ResetStep => Contract!Reset
<1>1. IsPolicy(pol, Pages, Frames)
  BY DEF IInv
<1>2. ASSUME NEW p \in Pages, NEW f \in Frames, AccessedStep(p, f)
      PROVE  UNCHANGED <<Tracked(pol), victim>>
  <2>1. pol' = PageAccessed(pol, p, f) /\ victim' = victim
    BY <1>2 DEF AccessedStep
  <2>2. Tracked(pol') = Tracked(pol)
    BY <1>1, <2>1, PolicyPageAccessed
  <2> QED
    BY <2>1, <2>2
<1>3. ASSUME DirtyEvictionStep PROVE UNCHANGED <<Tracked(pol), victim>>
  <2>1. pol' = RecordDirtyEviction(pol) /\ victim' = victim
    BY <1>3 DEF DirtyEvictionStep
  <2>2. Tracked(pol') = Tracked(pol)
    BY <1>1, <2>1, PolicyRecordDirtyEviction
  <2> QED
    BY <2>1, <2>2
<1>4. ASSUME NEW references \in References, SetReferencesStep(references)
      PROVE  UNCHANGED <<Tracked(pol), victim>>
  <2>1. /\ pol' = SetReferenceSequence(pol, references) /\ victim' = victim
        /\ pol.kind = "OPTIMAL" /\ Len(references) \in Nat
    BY <1>4, ReferencesAssumption DEF SetReferencesStep
  <2>2. Tracked(pol') = Tracked(pol)
    BY <1>1, <2>1, PolicySetReferences
  <2> QED
    BY <2>1, <2>2
<1>5. ASSUME ResetStep PROVE Contract!Reset
  <2>1. pol.kind \in PolicyKinds /\ pol' = NewPolicy(pol.kind) /\ victim' = victim
    BY <1>1, <1>5 DEF ResetStep, ResetPolicy, IsPolicy, IsStateOf
  <2>2. Tracked(pol') = {}
    BY <2>1, PolicyNew
  <2> QED
    BY <2>1, <2>2 DEF Contract!Reset
<1> QED
  BY <1>2, <1>3, <1>4, <1>5

(* Every call is a step, or a stutter, of the contract the policies share. *)
LEMMA NextKeepsContract ==
  IInv /\ [Next]_vars => [Contract!Next]_<<Tracked(pol), victim>>
<1> SUFFICES ASSUME IInv, [Next]_vars
             PROVE  [Contract!Next]_<<Tracked(pol), victim>>
  OBVIOUS
<1>1. ASSUME NEW p \in Pages, NEW f \in Frames, LoadedStep(p, f) PROVE Contract!Next
  BY <1>1, LoadedKeepsContract DEF Contract!Next
<1>2. ASSUME NEW p \in Pages, NEW f \in Frames, RemovedStep(p, f) PROVE Contract!Next
  BY <1>2, RemovedKeepsContract DEF Contract!Next
<1>3. ASSUME NEW p \in Pages, NEW f \in Frames, AccessedStep(p, f)
      PROVE  UNCHANGED <<Tracked(pol), victim>>
  BY <1>3, OtherCallsKeepContract
<1>4. CASE ChooseStep
  BY <1>4, ChoiceKeepsContract DEF Contract!Next
<1>5. CASE DirtyEvictionStep
  BY <1>5, OtherCallsKeepContract
<1>6. CASE ResetStep
  BY <1>6, OtherCallsKeepContract DEF Contract!Next
<1>7. ASSUME NEW references \in References, SetReferencesStep(references)
      PROVE  UNCHANGED <<Tracked(pol), victim>>
  BY <1>7, OtherCallsKeepContract
<1>8. CASE UNCHANGED vars
  <2>1. pol' = pol /\ victim' = victim
    BY <1>8 DEF vars
  <2> QED
    BY <2>1
<1> QED
  BY <1>1, <1>2, <1>3, <1>4, <1>5, <1>6, <1>7, <1>8 DEF Next

(* Whatever calls are made in whatever order, each of the four policies    *)
(* follows the residency it is told about and names a tracked frame        *)
(* exactly when there is one (IPageReplacementPolicy).                     *)
THEOREM EveryPolicyKeepsContract == Spec => KeepsContract
<1>1. Spec => Contract!Init /\ [][Contract!Next]_<<Tracked(pol), victim>>
  BY InitKeepsContract, NextKeepsContract, PoliciesInOrder, PTL DEF Spec
<1> QED
  BY <1>1 DEF KeepsContract, Contract!Spec

-----------------------------------------------------------------------------
(* The list of LRU and its two maps always describe the same pairs, each   *)
(* of them once, so no iterator dangles.                                   *)
THEOREM LruMapsAlwaysMatch == Spec => []LruMapsMatchList
<1> QED
  BY PoliciesInOrder, OrderGivesMaps, PTL

(* LRU's victim is the tracked page that has gone unused longest.          *)
THEOREM LruEvictsLeastRecentlyUsed == Spec => []LruVictimLeastRecentlyUsed
<1> QED
  BY PoliciesInOrder, OrderGivesLruVictim, PTL

(* FIFO's victim is the tracked page loaded first, whatever was accessed.  *)
THEOREM FifoEvictsFirstLoaded == Spec => []FifoVictimLoadedFirst
<1> QED
  BY PoliciesInOrder, OrderGivesFifoVictim, PTL

(* Optimal's victim is the tracked page whose next reference is farthest,  *)
(* the one loaded first among equals.                                      *)
THEOREM OptimalEvictsFarthest == Spec => []OptimalVictimFarthest
<1> QED
  BY PoliciesInOrder, OrderGivesOptimalVictim, PTL

(* Clock's bounded search is the second-chance rule, for a ring of any     *)
(* length: the scan ends within one round and the entry it stops at.       *)
THEOREM ClockGivesSecondChance == Spec => []ClockScanIsSecondChance
<1> QED
  BY PoliciesInOrder, InvariantGivesSecondChance, PTL

(* A removal leaves the clock hand at the entry it named, or at the next   *)
(* one round the circle when that entry was the one removed.               *)
THEOREM ClockHandAlwaysSurvives == Spec => ClockHandSurvivesRemoval
<1> DEFINE Survives ==
      \A p \in Pages, f \in Frames :
        (pol.kind = "CLOCK" /\ RemovedStep(p, f) /\ Tracked(pol') # {}) =>
          ClockHandEntry(pol'.state) =
            IF [page |-> p, frame |-> f] = [page  |-> ClockHandEntry(pol.state).page,
                                            frame |-> ClockHandEntry(pol.state).frame]
            THEN pol.state.ring[ClockAt(1)]
            ELSE ClockHandEntry(pol.state)
<1>1. IInv => Survives
  BY RemovalKeepsHand
<1>2. IInv /\ [Next]_vars => [Survives]_vars
  BY <1>1
<1>3. Spec => [][Survives]_vars
  BY <1>2, PoliciesInOrder, PTL DEF Spec
<1> QED
  BY <1>3 DEF ClockHandSurvivesRemoval
=============================================================================
