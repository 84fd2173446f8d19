----------------------------- MODULE PolicyCalls -----------------------------
(***************************************************************************)
(* A replacement policy under every sequence of calls its interface        *)
(* admits: duplicate and contradictory loads, accesses and removals of     *)
(* pairs it does not track, choices at any moment.  The interface states   *)
(* no order among the calls, and the unit tests make them in any order.    *)
(*                                                                         *)
(* usedSince and loadedSince are history: <<q, p>> is in usedSince when q  *)
(* was last used (loaded or accessed, as the pair the policy tracked)      *)
(* after p was, and likewise for loads.  They are kept from the calls      *)
(* alone, so that the orders the policies keep can be compared with them.  *)
(***************************************************************************)
EXTENDS Integers, FiniteSets, Sequences, ReplacementPolicy

CONSTANTS
  Kinds,              \* the kinds of policy checked
  Pages,
  Frames,
  References,         \* the sequences setReferenceSequence is given
  MaxReplacements,    \* bounds the two statistics
  MaxDirtyEvictions,
  NoFrame

ASSUME NoFrameAssumption == NoFrame \notin Frames

ASSUME KindsAssumption == Kinds \subseteq PolicyKinds

(* A reference sequence is a vector: it has a length. *)
ASSUME ReferencesAssumption == \A references \in References : Len(references) \in Nat

VARIABLES pol, victim, usedSince, loadedSince

vars == <<pol, victim, usedSince, loadedSince>>

Init ==
  /\ pol \in {NewPolicy(kind) : kind \in Kinds}
  /\ victim = NoFrame
  /\ usedSince = {}
  /\ loadedSince = {}

IsTracked(policy, p, f) == [page |-> p, frame |-> f] \in Tracked(policy)

(* p becomes the most recent of all in the relation. *)
MostRecent(relation, p) ==
  {pair \in relation : pair[2] # p /\ pair[1] # p} \cup {<<p, q>> : q \in Pages \ {p}}

LoadedStep(p, f) ==
  /\ pol' = PageLoaded(pol, p, f)
  /\ IF \E e \in Tracked(pol) : e.page = p \/ e.frame = f
     THEN UNCHANGED <<usedSince, loadedSince>>
     ELSE /\ usedSince' = MostRecent(usedSince, p)
          /\ loadedSince' = MostRecent(loadedSince, p)
  /\ UNCHANGED victim

AccessedStep(p, f) ==
  /\ pol' = PageAccessed(pol, p, f)
  /\ usedSince' = IF IsTracked(pol, p, f) THEN MostRecent(usedSince, p) ELSE usedSince
  /\ UNCHANGED <<victim, loadedSince>>

RemovedStep(p, f) ==
  /\ pol' = PageRemoved(pol, p, f)
  /\ UNCHANGED <<victim, usedSince, loadedSince>>

ChooseStep ==
  /\ pol.replacements < MaxReplacements
  /\ pol' = AfterChoice(pol)
  /\ victim' = IF HasVictim(pol) THEN Victim(pol) ELSE NoFrame
  /\ UNCHANGED <<usedSince, loadedSince>>

DirtyEvictionStep ==
  /\ pol.dirtyEvictions < MaxDirtyEvictions
  /\ pol' = RecordDirtyEviction(pol)
  /\ UNCHANGED <<victim, usedSince, loadedSince>>

ResetStep ==
  /\ pol' = ResetPolicy(pol)
  /\ usedSince' = {}
  /\ loadedSince' = {}
  /\ UNCHANGED victim

SetReferencesStep(references) ==
  /\ pol.kind = "OPTIMAL"
  /\ pol' = SetReferenceSequence(pol, references)
  /\ UNCHANGED <<victim, usedSince, loadedSince>>

Next ==
  \/ \E p \in Pages, f \in Frames :
       LoadedStep(p, f) \/ AccessedStep(p, f) \/ RemovedStep(p, f)
  \/ ChooseStep
  \/ DirtyEvictionStep
  \/ ResetStep
  \/ \E references \in References : SetReferencesStep(references)

Spec == Init /\ [][Next]_vars

-----------------------------------------------------------------------------
(***************************************************************************)
(* Every policy keeps the interface's promise, under any calls: Clock      *)
(* included, whose search gives up after two passes.                       *)
(***************************************************************************)
Contract == INSTANCE PolicyContract WITH tracked <- Tracked(pol)

KeepsContract == Contract!Spec

(***************************************************************************)
(* The list and the two hash maps of LRU, which hold iterators into it,    *)
(* describe the same pairs, and no page or frame occurs twice: otherwise a *)
(* lookup would follow an iterator to an erased node.                      *)
(***************************************************************************)
LruMapsMatchList ==
  pol.kind = "LRU" =>
    /\ pol.state.byPage = Tracked(pol)
    /\ pol.state.byFrame = Tracked(pol)
    /\ Cardinality(Tracked(pol)) = Len(pol.state.list)

VictimPage == (CHOOSE e \in Tracked(pol) : e.frame = Victim(pol)).page

OtherTracked == {e.page : e \in Tracked(pol)} \ {VictimPage}

(* LRU: every other tracked page has been used since the victim was. *)
LruVictimLeastRecentlyUsed ==
  pol.kind = "LRU" /\ HasVictim(pol) =>
    \A q \in OtherTracked : <<q, VictimPage>> \in usedSince

(* FIFO: every other tracked page was loaded after the victim was,         *)
(* whatever was accessed in between.                                       *)
FifoVictimLoadedFirst ==
  pol.kind = "FIFO" /\ HasVictim(pol) =>
    \A q \in OtherTracked : <<q, VictimPage>> \in loadedSince

(***************************************************************************)
(* Clock's loop decides what the second-chance rule says: the victim is    *)
(* the first entry from the hand on with its bit clear, or the entry at    *)
(* the hand when every bit is set; exactly the entries passed over lose    *)
(* their bits, and the hand ends one past the victim.                      *)
(***************************************************************************)
ClockAt(k) == ((pol.state.hand + k) % Len(pol.state.ring)) + 1

ClockPassed ==
  LET n     == Len(pol.state.ring)
      clear == {k \in 0 .. n - 1 : ~pol.state.ring[ClockAt(k)].bit}
  IN  IF clear = {} THEN n ELSE CHOOSE k \in clear : \A j \in clear : k <= j

ClockScanIsSecondChance ==
  pol.kind = "CLOCK" /\ pol.state.ring # <<>> =>
    /\ HasVictim(pol)
    /\ Victim(pol) = pol.state.ring[ClockAt(ClockPassed)].frame
    /\ LET after  == AfterChoice(pol).state
           passed == {ClockAt(k) : k \in 0 .. ClockPassed - 1}
       IN  /\ after.hand + 1 = ClockAt(ClockPassed + 1)
           /\ \A i \in 1 .. Len(after.ring) :
                after.ring[i] = [pol.state.ring[i] EXCEPT !.bit = i \notin passed /\ @]

(***************************************************************************)
(* "Removal of an entry cannot invalidate the circular traversal           *)
(* position": the hand goes on naming the entry it named, and when that    *)
(* entry is the one removed, the entry that followed it in the circle.     *)
(***************************************************************************)
ClockHandEntry(s) == s.ring[s.hand + 1]

ClockHandSurvivesRemoval ==
  [][\A p \in Pages, f \in Frames :
       (pol.kind = "CLOCK" /\ RemovedStep(p, f) /\ Tracked(pol') # {}) =>
          ClockHandEntry(pol'.state) =
            IF [page |-> p, frame |-> f] = [page  |-> ClockHandEntry(pol.state).page,
                                            frame |-> ClockHandEntry(pol.state).frame]
            THEN pol.state.ring[ClockAt(1)]
            ELSE ClockHandEntry(pol.state)]_vars

(***************************************************************************)
(* Optimal evicts a page whose next reference, from the current position   *)
(* on, is as far away as any tracked page's (never counts as farthest),    *)
(* and among those the one loaded first.                                   *)
(***************************************************************************)
Distance(p) ==
  LET future == {i \in pol.state.position + 1 .. Len(pol.state.references) :
                   pol.state.references[i] = p}
  IN  IF future = {} THEN Len(pol.state.references) + 1
      ELSE CHOOSE i \in future : \A j \in future : i <= j

OptimalVictimFarthest ==
  pol.kind = "OPTIMAL" /\ HasVictim(pol) =>
    \A q \in OtherTracked :
      \/ Distance(q) < Distance(VictimPage)
      \/ Distance(q) = Distance(VictimPage) /\ <<q, VictimPage>> \in loadedSince

(***************************************************************************)
(* The header of advanceReferencePosition(): "The next matching occurrence *)
(* is consumed."                                                           *)
(***************************************************************************)
ConsumesNextOccurrence ==
  [][\A p \in Pages, f \in Frames :
       pol.kind = "OPTIMAL" /\ AccessedStep(p, f) /\ Distance(p) <= Len(pol.state.references)
         => pol'.state.position = Distance(p)]_vars
=============================================================================
