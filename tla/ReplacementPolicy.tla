-------------------------- MODULE ReplacementPolicy --------------------------
(***************************************************************************)
(* IPageReplacementPolicy as its clients see it: one object of one of four *)
(* kinds, with the operations dispatched on the kind and the counters of   *)
(* PageReplacementStatistics, which every kind keeps.                      *)
(*                                                                         *)
(*   pol.kind            the concrete class                                *)
(*   pol.state           its own state, see the four policy modules        *)
(*   pol.replacements    statistics_.replacementCount()                    *)
(*   pol.dirtyEvictions  statistics_.dirtyEvictionCount()                  *)
(***************************************************************************)
EXTENDS Naturals

Fifo    == INSTANCE FifoPolicy
Lru     == INSTANCE LruPolicy
Clock   == INSTANCE ClockPolicy
Optimal == INSTANCE OptimalPolicy

PolicyKinds == {"FIFO", "LRU", "CLOCK", "OPTIMAL"}

(* What the factory's creator for the kind returns. *)
NewPolicy(kind) ==
  [kind           |-> kind,
   state          |-> CASE kind = "FIFO"    -> Fifo!Empty
                        [] kind = "LRU"     -> Lru!Empty
                        [] kind = "CLOCK"   -> Clock!Empty
                        [] kind = "OPTIMAL" -> Optimal!Empty,
   replacements   |-> 0,
   dirtyEvictions |-> 0]

PageLoaded(pol, p, f) ==
  [pol EXCEPT !.state = CASE pol.kind = "FIFO"    -> Fifo!PageLoaded(@, p, f)
                          [] pol.kind = "LRU"     -> Lru!PageLoaded(@, p, f)
                          [] pol.kind = "CLOCK"   -> Clock!PageLoaded(@, p, f)
                          [] pol.kind = "OPTIMAL" -> Optimal!PageLoaded(@, p, f)]

PageAccessed(pol, p, f) ==
  [pol EXCEPT !.state = CASE pol.kind = "FIFO"    -> Fifo!PageAccessed(@, p, f)
                          [] pol.kind = "LRU"     -> Lru!PageAccessed(@, p, f)
                          [] pol.kind = "CLOCK"   -> Clock!PageAccessed(@, p, f)
                          [] pol.kind = "OPTIMAL" -> Optimal!PageAccessed(@, p, f)]

PageRemoved(pol, p, f) ==
  [pol EXCEPT !.state = CASE pol.kind = "FIFO"    -> Fifo!PageRemoved(@, p, f)
                          [] pol.kind = "LRU"     -> Lru!PageRemoved(@, p, f)
                          [] pol.kind = "CLOCK"   -> Clock!PageRemoved(@, p, f)
                          [] pol.kind = "OPTIMAL" -> Optimal!PageRemoved(@, p, f)]

HasVictim(pol) ==
  CASE pol.kind = "FIFO"    -> Fifo!HasVictim(pol.state)
    [] pol.kind = "LRU"     -> Lru!HasVictim(pol.state)
    [] pol.kind = "CLOCK"   -> Clock!HasVictim(pol.state)
    [] pol.kind = "OPTIMAL" -> Optimal!HasVictim(pol.state)

Victim(pol) ==
  CASE pol.kind = "FIFO"    -> Fifo!Victim(pol.state)
    [] pol.kind = "LRU"     -> Lru!Victim(pol.state)
    [] pol.kind = "CLOCK"   -> Clock!Victim(pol.state)
    [] pol.kind = "OPTIMAL" -> Optimal!Victim(pol.state)

(* A decision counts as a replacement as soon as it names a frame, before  *)
(* anything has been replaced.                                             *)
AfterChoice(pol) ==
  [pol EXCEPT !.state = CASE pol.kind = "FIFO"    -> Fifo!AfterChoice(@)
                          [] pol.kind = "LRU"     -> Lru!AfterChoice(@)
                          [] pol.kind = "CLOCK"   -> Clock!AfterChoice(@)
                          [] pol.kind = "OPTIMAL" -> Optimal!AfterChoice(@),
              !.replacements = IF HasVictim(pol) THEN @ + 1 ELSE @]

RecordDirtyEviction(pol) == [pol EXCEPT !.dirtyEvictions = @ + 1]

(* Everything goes, the reference sequence of Optimal included. *)
ResetPolicy(pol) == NewPolicy(pol.kind)

SetReferenceSequence(pol, references) ==
  [pol EXCEPT !.state = Optimal!SetReferenceSequence(@, references)]

(* The page/frame pairs the policy takes to be resident. *)
Tracked(pol) ==
  CASE pol.kind = "FIFO"    -> Fifo!Tracked(pol.state)
    [] pol.kind = "LRU"     -> Lru!Tracked(pol.state)
    [] pol.kind = "CLOCK"   -> Clock!Tracked(pol.state)
    [] pol.kind = "OPTIMAL" -> Optimal!Tracked(pol.state)
=============================================================================
