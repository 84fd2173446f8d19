----------------------------- MODULE FifoPolicy -----------------------------
(***************************************************************************)
(* FIFOPageReplacementPolicy.  Its state s is residencyQueue_, a sequence  *)
(* of page/frame pairs in load order.  The policy learns of residency only *)
(* through notifications and keeps no link to the memory manager.          *)
(***************************************************************************)
EXTENDS Naturals, SequencesExt

Empty == <<>>

Entry(p, f) == [page |-> p, frame |-> f]

Tracks(s, p, f) == \E i \in 1 .. Len(s) : s[i].page = p \/ s[i].frame = f

(* Faulty: contradictory loads are taken in. *)
PageLoadedUnchecked(s, p, f) == Append(s, Entry(p, f))

(* A page or a frame that is already tracked makes the load a no-op. *)
PageLoaded(s, p, f) == IF Tracks(s, p, f) THEN s ELSE Append(s, Entry(p, f))

(* Faulty: an access renews the place in the queue. *)
PageAccessedRequeues(s, p, f) ==
  IF Entry(p, f) \in ToSet(s) THEN Append(RemoveFirst(s, Entry(p, f)), Entry(p, f)) ELSE s

PageAccessed(s, p, f) == s

PageRemoved(s, p, f) == RemoveFirst(s, Entry(p, f))

HasVictim(s) == s # <<>>

Victim(s) == Head(s).frame

AfterChoice(s) == s

Tracked(s) == ToSet(s)
=============================================================================
