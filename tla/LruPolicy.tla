------------------------------ MODULE LruPolicy ------------------------------
(***************************************************************************)
(* LRUPageReplacementPolicy.  The residency list runs from the least to    *)
(* the most recently used page; two hash maps lead from a page and from a  *)
(* frame to its list node.  An iterator is represented by the page/frame   *)
(* pair of the node it designates, so each map is a set of such pairs:     *)
(*                                                                         *)
(*   s.list     residencyList_                                             *)
(*   s.byPage   pageLookup_                                                *)
(*   s.byFrame  frameLookup_                                               *)
(***************************************************************************)
EXTENDS Naturals, SequencesExt

Empty == [list |-> <<>>, byPage |-> {}, byFrame |-> {}]

Entry(p, f) == [page |-> p, frame |-> f]

(* The node found through pageLookup_ exists and carries this frame. *)
Holds(s, p, f) == \E e \in s.byPage : e.page = p /\ e.frame = f

PageLoaded(s, p, f) ==
  IF \/ \E e \in s.byPage : e.page = p
     \/ \E e \in s.byFrame : e.frame = f
  THEN s
  ELSE [list    |-> Append(s.list, Entry(p, f)),
        byPage  |-> s.byPage \cup {Entry(p, f)},
        byFrame |-> s.byFrame \cup {Entry(p, f)}]

(* Faulty: an access does not move the node. *)
PageAccessedInPlace(s, p, f) == s

(* The node is spliced to the end of the list; the maps keep their         *)
(* iterators.                                                              *)
PageAccessed(s, p, f) ==
  IF Holds(s, p, f)
  THEN [s EXCEPT !.list = Append(RemoveFirst(@, Entry(p, f)), Entry(p, f))]
  ELSE s

(* Faulty: frameLookup_ keeps the iterator of the erased node. *)
PageRemovedKeepingFrame(s, p, f) ==
  IF Holds(s, p, f)
  THEN [s EXCEPT !.list = RemoveFirst(@, Entry(p, f)),
                 !.byPage = {e \in @ : e.page # p}]
  ELSE s

PageRemoved(s, p, f) ==
  IF Holds(s, p, f)
  THEN [list    |-> RemoveFirst(s.list, Entry(p, f)),
        byPage  |-> {e \in s.byPage : e.page # p},
        byFrame |-> {e \in s.byFrame : e.frame # f}]
  ELSE s

HasVictim(s) == s.list # <<>>

Victim(s) == Head(s.list).frame

AfterChoice(s) == s

Tracked(s) == ToSet(s.list)
=============================================================================
