---------------------------- MODULE OptimalPolicy ----------------------------
(***************************************************************************)
(* OptimalPageReplacementPolicy: the resident pairs in load order and the  *)
(* future, a reference sequence with a position in it.                     *)
(*                                                                         *)
(*   s.resident    residencyCollection_                                    *)
(*   s.references  referenceSequence_                                      *)
(*   s.position    referencePosition_, an index from 0                     *)
(*                                                                         *)
(* Every entry also carries nextResidencyOrder_ when it was loaded; no     *)
(* operation reads it, and the order of the vector is the same.            *)
(***************************************************************************)
EXTENDS Naturals, SequencesExt

Empty == [resident |-> <<>>, references |-> <<>>, position |-> 0]

Entry(p, f) == [page |-> p, frame |-> f]

SetReferenceSequence(s, references) ==
  [s EXCEPT !.references = references, !.position = 0]

Tracks(s, p, f) ==
  \E i \in 1 .. Len(s.resident) : s.resident[i].page = p \/ s.resident[i].frame = f

PageLoaded(s, p, f) ==
  IF Tracks(s, p, f) THEN s ELSE [s EXCEPT !.resident = Append(@, Entry(p, f))]

(* A reported access consumes the reference at the position only if it is  *)
(* to that very page; otherwise the position stays.                        *)
PageAccessed(s, p, f) ==
  IF s.position < Len(s.references) /\ s.references[s.position + 1] = p
  THEN [s EXCEPT !.position = @ + 1]
  ELSE s

PageRemoved(s, p, f) == [s EXCEPT !.resident = RemoveFirst(@, Entry(p, f))]

(* Faulty: references already made count as the future. *)
FirstUse(s, p) ==
  Min({i \in 1 .. Len(s.references) : s.references[i] = p} \cup {Len(s.references) + 1})

(* The index of the next reference to p; one past the end when there is    *)
(* none, which is farther than every reference.                            *)
NextUse(s, p) ==
  Min({i \in s.position + 1 .. Len(s.references) : s.references[i] = p}
      \cup {Len(s.references) + 1})

HasVictim(s) == s.resident # <<>>

(* Faulty: ties go to the page loaded last. *)
VictimLoadedLast(s) ==
  LET Farther(kept, candidate) ==
        IF NextUse(s, candidate.page) >= NextUse(s, kept.page) THEN candidate ELSE kept
  IN  FoldLeft(Farther, Head(s.resident), Tail(s.resident)).frame

(* The scan keeps the entry it has unless a later one is used farther in   *)
(* the future, so ties go to the page loaded first.                        *)
Victim(s) ==
  LET Farther(kept, candidate) ==
        IF NextUse(s, candidate.page) > NextUse(s, kept.page) THEN candidate ELSE kept
  IN  FoldLeft(Farther, Head(s.resident), Tail(s.resident)).frame

AfterChoice(s) == s

Tracked(s) == ToSet(s.resident)
=============================================================================
