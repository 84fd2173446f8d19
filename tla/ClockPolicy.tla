----------------------------- MODULE ClockPolicy -----------------------------
(***************************************************************************)
(* ClockPageReplacementPolicy: a vector of page/frame pairs, each with a   *)
(* reference bit, and a hand that names the next entry to inspect.         *)
(*                                                                         *)
(*   s.ring  residencyCollection_                                          *)
(*   s.hand  clockHand_, an index from 0                                   *)
(*                                                                         *)
(* A loaded page joins at the end of the vector, wherever the victim it    *)
(* replaces was.                                                           *)
(***************************************************************************)
EXTENDS Naturals, SequencesExt

Empty == [ring |-> <<>>, hand |-> 0]

Entry(p, f) == [page |-> p, frame |-> f]

PositionsOf(s, p, f) ==
  {i \in 1 .. Len(s.ring) : s.ring[i].page = p /\ s.ring[i].frame = f}

TracksPageOrFrame(s, p, f) ==
  \E i \in 1 .. Len(s.ring) : s.ring[i].page = p \/ s.ring[i].frame = f

PageLoaded(s, p, f) ==
  IF TracksPageOrFrame(s, p, f)
  THEN s
  ELSE [ring |-> Append(s.ring, [page |-> p, frame |-> f, bit |-> TRUE]),
        hand |-> IF s.ring = <<>> THEN 0 ELSE s.hand]

PageAccessed(s, p, f) ==
  IF PositionsOf(s, p, f) = {}
  THEN s
  ELSE [s EXCEPT !.ring[Min(PositionsOf(s, p, f))].bit = TRUE]

(* Faulty: the entries that move up leave the hand behind. *)
HandLeftInPlace(hand, removed, left) == IF hand >= left THEN 0 ELSE hand

(* The hand keeps naming the entry it named; when that entry goes, it      *)
(* names the next one, wrapping past the end.                              *)
HandAfterRemoval(hand, removed, left) ==
  IF left = 0 THEN 0
  ELSE IF removed < hand THEN hand - 1
  ELSE IF removed = hand /\ hand >= left THEN 0
  ELSE hand

PageRemoved(s, p, f) ==
  IF PositionsOf(s, p, f) = {}
  THEN s
  ELSE LET i == Min(PositionsOf(s, p, f))
       IN  [ring |-> RemoveAt(s.ring, i),
            hand |-> HandAfterRemoval(s.hand, i - 1, Len(s.ring) - 1)]

AdvanceHand(s) ==
  [s EXCEPT !.hand = IF @ + 1 >= Len(s.ring) THEN 0 ELSE @ + 1]

BitAtHand(s) == s.ring[s.hand + 1].bit

(* One inspection: an entry with its bit set loses it and is passed over;  *)
(* one without stops the scan.                                             *)
Inspect(s) ==
  IF BitAtHand(s) THEN AdvanceHand([s EXCEPT !.ring[s.hand + 1].bit = FALSE]) ELSE s

(* The state in which the scan's last allowed inspection looks at an       *)
(* entry: chooseVictim gives up after twice the number of entries.         *)
ScanEnd(s) ==
  LET scan[n \in 0 .. 2 * Len(s.ring)] == IF n = 0 THEN s ELSE Inspect(scan[n - 1])
  IN  scan[2 * Len(s.ring) - 1]

HasVictim(s) == s.ring # <<>> /\ ~BitAtHand(ScanEnd(s))

Victim(s) == LET t == ScanEnd(s) IN t.ring[t.hand + 1].frame

(* Faulty: the hand stays at the victim. *)
AfterChoiceAtVictim(s) == IF s.ring = <<>> THEN s ELSE Inspect(ScanEnd(s))

(* Choosing moves the hand past the victim, which stays tracked; a scan    *)
(* that gives up has still cleared bits and moved the hand.                *)
AfterChoice(s) ==
  IF s.ring = <<>> THEN s
  ELSE IF HasVictim(s) THEN AdvanceHand(ScanEnd(s))
  ELSE Inspect(ScanEnd(s))

Tracked(s) == {Entry(s.ring[i].page, s.ring[i].frame) : i \in 1 .. Len(s.ring)}
=============================================================================
