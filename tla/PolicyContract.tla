--------------------------- MODULE PolicyContract ---------------------------
(***************************************************************************)
(* What IPageReplacementPolicy promises of every policy, whatever its      *)
(* algorithm: it follows the residency it is told about, ignoring loads    *)
(* that contradict it and removals of pairs it does not know, and a choice *)
(* names some tracked frame, without changing what is tracked, exactly     *)
(* when there is one.                                                      *)
(***************************************************************************)
CONSTANTS Pages, Frames, NoFrame

VARIABLES tracked, victim

Init == tracked = {} /\ victim = NoFrame

Load(p, f) ==
  /\ tracked' = IF \E e \in tracked : e.page = p \/ e.frame = f
                THEN tracked
                ELSE tracked \cup {[page |-> p, frame |-> f]}
  /\ UNCHANGED victim

Remove(p, f) ==
  /\ tracked' = tracked \ {[page |-> p, frame |-> f]}
  /\ UNCHANGED victim

Choose ==
  /\ \/ \E e \in tracked : victim' = e.frame
     \/ tracked = {} /\ victim' = NoFrame
  /\ UNCHANGED tracked

Reset == tracked' = {} /\ UNCHANGED victim

Next ==
  \/ \E p \in Pages, f \in Frames : Load(p, f) \/ Remove(p, f)
  \/ Choose
  \/ Reset

Spec == Init /\ [][Next]_<<tracked, victim>>
=============================================================================
