---------------------------- MODULE AccessStream ----------------------------
(***************************************************************************)
(* What IWorkload promises: a fixed sequence of accesses with a position.  *)
(* Asking whether there is a next access changes nothing, nextAccess()     *)
(* delivers the one at the position or, at the end, throws, and reset()    *)
(* returns to the beginning, so that the same accesses are delivered       *)
(* again.                                                                  *)
(***************************************************************************)
EXTENDS Naturals, Sequences

VARIABLES accesses, position, answer

vars == <<accesses, position, answer>>

Init == position = 0 /\ answer = <<"none">>

HasNext ==
  /\ answer' = <<"hasNext", position < Len(accesses)>>
  /\ UNCHANGED <<accesses, position>>

NextAccess ==
  /\ position < Len(accesses)
  /\ answer' = <<"access", accesses[position + 1]>>
  /\ position' = position + 1
  /\ UNCHANGED accesses

NextAccessThrows ==
  /\ position = Len(accesses)
  /\ answer' = <<"threw">>
  /\ UNCHANGED <<accesses, position>>

Reset ==
  /\ position' = 0
  /\ answer' = <<"none">>
  /\ UNCHANGED accesses

Next == HasNext \/ NextAccess \/ NextAccessThrows \/ Reset

Spec == Init /\ [][Next]_vars
=============================================================================
