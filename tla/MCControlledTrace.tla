-------------------------- MODULE MCControlledTrace --------------------------
(* The demonstration's trace, and every trace of a given length up to a    *)
(* renaming of the pages: pages are numbered in the order of their first   *)
(* reference, since no policy looks at the number of a page.               *)
EXTENDS ControlledTrace

CONSTANT TraceLength

MCTraces ==
  {DemonstrationTrace} \cup
  {t \in [1 .. TraceLength -> Pages] :
     \A i \in 1 .. TraceLength : \A p \in 1 .. t[i] - 1 : \E j \in 1 .. i - 1 : t[j] = p}

MCRegistrations == {<<p, p, 1>> : p \in Pages}

MCAddresses == {AddressIn(p) : p \in Pages}
=============================================================================
