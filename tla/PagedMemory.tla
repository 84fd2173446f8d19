---------------------------- MODULE PagedMemory ----------------------------
(***************************************************************************)
(* Demand paging as IMemoryManagementUnit describes it to its clients,     *)
(* with neither frames, tables nor a replacement algorithm: which pages    *)
(* are resident, which of them have been written since they were loaded,   *)
(* and what has been counted since the last reset.                         *)
(***************************************************************************)
EXTENDS Naturals, FiniteSets

CONSTANTS Pages, NumFrames

VARIABLES resident, dirty, faults, evictions, writebacks

vars == <<resident, dirty, faults, evictions, writebacks>>

Init ==
  /\ resident = {} /\ dirty = {}
  /\ faults = 0 /\ evictions = 0 /\ writebacks = 0

Written(p, write) == IF write THEN {p} ELSE {}

Touch(p, write) ==
  /\ p \in resident
  /\ dirty' = dirty \cup Written(p, write)
  /\ UNCHANGED <<resident, faults, evictions, writebacks>>

(* A page is loaded without replacement exactly while there is room. *)
Load(p, write) ==
  /\ p \notin resident
  /\ Cardinality(resident) < NumFrames
  /\ resident' = resident \cup {p}
  /\ dirty' = dirty \cup Written(p, write)
  /\ faults' = faults + 1
  /\ UNCHANGED <<evictions, writebacks>>

Replace(p, victim, write) ==
  /\ p \notin resident /\ victim \in resident
  /\ Cardinality(resident) = NumFrames
  /\ resident' = (resident \ {victim}) \cup {p}
  /\ dirty' = (dirty \ {victim}) \cup Written(p, write)
  /\ faults' = faults + 1
  /\ evictions' = evictions + 1
  /\ writebacks' = writebacks + IF victim \in dirty THEN 1 ELSE 0

(* A fault that cannot be served is counted and changes nothing else. *)
Refuse(p) ==
  /\ p \notin resident
  /\ Cardinality(resident) = NumFrames
  /\ faults' = faults + 1
  /\ UNCHANGED <<resident, dirty, evictions, writebacks>>

Reset ==
  /\ resident' = {} /\ dirty' = {}
  /\ faults' = 0 /\ evictions' = 0 /\ writebacks' = 0

Next ==
  \/ \E p \in Pages, write \in BOOLEAN : Touch(p, write) \/ Load(p, write)
  \/ \E p, victim \in Pages, write \in BOOLEAN : Replace(p, victim, write)
  \/ \E p \in Pages : Refuse(p)
  \/ Reset

Spec == Init /\ [][Next]_vars
=============================================================================
