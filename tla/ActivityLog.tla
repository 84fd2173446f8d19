----------------------------- MODULE ActivityLog -----------------------------
(***************************************************************************)
(* SimulationActivityLog: the events a memory management unit reports, in  *)
(* order, each stored under the next sequence number.  The unit holds a    *)
(* pointer to a log it may not have, so a log here says whether it is      *)
(* there; nothing is reported to one that is not.                          *)
(*                                                                         *)
(*   log.attached  the pointer is not null                                 *)
(*   log.events    events_                                                 *)
(*   log.next      nextSequence_                                           *)
(***************************************************************************)
EXTENDS Naturals, Sequences

CONSTANTS NoPage, NoFrame  \* empty optionals

NoLog == [attached |-> FALSE, events |-> <<>>, next |-> 0]

NewLog == [attached |-> TRUE, events |-> <<>>, next |-> 0]

(* record(), called for each of the events in turn. *)
RecordAll(log, events) ==
  IF ~log.attached THEN log
  ELSE [log EXCEPT !.events = @ \o [i \in 1 .. Len(events) |->
                                     [events[i] EXCEPT !.sequence = log.next + i - 1]],
                   !.next = @ + Len(events)]

(* Faulty: the numbers of the last run go on. *)
ClearKeepingSequence(log) == [log EXCEPT !.events = <<>>]

Clear(log) == [log EXCEPT !.events = <<>>, !.next = 0]

-----------------------------------------------------------------------------
(* An event as its recorder fills it in, before it is stored. *)

Event(type, process, page, frame) ==
  [type |-> type, sequence |-> 0, process |-> process, page |-> page,
   frame |-> frame, victim |-> NoPage, success |-> FALSE,
   pageFault |-> FALSE, replaced |-> FALSE, dirtyEviction |-> FALSE]

Status(process, page) == [Event("Status", process, page, NoFrame) EXCEPT !.success = TRUE]

PageFault(process, page) == Event("PageFault", process, page, NoFrame)

FrameAssignment(process, page, frame) == Event("FrameAssignment", process, page, frame)

PageReplacement(process, page, frame, victim) ==
  [Event("PageReplacement", process, page, frame) EXCEPT
    !.victim = victim, !.replaced = TRUE]

DirtyEviction(process, page, frame) ==
  [Event("DirtyEviction", process, page, frame) EXCEPT !.dirtyEviction = TRUE]

(* The flags come from the result of the access. *)
Access(process, page, frame, result) ==
  [Event("Access", process, page, frame) EXCEPT
    !.success = result.success, !.pageFault = result.pageFault,
    !.replaced = result.replaced, !.dirtyEviction = result.dirtyEviction]
=============================================================================
