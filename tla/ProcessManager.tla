--------------------------- MODULE ProcessManager ---------------------------
(***************************************************************************)
(* ProcessManager: the processes of a simulation under the identifiers it  *)
(* hands out, and the identifier it will hand out next.                    *)
(*                                                                         *)
(*   manager.processes  the keys of processes_                             *)
(*   manager.next       nextProcessId_                                     *)
(***************************************************************************)
EXTENDS Naturals

CONSTANT AddressBound  \* number of addresses, 2^64 in the code

NewManager == [processes |-> {}, next |-> 1]

(* The constructor of VirtualAddressSpace, which throws for any other. *)
IsAddressSpace(pageCount, pageSize) ==
  pageCount > 0 /\ pageSize > 0 /\ pageCount <= (AddressBound - 1) \div pageSize

(* Creations with the same address space, one after the other; the address *)
(* space is built first, so a refused creation takes no identifier.        *)
CreateProcesses(manager, count, pageCount, pageSize) ==
  IF ~IsAddressSpace(pageCount, pageSize) THEN manager
  ELSE [processes |-> manager.processes \cup manager.next .. manager.next + count - 1,
        next      |-> manager.next + count]

(* Faulty: the identifiers go on where they were. *)
ClearKeepingNext(manager) == [manager EXCEPT !.processes = {}]

Clear(manager) == NewManager
=============================================================================
