----------------------- MODULE MCMemoryManagementUnit -----------------------
(***************************************************************************)
(* Three pages for two frames: 0 of process A, 1 of A or B, and 2 of B.    *)
(* Page 1 can also be registered under virtual page 0, and page 2 only     *)
(* under a number that is not its own, so that registrations collide and   *)
(* accesses reach pages under other numbers.  With the bound 7 on          *)
(* addresses, the last byte of the second frame has no physical address.   *)
(***************************************************************************)
EXTENDS MemoryManagementUnit

MCIdRegistrations == {<<0, "A">>, <<1, "A">>, <<1, "B">>}

MCVpnRegistrations == {<<1, 0, "A">>, <<2, 0, "B">>, <<2, 1, "B">>}

(* Both ends of virtual page 0 and the start of virtual page 1. *)
MCAddresses == {0, PageSize - 1, PageSize}

MCReferences == {<<1, 0, 2>>}

(* One process, and direct clients. *)
DirectIdRegistrations == {<<1, "A">>, <<2, "A">>}

(* The entries by which two pages can exchange the frames they take first. *)
MCDirectEntries == {<<1, 1>>, <<2, 0>>}

DirectAddresses == {v * PageSize : v \in VirtualPages}
=============================================================================
