--------------------------- MODULE MCPolicyCalls ---------------------------
(* Reference sequences for Optimal over the pages 1, 2 and 3: none at all, *)
(* one that names every page, one that repeats a page and leaves another   *)
(* out.                                                                    *)
EXTENDS PolicyCalls

MCReferences == {<<>>, <<3, 1, 2>>, <<2, 2, 1>>}
=============================================================================
