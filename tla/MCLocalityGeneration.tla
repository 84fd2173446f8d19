------------------------ MODULE MCLocalityGeneration ------------------------
(* Every combination of strengths, with working sets of one page, of some  *)
(* pages and of the whole address space.                                   *)
EXTENDS LocalityGeneration

MCLocalities ==
  [temporal : Strengths, spatial : Strengths, workingSet : {1, 3, PageCount}]
=============================================================================
