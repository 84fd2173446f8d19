------------------------- MODULE LocalityGeneration -------------------------
(***************************************************************************)
(* LocalityWorkload::generate(), one iteration of its loop per step.       *)
(*                                                                         *)
(*   locality  the parameters the workload was constructed with            *)
(*   start     workingSetStart                                             *)
(*   recent    recentPages, relative to the start                          *)
(*   stream    the pages of accesses_                                      *)
(***************************************************************************)
EXTENDS Workloads

CONSTANTS AccessCount, Localities

ASSUME LocalitiesAssumption == \A loc \in Localities : ValidLocality(loc)

VARIABLES locality, start, recent, stream

generatorVars == <<locality, start, recent, stream>>

GeneratorInit ==
  /\ locality \in Localities
  /\ start \in WorkingSetStarts(locality)
  /\ recent = <<>>
  /\ stream = <<>>

Generate(page) ==
  /\ Len(stream) < AccessCount
  /\ stream' = Append(stream, start + page)
  /\ recent' = Remember(recent, page)
  /\ UNCHANGED <<locality, start>>

GeneratorNext == \E page \in NextPages(locality, recent) : Generate(page)

GeneratorSpec == GeneratorInit /\ [][GeneratorNext]_generatorVars

-----------------------------------------------------------------------------
(***************************************************************************)
(* Every access falls in the working set, and the working set in the       *)
(* address space of the process, whichever way its page was chosen: the    *)
(* uniform, the spatial and the temporal choice bound the page in          *)
(* different ways, the last only through what it remembers.                *)
(***************************************************************************)
StaysInWorkingSet ==
  \A i \in 1 .. Len(stream) :
    /\ stream[i] \in start .. start + locality.workingSet - 1
    /\ stream[i] \in 0 .. PageCount - 1

(***************************************************************************)
(* The loop generates the streams LocalityStreams describes at once.       *)
(***************************************************************************)
GeneratesLocalityStream == stream \in LocalityStreams(locality, Len(stream))
=============================================================================
