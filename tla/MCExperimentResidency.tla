------------------------ MODULE MCExperimentResidency ------------------------
(***************************************************************************)
(* A small fleet for ExperimentResidency: one worker with memory for two   *)
(* models of equal size.  Calls ask for m1; m2 and m3 are what other users *)
(* of the worker load, so that m1 may find the worker empty, shared or     *)
(* full, and has to evict to get in.                                       *)
(***************************************************************************)
EXTENDS ExperimentResidency, TLC

CONSTANTS w1, m1, m2, m3, c1, outsider

OneWorker == {w1}
ThreeModels == {m1, m2, m3}
OneClient == {c1}

\* No admitted request has two pairs, so any order of them will do.
NoOrder == [p \in Pair |-> 0]

EverythingInstalled == [w \in Worker |-> Model]
UnitSize == [m \in Model |-> 1]
TwoUnits == [w \in Worker |-> 2]

\* One model, or more than the pin limit allows.
Requests == {{<<w1, m1>>}, Pair}

\* Only the other users tell m2 and m3 apart.
Others == Permutations({m2, m3})
==============================================================================
