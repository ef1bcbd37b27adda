----------------------------- MODULE MCConsole -----------------------------
(***************************************************************************)
(* Three threads of two groups that replace one another, over a fleet that *)
(* may be lost, or found, after something is selected.                     *)
(***************************************************************************)
EXTENDS Console

CONSTANTS r1, r2, i1, i2

TwoRuns == {r1, r2}
OneInspection == {i1}

TwoWorkers == {1, 2}
TwoModels == {1, 2}

\* Two workers with a model each, or nothing left of them.
SomeFleets == {[w \in {1, 2} |-> {w}], [w \in {} |-> {}]}
=============================================================================
