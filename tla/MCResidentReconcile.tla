------------------------- MODULE MCResidentReconcile -------------------------
(***************************************************************************)
(* Two workers, one with a declared model and one that takes what its      *)
(* roles prefer; with a pool of one thread a warm waits for another, with  *)
(* two they overlap.                                                       *)
(***************************************************************************)
EXTENDS ResidentReconcile, Sequences

CONSTANTS m1, m2, c1

TwoWorkers == 1..2
TwoModels == {m1, m2}
OneCall == {c1}
FirstDeclares == [w \in {1} |-> m1]
PrefersSecond == <<m2, m1>>
AllInstalled == [w \in Worker |-> Model]
QueuedOrOverlapping == {[pool |-> 1, outside |-> 1], [pool |-> 2, outside |-> 0]}
Overlapping == {[pool |-> 2, outside |-> 0]}
AllFit == [w \in Worker |-> Model]
==============================================================================
