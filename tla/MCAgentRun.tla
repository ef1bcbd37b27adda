------------------------------ MODULE MCAgentRun ------------------------------
(***************************************************************************)
(* Small runs for AgentRun.                                                *)
(***************************************************************************)
EXTENDS AgentRun

CONSTANTS w1, nowhere, m1, m2, nothing, f1

OneWorker == {w1}
TwoModels == {m1, m2}
OneFile == {f1}

\* w1 is declared to keep m1.
KeepsFirst == [w \in Worker |-> IF w = w1 THEN m1 ELSE NoModel]

FirstLoaded == {KeepsFirst}

DefaultConfig == [fallback |-> TRUE, escalate |-> TRUE, toolErrors |-> TRUE,
                  publish |-> TRUE, residency |-> TRUE]
AllConfigs == {DefaultConfig,
               [DefaultConfig EXCEPT !.fallback = FALSE, !.toolErrors = FALSE],
               [DefaultConfig EXCEPT !.fallback = FALSE, !.escalate = FALSE, !.publish = FALSE]}

Auto(n) == [pin |-> NoWorker, allowFallback |-> FALSE, roles |-> n]
Pinned == [pin |-> w1, allowFallback |-> FALSE, roles |-> 1]
AllRoutes == {Auto(2), Pinned}
==============================================================================
