----------------------------- MODULE RemoteCall -----------------------------
(***************************************************************************)
(* What a caller of the harness may conclude from the answer to a request  *)
(* that changes something elsewhere (a record published, a model run):     *)
(*   "ok"       it was carried out, exactly once;                          *)
(*   "refused"  it was not carried out and never will be;                  *)
(*   "error"    it was carried out once, or will be, or never.             *)
(* CommonsSession, FabricSession and ResidentReconcile are shown to keep   *)
(* this contract.                                                          *)
(***************************************************************************)
EXTENDS Naturals

CONSTANT Call

VARIABLES
  answer,   \* [Call -> what the caller was told]
  effects   \* [Call -> how often the request was carried out]

vars == <<answer, effects>>

Answer == {"none", "ok", "refused", "error"}

Init ==
  /\ answer = [c \in Call |-> "none"]
  /\ effects = [c \in Call |-> 0]

\* Also after an error: a request given up on may still be on its way.
Perform(c) ==
  /\ answer[c] \in {"none", "error"}
  /\ effects[c] = 0
  /\ effects' = [effects EXCEPT ![c] = 1]
  /\ UNCHANGED answer

Tell(c, a) ==
  /\ answer[c] = "none"
  /\ answer' = [answer EXCEPT ![c] = a]
  /\ UNCHANGED effects

Succeed(c) == effects[c] = 1 /\ Tell(c, "ok")
Refuse(c) == effects[c] = 0 /\ Tell(c, "refused")
Fail(c) == Tell(c, "error")

\* A caller that was told "error" may ask again, under the same identity.
Retry(c) ==
  /\ answer[c] = "error"
  /\ answer' = [answer EXCEPT ![c] = "none"]
  /\ UNCHANGED effects

Next == \E c \in Call : Perform(c) \/ Succeed(c) \/ Refuse(c) \/ Fail(c) \/ Retry(c)

Spec == Init /\ [][Next]_vars
=============================================================================
