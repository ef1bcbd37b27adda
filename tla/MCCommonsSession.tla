-------------------------- MODULE MCCommonsSession --------------------------
(***************************************************************************)
(* Two calls against a Commons that may change once or twice: each way it  *)
(* can be wrong on its own, and a node that is as it should be.            *)
(***************************************************************************)
EXTENDS CommonsSession

CONSTANTS c1, c2

TwoCalls == {c1, c2}

Sound == [up |-> TRUE, operator |-> TRUE, speaks |-> "commons", store |-> "valid",
          consumerTools |-> {"read"}, operatorTools |-> {"publish", "admin"}]

OneFault == {[Sound EXCEPT !.up = FALSE], [Sound EXCEPT !.operator = FALSE],
             [Sound EXCEPT !.speaks = "protocol"], [Sound EXCEPT !.speaks = "descriptor"],
             [Sound EXCEPT !.store = "missing"], [Sound EXCEPT !.store = "invalid"],
             [Sound EXCEPT !.consumerTools = {}], [Sound EXCEPT !.operatorTools = {"publish", "alien"}]}

SomeServers == {Sound} \cup OneFault

AllConfigs == {c \in Config : c.mode = "service" => ~c.init}
=============================================================================
