-------------------------- MODULE MCFabricSession --------------------------
(***************************************************************************)
(* Two chats that overlap in every way, a refresh beside them, and a       *)
(* submission that is repeated, in each controller mode.                   *)
(***************************************************************************)
EXTENDS FabricSession

CONSTANTS c1, c2, j1, w1

TwoChats == {c1, c2}
OneJob == {j1}
OneRemote == {w1}

Both == {"fleet_read", "execution"}

Embedded == [enabled |-> TRUE, mode |-> "embedded", startup |-> TRUE, probes |-> TRUE,
             roots |-> 0, features |-> {}, submits |-> FALSE]
Transitional == [Embedded EXCEPT !.mode = "transitional", !.probes = FALSE, !.roots = 2, !.features = Both]
Service == [Embedded EXCEPT !.mode = "service", !.probes = FALSE, !.features = Both]

SomeConfigs == {Embedded, Transitional, Service,
                [Service EXCEPT !.features = {"fleet_read"}, !.submits = TRUE],
                [Transitional EXCEPT !.features = {"execution"}],
                [Embedded EXCEPT !.enabled = FALSE, !.submits = TRUE]}
=============================================================================
