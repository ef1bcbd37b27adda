---------------------------- MODULE MCReadiness ----------------------------
(***************************************************************************)
(* Inspections of deployments with at most one thing wrong outside the     *)
(* fleet, of a fleet with anything wrong that changes meanwhile; and       *)
(* evaluations of snapshots that differ from a good one in two respects.   *)
(***************************************************************************)
EXTENDS Readiness, TLC

CONSTANTS w1, w2

TwoWorkers == {w1, w2}

Certified == [missing |-> FALSE, parseable |-> TRUE, old |-> FALSE, exact |-> TRUE, certified |-> TRUE]

GoodSite == [
  mode |-> "service", refresh |-> TRUE, fabric |-> Certified, carries |-> {"models"},
  tells |-> Field,
  models |-> (w1 :> {"sound"} @@ w2 :> {"sound", "failed"}), commons |-> "publishes", writable |-> TRUE,
  studies |-> "pinned", ravel |-> "unsaid", keepAlive |-> TRUE, unidentified |-> {}]

OneFlaw ==
  {GoodSite}
    \cup {[GoodSite EXCEPT !.mode = x] : x \in {"embedded", "off"}}
    \cup {[GoodSite EXCEPT !.fabric.missing = TRUE], [GoodSite EXCEPT !.fabric.old = TRUE]}
    \cup {[GoodSite EXCEPT !.carries = x] : x \in {
            {}, {"models", "decision"}, {"models", "state", "service"},
            {"models", "state", "schedulable", "certification", "conformance"}}}
    \cup {[GoodSite EXCEPT !.tells = Field \ {f}] : f \in {"state", "schedulable", "conformance", "desired"}}
    \cup {[GoodSite EXCEPT !.models = x] :
            x \in {w1 :> {"misfit"} @@ w2 :> {"failed"}, w1 :> {"sound"} @@ w2 :> {"undigested"}}}
    \cup {[GoodSite EXCEPT !.commons = x] : x \in {"closed", "reads"}}
    \cup {[GoodSite EXCEPT !.writable = FALSE], [GoodSite EXCEPT !.keepAlive = FALSE],
          [GoodSite EXCEPT !.studies = "unpinned"], [GoodSite EXCEPT !.studies = "schemaless"], [GoodSite EXCEPT !.unidentified = {"control"}]}

\* A worker with at most one defect, beside one that is held or has none either.
OneTrouble == {w1 :> S @@ w2 :> {"held"} : S \in {{}} \cup {{d} : d \in Defect}}
                \cup {w1 :> {} @@ w2 :> {}}

GoodWorker == [found |-> {}, lacking |-> {}, decision |-> "none", models |-> {"sound"}]
Snapshot == [
  control |-> "READY", harness |-> "READY", scheduler |-> "READY", forge |-> "READY", fabric |-> Certified,
  connected |-> "unsaid", available |-> TRUE, workers |-> [w \in {w1} |-> GoodWorker], routing |-> "unsaid",
  residency |-> "supported", commons |-> "publishes", studies |-> "pinned", ravel |-> "unsaid",
  artifacts |-> "READY", unidentified |-> {}]

Varied(S) ==
  S \cup UNION {
    {[s EXCEPT !.forge = x] : x \in {"DEGRADED", "UNKNOWN"}}
      \cup {[s EXCEPT !.routing = x] : x \in {"none", "silent fallback", "yes", "no"}}
      \cup {[s EXCEPT !.residency = x] : x \in {"none", "no keep-alive"}}
      \cup {[s EXCEPT !.commons = x] : x \in {"none", "closed", "reads"}}
      \cup {[s EXCEPT !.studies = x] : x \in {"none", "missing"}}
      \cup {[s EXCEPT !.ravel = x] : x \in {"limited", "current"}}
      \cup {[s EXCEPT !.fabric.exact = FALSE], [s EXCEPT !.fabric.parseable = FALSE],
            [s EXCEPT !.available = FALSE], [s EXCEPT !.artifacts = "BLOCKED"]}
      \cup {[s EXCEPT !.workers[w1].found = {d}] : d \in Defect}
      \cup {[s EXCEPT !.workers[w1].lacking = {f}] : f \in Field}
      \cup {[s EXCEPT !.workers[w1].decision = x] : x \in {"ready", "not ready"}}
      : s \in S}
TwoVariations == Varied(Varied({Snapshot}))
=============================================================================
