------------------------------ MODULE Readiness ------------------------------
(***************************************************************************)
(* Experiment readiness (src/src/mncs_harness/experiment_readiness.py):    *)
(* one inspection of the orchestration stack, call by call, while the      *)
(* fleet goes on changing; and the verdict on what the calls brought, or   *)
(* on a snapshot of evidence somebody else collected.                      *)
(*                                                                         *)
(* What can be wrong with a worker is a set of defects.  A worker without  *)
(* any meets the worker invariant of docs/EXPERIMENT_READINESS.md.         *)
(***************************************************************************)
EXTENDS Naturals

CONSTANTS
  Worker,
  Sites,       \* the deployments an inspection may find itself in
  Supplied,    \* the snapshots evaluate_layers may be called with directly
  Fleets,      \* the fleets: for each worker, its defects when the inspection starts
  MaxChanges   \* bound: how often a worker changes while it is inspected

RowDefect == {"down", "stale"}
ManagedDefect == {
  "held",           \* the management state is not one of READY and BUSY
  "barred",         \* not schedulable
  "uncertified",
  "rebuilt",        \* the inventory is not the one that was certified
  "nonconforming",  \* failures that block
  "redesired",      \* the desired state is not the one conformance was found for
  "updating",       \* an unresolved update, restart or rollback
  "outdated"}       \* an incompatible worker service
Defect == RowDefect \cup ManagedDefect

\* What may be missing from the evidence about a worker.
Field == {"state", "schedulable", "transaction", "certification", "conformance", "version",
          "desired", "service"}
Model == {"sound", "undigested", "misfit", "failed", "denied", "unnamed"}
Component == {"control", "harness", "fabric_controller", "commons", "reference_studies"}
Status == {"READY", "DEGRADED", "BLOCKED", "UNKNOWN"}

\* What the row of a worker may carry besides.
Extra == {"models", "decision"}
Studies == {"none", "pinned", "schemaless", "unpinned", "missing"}

Version == [missing : BOOLEAN, parseable : BOOLEAN, old : BOOLEAN, exact : BOOLEAN, certified : BOOLEAN]

Site == [
  mode : {"service", "embedded", "off"}, refresh : BOOLEAN, fabric : Version,
  carries : SUBSET (Field \cup Extra), tells : SUBSET Field, models : [Worker -> SUBSET Model],
  commons : {"closed", "reads", "publishes"}, writable : BOOLEAN, studies : Studies, ravel : {"unsaid", "limited", "current"},
  keepAlive : BOOLEAN, unidentified : SUBSET Component]

WorkerEvidence == [
  found : SUBSET Defect, lacking : SUBSET Field, decision : {"none", "ready", "not ready"},
  models : SUBSET Model]

\* Evidence that names the workers W.
Evidence(W) == [
  control : Status, harness : Status, scheduler : Status, forge : Status, artifacts : Status,
  fabric : Version, connected : {"yes", "no", "unsaid"}, available : BOOLEAN,
  workers : [W -> WorkerEvidence], routing : {"none", "silent fallback", "unsaid", "yes", "no"},
  residency : {"none", "supported", "unsupported", "no keep-alive"},
  commons : {"none", "closed", "reads", "publishes"},
  studies : Studies, ravel : {"unsaid", "limited", "current"},
  unidentified : SUBSET Component]

IsEvidence(ev) == \E W \in SUBSET Worker : ev \in Evidence(W)

ASSUME ReadinessAssumption ==
  /\ Fleets \subseteq [Worker -> SUBSET Defect]
  /\ MaxChanges \in Nat
  /\ \A s \in Sites : s \in Site
  /\ \A ev \in Supplied : IsEvidence(ev)

VARIABLES
  site,      \* the deployment
  defects,   \* [Worker -> what is wrong with it now]
  changes,
  phase,     \* how far the inspection got
  session,   \* the Fabric session it opened: new, available, unavailable, disabled
  evidence,  \* what the calls brought so far
  profile,   \* the profile it was asked about
  verdict,   \* "none" until it is given
  absent     \* [Worker -> the defects it was without at some moment of the inspection]

readinessVars == <<site, defects, changes, phase, session, evidence, profile, verdict, absent>>

(***************************************************************************)
(* Workers.  Evidence about one is a record: the defects it shows, what it *)
(* lacks, Fabric's own decision if it carries that, and the models.        *)
(***************************************************************************)
\* READY or BUSY and CERTIFIED: the decision of Fabric's ledger stands.
Ledger(e) == /\ e.found \cap {"held", "uncertified"} = {}
             /\ e.lacking \cap {"state", "certification"} = {}

LedgerBlockers(e) == e.found \cap {"barred", "nonconforming", "updating", "outdated"}

OtherBlockers(e) ==
  (e.found \cap (ManagedDefect \ {"rebuilt"}))
    \cup {d \in e.found \cap {"rebuilt"} : "uncertified" \notin e.found /\ "certification" \notin e.lacking}
    \cup (e.lacking \cap {"state", "certification"})
    \cup {f \in e.lacking \cap {"conformance"} : "state" \notin e.lacking /\ "nonconforming" \notin e.found}

\* evaluate_worker_experiment_eligibility.
Blockers(e) ==
  (e.found \cap {"down"}) \cup
    (CASE e.decision = "not ready" -> {"decision"}
       [] e.decision = "ready"     -> {}
       [] e.decision = "none"      -> IF Ledger(e) THEN LedgerBlockers(e) ELSE OtherBlockers(e))

FabricEligible(e) == Blockers(e) = {}
Eligible(e) == FabricEligible(e) /\ "stale" \notin e.found

\* evaluate_model_experiment_eligibility; no caller names the role it needs.
Usable(m) == m \notin {"unnamed", "failed", "denied"}

(***************************************************************************)
(* Layers.                                                                 *)
(***************************************************************************)
\* classify_fabric and dispatch_allowed of src/mncs/harness_fabric.mncs.
Classify(f) ==
  CASE f.missing -> "INCOMPATIBLE"
    [] ~f.missing /\ ~f.parseable -> "UNKNOWN"
    [] ~f.missing /\ f.parseable /\ f.old -> "TOO_OLD"
    [] ~f.missing /\ f.parseable /\ ~f.old /\ f.exact -> "EXPERIMENT_CERTIFIED_EXACT"
    [] ~f.missing /\ f.parseable /\ ~f.old /\ ~f.exact ->
         IF f.certified THEN "COMPATIBLE_VERSION_ONLY" ELSE "COMPATIBLE_NEWER"
DispatchAllowed(f) ==
  Classify(f) \in {"EXPERIMENT_CERTIFIED_EXACT", "COMPATIBLE_VERSION_ONLY", "COMPATIBLE_NEWER"}

Available(ev) == {w \in DOMAIN ev.workers : "down" \notin ev.workers[w].found}
EligibleWorkers(ev) == {w \in DOMAIN ev.workers : Eligible(ev.workers[w])}

\* The best model layer the workers W can give: a usable model on one of them.
Offers(ev, W) == \E w \in W : \E m \in ev.workers[w].models : Usable(m)
\* The models listed under workers; those a supplied snapshot lists under
\* fabric.models are left out.
Recorded(ev) == UNION {ev.workers[w].models : w \in DOMAIN ev.workers}

FabricLayer(ev) ==
  CASE ~DispatchAllowed(ev.fabric) \/ ev.connected = "no" -> "BLOCKED"
    [] DispatchAllowed(ev.fabric) /\ ev.connected # "no" -> IF ev.available THEN "READY" ELSE "UNKNOWN"

WorkersLayer(ev) ==
  IF DOMAIN ev.workers = {} THEN "UNKNOWN"
  ELSE IF Available(ev) = {} THEN "BLOCKED"
  ELSE IF EligibleWorkers(ev) = {} THEN "DEGRADED"
  ELSE "READY"

ModelsLayer(ev) ==
  IF Offers(ev, EligibleWorkers(ev)) THEN "READY"
  ELSE IF Offers(ev, {w \in DOMAIN ev.workers : FabricEligible(ev.workers[w])}) THEN "DEGRADED"
  ELSE IF Available(ev) # {} \/ Recorded(ev) # {} THEN "BLOCKED"
  ELSE "UNKNOWN"

\* ev.routing is "none", or what is said of placement and of a local fallback.
RoutingLayer(ev) ==
  CASE ev.routing = "none" -> IF EligibleWorkers(ev) # {} THEN "READY" ELSE "UNKNOWN"
    [] ev.routing = "silent fallback" -> "BLOCKED"
    [] ev.routing = "unsaid" -> IF EligibleWorkers(ev) # {} THEN "READY" ELSE "DEGRADED"
    [] ev.routing = "yes" -> IF EligibleWorkers(ev) # {} THEN "READY" ELSE "DEGRADED"
    [] ev.routing = "no" -> "DEGRADED"

ResidencyLayer(ev) ==
  CASE ev.residency = "none" -> "UNKNOWN"
    [] ev.residency = "supported" -> "READY"
    [] ev.residency \in {"unsupported", "no keep-alive"} -> "BLOCKED"

\* A limitation of RAVEL's history counts against the profile RAVEL alone.
StudiesLayer(ev, p) ==
  IF p = "RAVEL" /\ ev.ravel = "limited" THEN "BLOCKED"
  ELSE CASE ev.studies = "none" -> "UNKNOWN"
         [] ev.studies = "pinned" -> "READY"
         [] ev.studies \in {"schemaless", "unpinned", "missing"} -> "DEGRADED"

\* evaluate_layers; ev.control, ev.harness and ev.forge are what was reported.
Layers(ev, p) == [
  control           |-> ev.control,
  harness           |-> ev.harness,
  fabric_controller |-> FabricLayer(ev),
  fleet             |-> WorkersLayer(ev),
  workers           |-> WorkersLayer(ev),
  models            |-> ModelsLayer(ev),
  routing           |-> RoutingLayer(ev),
  residency         |-> ResidencyLayer(ev),
  commons_consumer  |-> IF ev.commons = "none" THEN "UNKNOWN"
                        ELSE IF ev.commons \in {"reads", "publishes"} THEN "READY" ELSE "BLOCKED",
  commons_operator  |-> IF ev.commons = "none" THEN "UNKNOWN"
                        ELSE IF ev.commons = "publishes" THEN "READY" ELSE "DEGRADED",
  forge             |-> ev.forge,
  reference_studies |-> StudiesLayer(ev, p),
  scheduler         |-> ev.scheduler,
  artifact_write    |-> ev.artifacts]

\* PROFILES.
Base == {"harness", "fabric_controller", "fleet", "workers", "models", "commons_consumer", "artifact_write"}
Profile == {"base-inference", "code-analysis", "multi-agent", "sustained-experiment", "MNEL", "RAVEL"}

\* Mutant: one table was not brought up to date.
RequiredStale(p) ==
  CASE p = "base-inference" -> Base
    [] p = "code-analysis" -> Base \cup {"forge"}
    [] p = "multi-agent" -> Base \cup {"routing"}
    [] p = "sustained-experiment" -> Base \cup {"residency"}
    [] p = "MNEL" -> Base \cup {"routing", "commons_operator", "reference_studies"}
    [] p = "RAVEL" -> Base \cup {"reference_studies", "forge"}

Required(p) ==
  CASE p = "base-inference" -> Base
    [] p = "code-analysis" -> Base \cup {"forge"}
    [] p = "multi-agent" -> Base \cup {"routing"}
    [] p = "sustained-experiment" -> Base \cup {"routing", "residency"}
    [] p = "MNEL" -> Base \cup {"routing", "commons_operator", "reference_studies"}
    [] p = "RAVEL" -> Base \cup {"reference_studies", "forge"}

\* fold_readiness (EnvelopeFold): BLOCKED, UNKNOWN, DEGRADED, READY.
Worst(S) ==
  IF "BLOCKED" \in S THEN "BLOCKED"
  ELSE IF "UNKNOWN" \in S THEN "UNKNOWN"
  ELSE IF "DEGRADED" \in S THEN "DEGRADED"
  ELSE "READY"

\* Mutant: a model without a digest is no gap.
CompleteLax(ev) ==
  /\ ev.unidentified = {}
  /\ \E w \in DOMAIN ev.workers : "version" \notin ev.workers[w].lacking
  /\ \E w \in DOMAIN ev.workers : "desired" \notin ev.workers[w].lacking

\* provenance_gaps: also of models that are not eligible.
Complete(ev) ==
  /\ ev.unidentified = {}
  /\ \E w \in DOMAIN ev.workers : "version" \notin ev.workers[w].lacking
  /\ \E w \in DOMAIN ev.workers : "desired" \notin ev.workers[w].lacking
  /\ "undigested" \notin Recorded(ev)

\* _overall, and what missing provenance takes from it.
Judgement(ev, p) ==
  LET layers == Layers(ev, p)
      worst == Worst({layers[l] : l \in Required(p)}) IN
  IF worst = "READY" /\ ~Complete(ev) THEN "DEGRADED" ELSE worst

(***************************************************************************)
(* inspect_live_config: its calls, in their order.                         *)
(***************************************************************************)
Reach(to, now) ==
  /\ phase' = to
  /\ defects' = now
  /\ absent' = [w \in Worker |-> absent[w] \cup (Defect \ now[w])]

\* FabricSession.initialize; embedded, it may ask every worker for its capabilities.
OpenFabric ==
  /\ phase = "start"
  /\ session' \in IF site.mode = "off" THEN {"disabled"} ELSE {"available", "unavailable"}
  /\ Reach("opened",
           IF site.mode = "embedded" /\ site.refresh /\ session' = "available"
             THEN [w \in Worker |-> IF "down" \in defects[w] THEN defects[w] ELSE defects[w] \ {"stale"}]
             ELSE defects)
  /\ UNCHANGED <<site, changes, evidence, profile, verdict>>

\* The defects a piece of evidence shows.
Shown(f) ==
  CASE f = "state"         -> {"held"}
    [] f = "schedulable"   -> {"barred"}
    [] f = "transaction"   -> {"updating"}
    [] f = "certification" -> {"uncertified"}
    [] f = "conformance"   -> {"nonconforming"}
    [] f = "service"       -> {"outdated"}
    [] OTHER               -> {}
ShownBy(F) == UNION {Shown(f) : f \in F}

\* What Fabric says of a worker in its list of them.
Row(w) == [
  found |-> defects[w] \cap (RowDefect \cup ShownBy(site.carries)),
  lacking |-> Field \ site.carries,
  decision |-> IF "decision" \notin site.carries THEN "none"
               ELSE IF defects[w] \cap ManagedDefect = {} THEN "ready" ELSE "not ready",
  models |-> IF "models" \in site.carries THEN site.models[w] ELSE {}]

\* FabricSession.status; the snapshot of the fleet is one of the same status.
Observe ==
  /\ phase = "opened"
  /\ \E answered \in {session = "available", FALSE} :
       evidence' = [evidence EXCEPT
         !.workers = IF answered THEN [w \in Worker |-> Row(w)] ELSE [w \in {} |-> Row(w)],
         !.available = answered,
         !.connected = IF answered THEN "yes" ELSE "no",
         !.routing = IF answered /\ \E w \in Worker : "down" \notin defects[w] THEN "yes" ELSE "no"]
  /\ Reach("observed", defects)
  /\ UNCHANGED <<site, changes, session, profile, verdict>>

\* CommonsSession.initialize.
OpenCommons ==
  /\ phase = "observed"
  /\ \E opened \in {site.commons, "closed"} : evidence' = [evidence EXCEPT !.commons = opened]
  /\ Reach("commons", defects)
  /\ UNCHANGED <<site, changes, session, profile, verdict>>

\* probe_artifact_write: make, write, read back and remove.
ProbeArtifacts ==
  /\ phase = "commons"
  /\ evidence' = [evidence EXCEPT !.artifacts = IF site.writable THEN "READY" ELSE "BLOCKED"]
  /\ Reach("probed", defects)
  /\ UNCHANGED <<site, changes, session, profile, verdict>>

\* Mutant: the evidence is that of the list, completed.
EnrichedBlindly(w, row) == [row EXCEPT !.lacking = {}]

\* What the row said of these stays; management overwrites all the rest of it,
\* with nothing where it says nothing.
Kept(row) == {"certification", "conformance", "version", "service"} \ row.lacking

\* Neither rebuilt nor redesired shows: identities that come with management
\* are its own, and an inspected inventory is not compared.
Enriched(w, row) ==
  LET told == (site.tells \ {"service"}) \ Kept(row) IN
  [row EXCEPT
    !.found = (@ \cap (RowDefect \cup ShownBy(Kept(row)))) \cup (defects[w] \cap ShownBy(told)),
    !.lacking = Field \ (Kept(row) \cup told)]

\* _enrich_workers_from_inspect: a worker the answer does not name stays as it
\* is, and so do all if the call fails.
InspectFleet ==
  /\ phase = "probed"
  /\ \E named \in SUBSET DOMAIN evidence.workers :
       /\ session # "available" => named = {}
       /\ evidence' = [evidence EXCEPT
            !.workers = [w \in DOMAIN evidence.workers |->
                           IF w \in named THEN Enriched(w, evidence.workers[w])
                           ELSE evidence.workers[w]]]
  /\ Reach("inspected", defects)
  /\ UNCHANGED <<site, changes, session, profile, verdict>>

\* controller_status, and what needs no call: the versions, the studies and the
\* settings.
AskController ==
  /\ phase = "inspected"
  /\ \E answered \in {session = "available", FALSE} :
       LET missing == ~answered \/ site.fabric.missing IN
       evidence' = [evidence EXCEPT
         !.fabric = [site.fabric EXCEPT !.missing = missing,
                                        !.parseable = @ /\ site.mode = "service",
                                        !.exact = @ /\ answered],
         !.unidentified = site.unidentified
           \cup (IF answered THEN {} ELSE {"fabric_controller"})
           \cup (IF site.studies \in {"pinned", "schemaless"} THEN {} ELSE {"reference_studies"}),
         !.residency = IF ~site.keepAlive THEN "no keep-alive"
                       ELSE IF ~missing /\ Recorded(evidence) # {} THEN "supported" ELSE "unsupported",
         !.studies = site.studies,
         !.ravel = site.ravel]
  /\ Reach("asked", defects)
  /\ UNCHANGED <<site, changes, session, profile, verdict>>

Judge(p) ==
  /\ phase = "asked"
  /\ phase' = "judged"
  /\ profile' = p
  /\ verdict' = Judgement(evidence, p)
  /\ UNCHANGED <<site, defects, changes, session, evidence, absent>>

\* The fleet, meanwhile: a defect appears or goes away.
Change(w, d) ==
  /\ phase \notin {"start", "judged"}
  /\ site.mode # "none"
  /\ changes < MaxChanges
  /\ changes' = changes + 1
  /\ Reach(phase, [defects EXCEPT ![w] = IF d \in @ THEN @ \ {d} ELSE @ \cup {d}])
  /\ UNCHANGED <<site, session, evidence, profile, verdict>>

(***************************************************************************)
(* The specification.                                                      *)
(***************************************************************************)
\* What inspect_live_config has no call for: control and forge stay UNKNOWN.
NoEvidence == [
  control |-> "UNKNOWN", harness |-> "READY", scheduler |-> "READY", forge |-> "UNKNOWN",
  fabric |-> [missing |-> TRUE, parseable |-> FALSE, old |-> FALSE, exact |-> FALSE, certified |-> FALSE],
  connected |-> "no", available |-> FALSE, workers |-> [w \in {} |-> {}],
  routing |-> "no", residency |-> "none", commons |-> "none",
  studies |-> "none", ravel |-> "unsaid", artifacts |-> "UNKNOWN", unidentified |-> Component]

NoSite == [mode |-> "none", unidentified |-> {}]

ReadinessInit ==
  /\ changes = 0
  /\ session = "new"
  /\ profile = "none"
  /\ verdict = "none"
  /\ absent = [w \in Worker |-> {}]
  /\ \/ /\ site \in Sites
        /\ defects \in Fleets
        /\ phase = "start"
        /\ evidence = NoEvidence
     \/ /\ site = NoSite
        /\ defects = [w \in Worker |-> {}]
        /\ phase = "asked"
        /\ evidence \in Supplied

ReadinessNext ==
  \/ OpenFabric \/ Observe \/ OpenCommons \/ ProbeArtifacts \/ InspectFleet \/ AskController
  \/ \E p \in Profile : Judge(p)
  \/ \E w \in Worker, d \in Defect : Change(w, d)

ReadinessSpec == ReadinessInit /\ [][ReadinessNext]_readinessVars

(***************************************************************************)
(* Properties.                                                             *)
(***************************************************************************)
Live == site.mode # "none"

\* Every variable stays in its type.
ReadinessTypeOK ==
  /\ site \in Sites \cup {NoSite}
  /\ defects \in [Worker -> SUBSET Defect]
  /\ changes \in 0..MaxChanges
  /\ phase \in {"start", "opened", "observed", "commons", "probed", "inspected", "asked", "judged"}
  /\ session \in {"new", "disabled", "available", "unavailable"}
  /\ IsEvidence(evidence)
  /\ profile \in Profile \cup {"none"}
  /\ verdict \in Status \cup {"none"}
  /\ absent \in [Worker -> SUBSET Defect]

\* What the evidence of an eligible worker does not speak of.  Fabric's own
\* decision speaks of all; without it, the ledger asks for a READY, CERTIFIED
\* worker and is content where nothing was said of the rest.
Unseen(w) ==
  IF "decision" \in site.carries THEN {}
  ELSE {"rebuilt", "redesired"} \cup ShownBy(evidence.workers[w].lacking)

\* The fleet is read by several calls and moves between them, and the later one
\* overwrites part of what the earlier one said.  Still, a live inspection says
\* READY only if one worker with a usable model was, at some moment of the
\* inspection, without each defect that its evidence speaks of.
ReadyWasEarned ==
  Live /\ verdict = "READY" =>
    \E w \in DOMAIN evidence.workers :
      /\ Defect \ Unseen(w) \subseteq absent[w]
      /\ site.models[w] \ {"failed", "denied", "unnamed"} # {}

\* docs/EXPERIMENT_READINESS.md, said of the deployment and not of layers, with the
\* defects of a worker that are let pass and the kinds of models that will do.
\* An embedded controller has no version to compare, and no call asks for Forge.
Meets(p, passed, fit) ==
  /\ site.mode = "service" /\ ~site.fabric.missing /\ site.fabric.parseable /\ ~site.fabric.old
  /\ site.writable /\ site.commons \in {"reads", "publishes"}
  /\ site.unidentified = {} /\ site.studies \in {"pinned", "schemaless"}
  /\ "models" \in site.carries
  /\ \E w \in Worker : defects[w] \subseteq passed /\ site.models[w] \cap fit # {}
  /\ \A w \in Worker : "undigested" \notin site.models[w]
  /\ p = "sustained-experiment" => site.keepAlive
  /\ p = "MNEL" => site.commons = "publishes" /\ site.studies = "pinned"
  /\ p \notin {"code-analysis", "RAVEL"}

\* The worker and model invariants of the document, as they stand.
Documented(p) == Meets(p, {}, {"sound"})

\* The ledger compares no identities and does not ask for a compatible service;
\* Fabric's decision, where the rows carry it, does.
Overlooked == IF "decision" \in site.carries THEN {}
              ELSE {"rebuilt", "redesired"} \cup
                   IF "service" \in site.carries THEN {} ELSE {"outdated"}

EveryCallAnswered ==
  /\ evidence.connected = "yes" /\ evidence.commons = site.commons
  /\ evidence.fabric.missing = site.fabric.missing
  /\ \A w \in Worker : evidence.workers[w].lacking \subseteq {"service"}

\* Over a fleet that keeps still, with every call answered in full: a deployment
\* that is what the document asks for is READY, and one that is READY falls short
\* of the document in no more than three defects of its worker (a certification of
\* another inventory, conformance to another desired state, and an incompatible
\* service no row speaks of) and the role of its model.
QuietVerdict ==
  Live /\ verdict # "none" /\ changes = 0 /\ session = "available" /\ EveryCallAnswered =>
    /\ Documented(profile) => verdict = "READY"
    /\ verdict = "READY" => Meets(profile, Overlooked, {"sound", "misfit"})

\* The profiles build on one another as the table of docs/EXPERIMENT_READINESS.md
\* says, whatever the evidence: and the limitation of RAVEL counts for RAVEL only.
ProfilesNest ==
  phase = "asked" =>
    LET Ready(p) == Judgement(evidence, p) = "READY"
        layer == Layers(evidence, "base-inference") IN
    /\ Ready("code-analysis") <=> Ready("base-inference") /\ layer.forge = "READY"
    /\ Ready("multi-agent") <=> Ready("base-inference") /\ layer.routing = "READY"
    /\ Ready("sustained-experiment") <=> Ready("multi-agent") /\ layer.residency = "READY"
    /\ Ready("MNEL") <=> /\ Ready("multi-agent") /\ layer.commons_operator = "READY"
                         /\ layer.reference_studies = "READY"
    /\ Ready("RAVEL") <=> /\ Ready("code-analysis") /\ layer.reference_studies = "READY"
                          /\ evidence.ravel # "limited"
=============================================================================
