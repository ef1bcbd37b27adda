----------------------------- MODULE AtlasBinding -----------------------------
(***************************************************************************)
(* How the harness enforces decisions that Atlas issued:                   *)
(* ExecutionRequirement of src/src/mncs_harness/atlas_binding.py (load,    *)
(* accept, confirm_execution), the gate of consequential local tools       *)
(* (ToolRegistry in tools.py) and the gate of jobs sent to one exact       *)
(* Fabric worker (FabricTargetToolExecutor in fabric_target_tools.py).     *)
(*                                                                         *)
(* A behaviour is one process: it loads an envelope once, may bind it to   *)
(* its tool registry as often as it likes, runs tools and dispatches jobs, *)
(* while time passes and Fabric's observations of the workers change.      *)
(* Signatures, digests and canonical JSON are the field "signed".          *)
(***************************************************************************)
EXTENDS Integers, Sequences, FiniteSets

CONSTANTS
  Target,            \* worker identities
  NoTarget,          \* the empty string where a worker identity is expected
  LegName, Evidence,
  Participant, Scope,
  NoOne,             \* the empty string where a participant or scope is expected
  Artifact, NoArtifact,
  Envelopes,         \* the requirement documents a process may be given
  Expectations,      \* what its operator may expect of their session
  Observed,          \* artifacts a caller may compare with the bound one
  Views,             \* what Fabric may come to say of a worker
  MaxAge,            \* evidence_max_age_secs
  MaxTime,           \* bound: the last instant of the clock
  Legacy,            \* does Fabric predate observation provenance?
  AllowPublication   \* allow_model_publication

Capability == {"worker.dispatch", "repo.edit", "evidence.attest"}
ExecutionTarget == "execution.target"
Item == Evidence \cup {ExecutionTarget}
Session == [participant : Participant, scope : Scope]
Expectation == [participant : Participant \cup {NoOne}, scope : Scope \cup {NoOne}]
Decision == [capability : Capability, status : {"granted", "conditional", "denied"},
             missing : SUBSET Item, target : Target \cup {NoTarget},
             session : Session, signed : BOOLEAN]
Attestation == [name : Item, session : Session, general : BOOLEAN,
                issued : Int, signed : BOOLEAN]
Leg == [name : LegName, needs : SUBSET Capability,
        target : Target \cup {NoTarget}, evidence : SUBSET Attestation]
View == [trusted : BOOLEAN, fresh : BOOLEAN]
Envelope == [session : Session, artifact : Artifact,
             decisions : Seq(Decision), legs : Seq(Leg)]

ASSUME AtlasAssumption ==
  /\ NoTarget \notin Target
  /\ NoOne \notin Participant \cup Scope
  /\ NoArtifact \notin Artifact
  /\ ExecutionTarget \notin Evidence
  /\ Envelopes \subseteq Envelope
  /\ Expectations \subseteq Expectation
  /\ Observed \subseteq Artifact \cup {NoArtifact}
  /\ Views \subseteq View
  /\ MaxAge \in Nat
  /\ MaxTime \in Nat
  /\ {Legacy, AllowPublication} \subseteq BOOLEAN

Grant == {"GRANTED", "UNKNOWN", "REFUSED"}
NoRequirement == [loaded |-> FALSE]
NoBinding == [held |-> FALSE]
NoCall == [stage |-> "none"]
NoEffect == [kind |-> "none"]

VARIABLES
  now,          \* the clock
  requirement,  \* the requirement the process loaded, if it did
  bound,        \* the registry's leg and the acceptance computed when it was bound
  obs,          \* [Target -> what Fabric would say of the worker now]
  call,         \* the running FabricTargetToolExecutor.execute, if any
  effect        \* what the last step did to the world or told its caller

vars == <<now, requirement, bound, obs, call, effect>>

Elements(s) == {s[i] : i \in DOMAIN s}

(***************************************************************************)
(* ExecutionRequirement.from_dict.                                         *)
(***************************************************************************)
\* Mutant: evidence dated after the clock counts.
WindowOkFuture(issued, t) == t - issued =< MaxAge

WindowOk(issued, t) == issued =< t /\ t - issued =< MaxAge

Attests(a, e, t) ==
  /\ a.session = e.session
  /\ a.general
  /\ WindowOk(a.issued, t)
  /\ a.signed

\* Mutant: the pair is put together the wrong way round.
VerifiedSwapped(e, t) ==
  UNION {{<<a.name, leg.name>> : a \in {x \in leg.evidence : Attests(x, e, t)}} :
           leg \in Elements(e.legs)}

VerifiedEvidence(e, t) ==
  UNION {{<<leg.name, a.name>> : a \in {x \in leg.evidence : Attests(x, e, t)}} :
           leg \in Elements(e.legs)}

Loadable(e) ==
  /\ e.decisions # << >>
  /\ e.legs # << >>
  /\ \A d \in Elements(e.decisions) : d.signed /\ d.session = e.session

(***************************************************************************)
(* ExecutionRequirement.accept.                                            *)
(***************************************************************************)
HasLeg(r, name) == \E i \in DOMAIN r.envelope.legs : r.envelope.legs[i].name = name

LegOf(r, name) ==
  LET legs == r.envelope.legs
      first == CHOOSE i \in DOMAIN legs :
                 legs[i].name = name /\ \A j \in DOMAIN legs : legs[j].name = name => i =< j
  IN  legs[first]

DecisionsOn(r, cap) == {d \in Elements(r.envelope.decisions) : d.capability = cap}

DecisionGrant(d) ==
  CASE d.status = "denied" -> "REFUSED"
    [] d.status = "conditional" /\ d.missing # {} -> "UNKNOWN"
    [] OTHER -> "GRANTED"

\* Mutant: a conditional decision hides a denial.
WorstUnknownFirst(grants) ==
  IF "UNKNOWN" \in grants THEN "UNKNOWN"
  ELSE IF "REFUSED" \in grants THEN "REFUSED" ELSE "GRANTED"

\* What mncs_exec.fold returns for a list with these grants (EnvelopeFold).
Worst(grants) ==
  IF "REFUSED" \in grants THEN "REFUSED"
  ELSE IF "UNKNOWN" \in grants THEN "UNKNOWN" ELSE "GRANTED"

FoldVerdict(r, cap) == Worst({DecisionGrant(d) : d \in DecisionsOn(r, cap)})

Outstanding(r, cap) ==
  UNION {d.missing : d \in {c \in DecisionsOn(r, cap) : c.status = "conditional"}}

AuthorizedTargets(r, cap) == {d.target : d \in DecisionsOn(r, cap)} \ {NoTarget}

Supplied(r, leg, cap) ==
  {item \in Item :
     \/ <<leg.name, item>> \in r.verified
     \/ item = ExecutionTarget /\ leg.target # NoTarget /\ AuthorizedTargets(r, cap) # {}}

Misplaced(r, leg, cap) ==
  AuthorizedTargets(r, cap) # {} /\ leg.target \notin AuthorizedTargets(r, cap)

NeedVerdict(r, leg, cap) ==
  CASE DecisionsOn(r, cap) = {} -> "REFUSED"
    [] DecisionsOn(r, cap) # {} /\ Misplaced(r, leg, cap) -> "REFUSED"
    [] DecisionsOn(r, cap) # {} /\ ~Misplaced(r, leg, cap) ->
         IF FoldVerdict(r, cap) = "UNKNOWN" /\ Outstanding(r, cap) \subseteq Supplied(r, leg, cap)
         THEN "GRANTED" ELSE FoldVerdict(r, cap)

Accept(r, name, observed) ==
  IF HasLeg(r, name) /\ observed \in {NoArtifact, r.envelope.artifact}
  THEN LET leg == LegOf(r, name)
       IN  Worst({NeedVerdict(r, leg, cap) : cap \in leg.needs})
  ELSE "REFUSED"

(***************************************************************************)
(* ExecutionRequirement.confirm_execution.                                 *)
(***************************************************************************)
\* Mutant: a granted leg is confirmed wherever the job ran.
DispatchGatePass(folded, matches) == folded

DispatchGate(folded, matches) ==
  IF folded = "GRANTED" /\ ~matches THEN "REFUSED" ELSE folded

Confirm(r, name, actual, origin, fresh) ==
  LET accepted == Accept(r, name, NoArtifact)
      target == LegOf(r, name).target
  IN  CASE accepted # "GRANTED" -> accepted
        [] accepted = "GRANTED" /\ origin = "fabric-legacy" ->
             IF NoTarget \notin {actual, target} /\ actual # target
             THEN "REFUSED" ELSE "UNKNOWN"
        [] accepted = "GRANTED" /\ origin # "fabric-legacy" ->
             IF actual = NoTarget \/ origin # "fabric-inventory" THEN "REFUSED"
             ELSE IF ~fresh \/ target = NoTarget THEN "UNKNOWN"
             ELSE DispatchGate("GRANTED", actual = target)

(***************************************************************************)
(* The process.                                                            *)
(***************************************************************************)
Meets(session, expected) ==
  /\ expected.participant \in {NoOne, session.participant}
  /\ expected.scope \in {NoOne, session.scope}

Load(e) ==
  /\ ~requirement.loaded
  /\ Loadable(e)
  /\ requirement' = [loaded |-> TRUE, envelope |-> e, at |-> now,
                     verified |-> VerifiedEvidence(e, now)]
  /\ effect' = NoEffect
  /\ UNCHANGED <<now, bound, obs, call>>

Bind(name, expected, observed) ==
  /\ requirement.loaded
  /\ bound' = [held |-> TRUE, leg |-> name, expected |-> expected,
               verdict |-> IF Meets(requirement.envelope.session, expected)
                           THEN Accept(requirement, name, observed) ELSE "REFUSED"]
  /\ effect' = NoEffect
  /\ UNCHANGED <<now, requirement, obs, call>>

ToolAdmission(granted, covered) == IF granted /\ covered THEN "GRANTED" ELSE "REFUSED"

Need(tool) == CASE tool = "run_command" -> "worker.dispatch"
                [] tool = "write_file" -> "repo.edit"
                [] tool = "commons_publish" -> "evidence.attest"

AtlasGate(need) ==
  /\ bound.held
  /\ ToolAdmission(bound.verdict = "GRANTED",
                   /\ HasLeg(requirement, bound.leg)
                   /\ need \in LegOf(requirement, bound.leg).needs) = "GRANTED"

\* A consequential tool passes its gates, is approved and runs.  A refusal
\* changes nothing.
Execute(tool) ==
  /\ tool = "commons_publish" => AllowPublication
  /\ AtlasGate(Need(tool))
  /\ effect' = [kind |-> "tool", leg |-> bound.leg, need |-> Need(tool),
                expected |-> bound.expected]
  /\ UNCHANGED <<now, requirement, bound, obs, call>>

Origin(w) ==
  CASE Legacy -> "fabric-legacy"
    [] ~Legacy /\ obs[w].trusted -> "fabric-inventory"
    [] OTHER -> "consumer-declared"

\* Mutant: the session is not compared with what the operator expects.
SessionCheckSkipped(expected) == TRUE

SessionCheck(expected) == Meets(requirement.envelope.session, expected)

AtlasDispatchGate(name, w, expected) ==
  /\ requirement.loaded
  /\ Accept(requirement, name, NoArtifact) = "GRANTED"
  /\ "worker.dispatch" \in LegOf(requirement, name).needs
  /\ w \in AuthorizedTargets(requirement, "worker.dispatch")
  /\ SessionCheck(expected)
  /\ Origin(w) = "fabric-inventory"
  /\ obs[w].fresh

\* The gate and the command policy let the job through.
AdmitDispatch(name, w, expected) ==
  /\ call = NoCall
  /\ AtlasDispatchGate(name, w, expected)
  /\ call' = [stage |-> "admitted", leg |-> name, worker |-> w, expected |-> expected]
  /\ effect' = NoEffect
  /\ UNCHANGED <<now, requirement, bound, obs>>

\* client.execute_target: Fabric runs the job, and reports where.
FabricExecutes(actual, passed) ==
  /\ call.stage = "admitted"
  /\ call' = [stage |-> "executed", leg |-> call.leg, worker |-> call.worker,
              actual |-> actual, passed |-> passed]
  /\ effect' = [kind |-> "dispatch", leg |-> call.leg, need |-> "worker.dispatch",
                expected |-> call.expected, worker |-> call.worker]
  /\ UNCHANGED <<now, requirement, bound, obs>>

\* Anything raised before the confirmation ends the call as a failure.
DispatchFails ==
  /\ call # NoCall
  /\ call' = NoCall
  /\ effect' = [kind |-> "report", leg |-> call.leg, actual |-> NoTarget,
                success |-> FALSE, note |-> "FAILED"]
  /\ UNCHANGED <<now, requirement, bound, obs>>

ConfirmDispatch ==
  /\ call.stage = "executed"
  /\ LET verdict == Confirm(requirement, call.leg, call.actual,
                            Origin(call.worker), obs[call.worker].fresh)
     IN  effect' = [kind |-> "report", leg |-> call.leg, actual |-> call.actual,
                    success |-> call.passed /\ verdict # "REFUSED", note |-> verdict]
  /\ call' = NoCall
  /\ UNCHANGED <<now, requirement, bound, obs>>

\* Fabric receives or expires an observation, or its queries start to fail.
Observe(w, view) ==
  /\ obs' = [obs EXCEPT ![w] = view]
  /\ effect' = NoEffect
  /\ UNCHANGED <<now, requirement, bound, call>>

Tick ==
  /\ now < MaxTime
  /\ now' = now + 1
  /\ effect' = NoEffect
  /\ UNCHANGED <<requirement, bound, obs, call>>

Init ==
  /\ now = 0
  /\ requirement = NoRequirement
  /\ bound = NoBinding
  /\ obs = [w \in Target |-> [trusted |-> TRUE, fresh |-> TRUE]]
  /\ call = NoCall
  /\ effect = NoEffect

Next ==
  \/ \E e \in Envelopes : Load(e)
  \/ \E name \in LegName, x \in Expectations, a \in Observed : Bind(name, x, a)
  \/ \E tool \in {"run_command", "write_file", "commons_publish"} : Execute(tool)
  \/ \E name \in LegName, w \in Target, x \in Expectations : AdmitDispatch(name, w, x)
  \/ \E actual \in Target \cup {NoTarget}, passed \in BOOLEAN : FabricExecutes(actual, passed)
  \/ DispatchFails
  \/ ConfirmDispatch
  \/ \E w \in Target, view \in Views : Observe(w, view)
  \/ Tick

Spec == Init /\ [][Next]_vars

------------------------------------------------------------------------------

(***************************************************************************)
(* What Atlas said, read off the envelope alone: some decision speaks of   *)
(* the capability, all that do are genuine, none denies, every condition   *)
(* was met by genuine evidence when the envelope was loaded, and if any    *)
(* names a worker the leg runs on a worker one of them names.              *)
(***************************************************************************)
Genuine(x, e) == x.signed /\ x.session = e.session

Evidenced(e, t, leg, cap, item) ==
  \/ \E l \in Elements(e.legs) : \E a \in l.evidence :
       /\ l.name = leg.name
       /\ a.name = item /\ a.general /\ Genuine(a, e)
       /\ a.issued =< t /\ t - a.issued =< MaxAge
  \/ /\ item = ExecutionTarget
     /\ leg.target # NoTarget
     /\ \E d \in Elements(e.decisions) : d.capability = cap /\ d.target = leg.target

Authorizes(e, t, leg, cap) ==
  LET on == {d \in Elements(e.decisions) : d.capability = cap}
  IN  /\ on # {}
      /\ \A d \in on :
           /\ Genuine(d, e)
           /\ d.status # "denied"
           /\ d.status = "conditional" => \A item \in d.missing : Evidenced(e, t, leg, cap, item)
           /\ d.target # NoTarget => \E c \in on : c.target = leg.target /\ leg.target # NoTarget

\* Every variable stays in its type.
TypeOK ==
  /\ now \in Nat
  /\ requirement = NoRequirement
     \/ requirement \in [loaded : {TRUE}, envelope : Envelope, at : Nat,
                         verified : SUBSET (LegName \X Item)]
  /\ bound = NoBinding
     \/ bound \in [held : {TRUE}, leg : LegName, expected : Expectation, verdict : Grant]
  /\ obs \in [Target -> View]
  /\ \/ call = NoCall
     \/ call \in [stage : {"admitted"}, leg : LegName, worker : Target, expected : Expectation]
     \/ call \in [stage : {"executed"}, leg : LegName, worker : Target,
                  actual : Target \cup {NoTarget}, passed : BOOLEAN]
  /\ \/ effect = NoEffect
     \/ effect \in [kind : {"tool"}, leg : LegName, need : Capability, expected : Expectation]
     \/ effect \in [kind : {"dispatch"}, leg : LegName, need : Capability,
                    expected : Expectation, worker : Target]
     \/ effect \in [kind : {"report"}, leg : LegName, actual : Target \cup {NoTarget},
                    success : BOOLEAN, note : Grant \cup {"FAILED"}]

\* accept grants a leg exactly when Atlas authorized every need of it: denial
\* wins over any number of grants, a conditional decision counts only with
\* authentic and fresh evidence for that leg, and order does not matter.
AcceptIsAuthority ==
  requirement.loaded =>
    \A name \in LegName :
      HasLeg(requirement, name) =>
        LET leg == LegOf(requirement, name)
        IN  Accept(requirement, name, NoArtifact) = "GRANTED"
              <=> \A cap \in leg.needs :
                    Authorizes(requirement.envelope, requirement.at, leg, cap)

\* No consequential tool runs and no job is dispatched, whatever was bound,
\* rebound or observed in between, unless a leg of the loaded requirement
\* covers it, Atlas authorized that leg's need, and the session is the one the
\* operator expects; a job goes only to a worker that Atlas named.
EffectsAuthorized ==
  effect.kind \in {"tool", "dispatch"} =>
    /\ requirement.loaded
    /\ HasLeg(requirement, effect.leg)
    /\ LET leg == LegOf(requirement, effect.leg)
       IN  /\ effect.need \in leg.needs
           /\ Authorizes(requirement.envelope, requirement.at, leg, effect.need)
    /\ Meets(requirement.envelope.session, effect.expected)
    /\ effect.kind = "dispatch" =>
         \E d \in Elements(requirement.envelope.decisions) :
           d.capability = "worker.dispatch" /\ d.target = effect.worker

\* A confirmed execution ran on the worker its leg declares, and Atlas
\* authorized dispatching there (confirm_execution).
ConfirmedWhereAuthorized ==
  effect.kind = "report" /\ effect.note = "GRANTED" =>
    LET leg == LegOf(requirement, effect.leg)
    IN  /\ effect.actual = leg.target
        /\ Authorizes(requirement.envelope, requirement.at, leg, "worker.dispatch")
==============================================================================
