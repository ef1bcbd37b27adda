------------------------------ MODULE Placement ------------------------------
(***************************************************************************)
(* From a task to a model on a worker.  plan_route turns a task and the    *)
(* operator's request into the roles to try (router.py and the kernels     *)
(* harness_routing and harness_pins); each role is resolved against a      *)
(* captured Fabric status by resolve_model_from_status                     *)
(* (fabric_inventory_session.py), which ranks installed models by claims,  *)
(* observed evidence and policy (model_selection.py, harness_eligibility). *)
(* Inventories are refreshed and evidence is appended by other processes   *)
(* at any time, so a role may be resolved against a status that is no      *)
(* longer true.                                                            *)
(***************************************************************************)
EXTENDS Integers, Sequences, FiniteSets

CONSTANTS Worker, Model, NoWorker, NoModel,
          Remote,          \* the workers the controller lists as remote
          WorkerRank,      \* the order of worker identities
          NameRank,        \* the order of model names
          Size,            \* stored bytes of a model, 0 when not reported
          Unsized,         \* the rank of an unknown size, above every size
          MaxCoder,        \* SelectionPolicy.max_coder_bytes
          RequireObserved, AllowUnclaimed,   \* the rest of SelectionPolicy
          Resident,        \* residency.workers: the model kept on a worker
          PreferResident,  \* prefer_resident_for_auto_routing
          Enabled,         \* fabric.enabled
          Configured,      \* models[role].name
          Thinks,          \* models[role].think
          FirstRole,       \* the first role of the configuration
          Lanes,           \* worker roles of the legacy heuristic lanes
          Specialist,      \* routing.code_specialist_enabled
          MaxAttempts,     \* routing.max_attempts
          Unreported,      \* a copy whose capabilities were not probed
          Fleets,          \* what the controller may know at the start
          Rows,            \* the rows a refresh of each worker may find
          Orders,          \* the orders in which the controller lists workers
          Requests, Profiles,
          MaxRefreshes, MaxEvidence   \* bounds of the model

Role == {"e2b", "e4b", "coder", "reviewer"}
Claim == {"completion", "tools", "thinking"}
Freshness == {"CURRENT", "STALE", "UNKNOWN"}
Outcome == {"PASS", "FAIL", "UNKNOWN"}
Probed == {"reachability", "tool_call", "code_edit"}
Mode == {"AUTO", "ROLE", "MODEL", "WORKER", "WORKER_MODEL", "WORKER_MODEL_ROLE"}

Absent == [listed |-> FALSE, claims |-> {}, loaded |-> FALSE]
Copy == [listed : {TRUE}, claims : (SUBSET Claim) \cup {Unreported}, loaded : BOOLEAN]
            \cup {Absent}
Row == [up : BOOLEAN, freshness : Freshness, models : [Model -> Copy]]

NoRole == "none"

\* RoutingOverride: which fields each mode carries is mncs.harness.pins.v1.
Request == {q \in [mode : Mode, role : Role \cup {NoRole}, worker : Worker \cup {NoWorker},
                   model : Model \cup {NoModel}, fallback : BOOLEAN] :
               /\ (q.role # NoRole) <=> (q.mode \in {"ROLE", "WORKER_MODEL_ROLE"})
               /\ (q.worker # NoWorker)
                    <=> (q.mode \in {"WORKER", "WORKER_MODEL", "WORKER_MODEL_ROLE"})
               /\ (q.model # NoModel)
                    <=> (q.mode \in {"MODEL", "WORKER_MODEL", "WORKER_MODEL_ROLE"})}

Profile == [code : BOOLEAN, acts : BOOLEAN, risky : BOOLEAN]

ASSUME PlacementAssumption ==
  /\ NoWorker \notin Worker /\ NoModel \notin Model
  /\ IsFiniteSet(Worker) /\ IsFiniteSet(Model)
  /\ Remote \subseteq Worker
  /\ WorkerRank \in [Worker -> Nat]
  /\ \A v, w \in Worker : WorkerRank[v] = WorkerRank[w] => v = w
  /\ NameRank \in [Model -> Nat]
  /\ \A m, n \in Model : NameRank[m] = NameRank[n] => m = n
  /\ Size \in [Model -> Nat] /\ Unsized \in Nat /\ MaxCoder \in Nat
  /\ \A m \in Model : Size[m] < Unsized
  /\ {RequireObserved, AllowUnclaimed, PreferResident, Enabled, Specialist} \subseteq BOOLEAN
  /\ Resident \in [Worker -> Model \cup {NoModel}]
  /\ DOMAIN Configured \subseteq Role
  /\ Configured \in [DOMAIN Configured -> Model]
  /\ Thinks \in [DOMAIN Configured -> BOOLEAN]
  /\ FirstRole \in DOMAIN Configured
  /\ Lanes \subseteq DOMAIN Configured
  /\ MaxAttempts \in Nat
  /\ Fleets \subseteq [Worker -> Row]
  /\ Rows \in [Worker -> SUBSET Row]
  /\ Orders \subseteq [Worker -> Nat]
  /\ Requests \subseteq Request
  /\ Profiles \subseteq Profile
  /\ MaxRefreshes \in Nat /\ MaxEvidence \in Nat

VARIABLES
  fleet,      \* the controller's row of each worker
  evidence,   \* model-evidence.jsonl; its subject_worker is never read back
  task,       \* the request and the roles still to try, or Idle
  status,     \* the captured FabricStatus, or NotCaptured
  decision,   \* what the role at the head was resolved to, or Undecided
  refreshes   \* refreshes so far, bounded by MaxRefreshes

vars == <<fleet, evidence, task, status, decision, refreshes>>

Idle == [roles |-> <<>>, request |-> [mode |-> "AUTO", role |-> NoRole, worker |-> NoWorker,
                                      model |-> NoModel, fallback |-> FALSE]]
NotCaptured == [rows |-> <<>>, order |-> <<>>]
Undecided == [decided |-> FALSE]

-----------------------------------------------------------------------------
(* The route: harness_routing, harness_pins and plan_route.                *)

\* Mutant: a failed pin always falls back.
IsExactPinNever(mode) == FALSE

IsExactPin(mode) == mode \notin {"AUTO", "ROLE"}

ClassifyRoute(p) == IF p.risky THEN "reviewer" ELSE IF p.acts THEN "e4b" ELSE "e2b"

Available(role) == IF role \in DOMAIN Configured THEN role ELSE FirstRole

IfConfigured(role) == IF role \in DOMAIN Configured THEN <<role>> ELSE <<>>

\* The roles after the primary one; "coder" only for code and a specialist.
Escalations(p) ==
  CASE ClassifyRoute(p) = "reviewer" -> <<>>
    [] ClassifyRoute(p) = "e4b" -> (IF Specialist /\ p.code THEN IfConfigured("coder") ELSE <<>>)
                                     \o IfConfigured("reviewer")
    [] ClassifyRoute(p) = "e2b" -> IfConfigured("e4b") \o IfConfigured("reviewer")

DeterministicRoute(p) ==
  LET all == <<Available(ClassifyRoute(p))>> \o Escalations(p)
      most == IF MaxAttempts < 1 THEN 1 ELSE MaxAttempts
  IN  SubSeq(all, 1, IF most < Len(all) THEN most ELSE Len(all))

\* Mutant: a pin keeps the cascade.
PlanRouteCascade(p, q) ==
  IF q.role # NoRole
  THEN IF q.role \in DOMAIN Configured THEN {<<q.role>>} ELSE {}
  ELSE {DeterministicRoute(p)}

\* The routes of a request: none when the forced role is not configured.  A
\* legacy lane replaces the primary role of an automatic route.
PlanRoute(p, q) ==
  IF q.role # NoRole
  THEN IF q.role \in DOMAIN Configured THEN {<<q.role>>} ELSE {}
  ELSE IF IsExactPin(q.mode) THEN {SubSeq(DeterministicRoute(p), 1, 1)}
  ELSE {DeterministicRoute(p)}
         \cup {<<lane>> \o Tail(DeterministicRoute(p)) : lane \in Lanes}

-----------------------------------------------------------------------------
(* Capability requirements, evidence and eligibility.                      *)

Requirements(role) ==
  [tools |-> role # "e2b", codeEdit |-> role = "coder",
   prefers |-> IF role = "e2b" THEN "small" ELSE IF role = "reviewer" THEN "large" ELSE "fit",
   unknown |-> IF role = "e2b" THEN "explore" ELSE "provider-claim-compat"]

\* Mutant: the first record counts instead of the last.
ObservedFirst(records, m, c) ==
  LET about == {i \in DOMAIN records : records[i].model = m /\ records[i].capability = c}
      first == CHOOSE i \in about : \A j \in about : i <= j
  IN  IF about = {} \/ records[first].outcome = "UNKNOWN" THEN "NONE" ELSE records[first].outcome

\* latest_outcome, which no caller narrows to a worker, as _observed_code.
Observed(records, m, c) ==
  LET about == {i \in DOMAIN records : records[i].model = m /\ records[i].capability = c}
      last == CHOOSE i \in about : \A j \in about : j <= i
  IN  IF about = {} \/ records[last].outcome = "UNKNOWN" THEN "NONE" ELSE records[last].outcome

\* The kernel capability_eligible.
CapabilityEligible(gate, observed, claimed, unknown) ==
  /\ observed # "FAIL"
  /\ \/ observed = "PASS"
     \/ gate = "CODE_EDIT"
     \/ gate = "COMPLETION" /\ (claimed \/ unknown # "fail-closed" \/ ~RequireObserved)
     \/ gate = "TOOLS" /\ IF claimed THEN ~RequireObserved
                          ELSE \/ unknown = "explore"
                               \/ unknown = "provider-claim-compat" /\ AllowUnclaimed

Claims(copy) == IF copy.claims = Unreported THEN {} ELSE copy.claims

Eligible(records, m, copy, need) ==
  /\ CapabilityEligible("COMPLETION", Observed(records, m, "reachability"),
                        "completion" \in Claims(copy), need.unknown)
  /\ need.tools => CapabilityEligible("TOOLS", Observed(records, m, "tool_call"),
                                      "tools" \in Claims(copy), need.unknown)
  /\ need.codeEdit => CapabilityEligible("CODE_EDIT", Observed(records, m, "code_edit"),
                                         FALSE, need.unknown)

ToolSignal(records, m, copy) ==
  "tools" \in Claims(copy) \/ Observed(records, m, "tool_call") = "PASS"

SizeRank(m, prefers) ==
  CASE prefers = "small" -> IF Size[m] > 0 THEN Size[m] ELSE Unsized
    [] prefers = "large" -> -Size[m]
    [] prefers = "fit" -> IF Size[m] = 0 THEN Unsized
                          ELSE IF Size[m] <= MaxCoder THEN -Size[m] ELSE Size[m]

Last(fact) == IF fact THEN 0 ELSE 1

\* Mutant: cold models are ranked before warm ones.
RankKeyCold(records, m, copy, need) ==
  <<Last(need.tools /\ Observed(records, m, "tool_call") = "PASS"),
    Last(need.codeEdit /\ Observed(records, m, "code_edit") = "PASS"),
    Last(need.tools /\ "tools" \in Claims(copy)),
    Last(~copy.loaded),
    SizeRank(m, need.prefers),
    NameRank[m]>>

\* The sort key of select_installed_model.
RankKey(records, m, copy, need) ==
  <<Last(need.tools /\ Observed(records, m, "tool_call") = "PASS"),
    Last(need.codeEdit /\ Observed(records, m, "code_edit") = "PASS"),
    Last(need.tools /\ "tools" \in Claims(copy)),
    Last(copy.loaded),
    SizeRank(m, need.prefers),
    NameRank[m]>>

Precedes(a, b) == \E i \in DOMAIN a : a[i] < b[i] /\ \A j \in 1 .. (i - 1) : a[j] = b[j]

\* Mutant: a tools signal is demanded even when no candidate has one.
AdmissibleSignalled(records, copies, need) ==
  {m \in DOMAIN copies : /\ Eligible(records, m, copies[m], need)
                         /\ need.tools => ToolSignal(records, m, copies[m])}

\* The models left after the gates: when some copy has a tools signal, the
\* others are rejected for a role that needs tools.
Admissible(records, copies, need) ==
  {m \in DOMAIN copies :
     /\ Eligible(records, m, copies[m], need)
     /\ (need.tools /\ \E n \in DOMAIN copies : ToolSignal(records, n, copies[n]))
           => ToolSignal(records, m, copies[m])}

\* select_installed_model: the configured tag when it is there, else the first
\* admissible model of the ranking.
SelectInstalled(records, role, copies) ==
  LET need == Requirements(role)
      fit == Admissible(records, copies, need)
  IN  IF Configured[role] \in DOMAIN copies
      THEN {Configured[role]}
      ELSE {m \in fit : \A n \in fit \ {m} :
              Precedes(RankKey(records, m, copies[m], need), RankKey(records, n, copies[n], need))}

-----------------------------------------------------------------------------
(* Resolution against a captured status.                                   *)

Usable == {"CURRENT", "STALE"}

\* _worker_inventory with allow_stale, the only way it is called here.
Listed(row) == {m \in Model : row.freshness \in Usable /\ row.models[m].listed}

Candidates(st) == {w \in Remote : st.rows[w].up /\ Listed(st.rows[w]) # {}}

\* Mutant: workers are ranked without asking whether they list the model.
HoldersAll(st, workers, m) == workers

Holders(st, workers, m) == {w \in workers : m \in Listed(st.rows[w])}

\* The copies of the workers taken together; of several, the first listed counts.
Merged(st, workers) ==
  LET first(m) == CHOOSE w \in Holders(st, workers, m) :
                    \A v \in Holders(st, workers, m) : st.order[w] <= st.order[v]
  IN  [m \in UNION {Listed(st.rows[w]) : w \in workers} |-> st.rows[first(m)].models[m]]

\* The worker that comes first for a model: warm, declared resident, by name.
Place(st, workers, m, warmFirst) ==
  LET key(w) == <<Last(warmFirst => st.rows[w].models[m].loaded), Last(Resident[w] = m),
                  WorkerRank[w]>>
  IN  {w \in Holders(st, workers, m) :
         \A v \in Holders(st, workers, m) \ {w} : Precedes(key(w), key(v))}

\* A pinned worker must be up, and current unless the model is pinned as well.
PinHolds(row, mode) ==
  row.up /\ row.freshness \in IF mode = "WORKER_MODEL" THEN Usable ELSE {"CURRENT"}

\* What an exact pin resolves to: a set of placements, empty when it fails.
Pinned(st, records, role, q) ==
  CASE q.mode = "WORKER" ->
         {[model |-> m, worker |-> q.worker] :
            m \in {n \in SelectInstalled(records, role, Merged(st, {q.worker})) :
                     PinHolds(st.rows[q.worker], q.mode)}}
    [] q.mode \in {"WORKER_MODEL", "WORKER_MODEL_ROLE"} ->
         {[model |-> q.model, worker |-> w] :
            w \in {v \in {q.worker} : /\ PinHolds(st.rows[v], q.mode)
                                      /\ q.model \in Listed(st.rows[v])}}
    [] q.mode = "MODEL" ->
         {[model |-> q.model, worker |-> w] :
            w \in Place(st, {v \in Candidates(st) : st.rows[v].freshness = "CURRENT"},
                        q.model, TRUE)}
    [] q.mode \in {"AUTO", "ROLE"} -> {}

\* Automatic placement: the configured tag where it is installed, else the
\* best admissible model of all candidates.
Automatic(st, records, role) ==
  UNION {{[model |-> m, worker |-> w] : w \in Place(st, Candidates(st), m, PreferResident)} :
           m \in SelectInstalled(records, role, Merged(st, Candidates(st)))}

\* think is dropped for a candidate's copy that reports no thinking.
EffectiveThink(st, role, m, w) ==
  /\ Thinks[role]
  /\ ~ /\ w \in Candidates(st)
       /\ m \in Listed(st.rows[w])
       /\ st.rows[w].models[m].claims # Unreported
       /\ "thinking" \notin st.rows[w].models[m].claims

Decision(st, role, m, w, available) ==
  [decided |-> TRUE, model |-> m, worker |-> w, available |-> available,
   think |-> EffectiveThink(st, role, m, w)]

\* resolve_model_from_status: the pin, a refusal, or an automatic placement.
\* Without one an enabled session refuses; a disabled one leaves the model alone.
Resolutions(st, records, role, q) ==
  LET pinned == Pinned(st, records, role, q)
      auto == Automatic(st, records, role)
      shown == IF q.model # NoModel THEN q.model ELSE Configured[role]
      Taken(places) == {Decision(st, role, p.model, p.worker, TRUE) : p \in places}
  IN  IF pinned # {} THEN Taken(pinned)
      ELSE IF IsExactPin(q.mode) /\ ~q.fallback
      THEN {Decision(st, role, shown, q.worker, FALSE)}
      ELSE IF auto # {} THEN Taken(auto)
      ELSE {Decision(st, role, Configured[role], NoWorker, ~Enabled)}

-----------------------------------------------------------------------------

Init ==
  /\ fleet \in Fleets
  /\ evidence = <<>>
  /\ task = Idle
  /\ status = NotCaptured
  /\ decision = Undecided
  /\ refreshes = 0

Plan(p, q) ==
  /\ task = Idle
  /\ \E roles \in PlanRoute(p, q) : task' = [roles |-> roles, request |-> q]
  /\ UNCHANGED <<fleet, evidence, status, decision, refreshes>>

Capture(order) ==
  /\ task # Idle
  /\ status = NotCaptured
  /\ status' = [rows |-> fleet, order |-> order]
  /\ UNCHANGED <<fleet, evidence, task, decision, refreshes>>

Resolve ==
  /\ status # NotCaptured
  /\ decision = Undecided
  /\ decision' \in Resolutions(status, evidence, Head(task.roles), task.request)
  /\ UNCHANGED <<fleet, evidence, task, status, refreshes>>

\* The attempt with that model ends: the run goes on with the next role, when
\* there is one, unless the attempt passed or escalation is off.
Attempted(over) ==
  /\ decision # Undecided
  /\ task' = IF over \/ Len(task.roles) = 1
             THEN Idle ELSE [task EXCEPT !.roles = Tail(@)]
  /\ status' = NotCaptured
  /\ decision' = Undecided
  /\ UNCHANGED <<fleet, evidence, refreshes>>

\* The controller observes a worker, or loses sight of it.
Refresh(w) ==
  /\ refreshes < MaxRefreshes
  /\ fleet' \in {[fleet EXCEPT ![w] = row] : row \in Rows[w]}
  /\ refreshes' = refreshes + 1
  /\ UNCHANGED <<evidence, task, status, decision>>

\* planned_probes, as far as the evidence they leave is read by a placement.
PlannedProbes(copy) ==
  {"reachability"} \cup IF "tools" \in Claims(copy) THEN {"tool_call"} ELSE {}

\* verify-models --persist: a probe of a current copy appends its record.
VerifyCandidate(w, m, c, o) ==
  /\ Len(evidence) < MaxEvidence
  /\ fleet[w].up /\ fleet[w].freshness = "CURRENT" /\ m \in Listed(fleet[w])
  /\ c \in PlannedProbes(fleet[w].models[m])
  /\ evidence' = Append(evidence, [model |-> m, capability |-> c, outcome |-> o])
  /\ UNCHANGED <<fleet, task, status, decision, refreshes>>

Next ==
  \/ \E p \in Profiles, q \in Requests : Plan(p, q)
  \/ \E order \in Orders : Capture(order)
  \/ Resolve
  \/ \E over \in BOOLEAN : Attempted(over)
  \/ \E w \in Worker : Refresh(w)
  \/ \E w \in Worker, m \in Model, c \in Probed, o \in Outcome : VerifyCandidate(w, m, c, o)

Spec == Init /\ [][Next]_vars

-----------------------------------------------------------------------------

Captured == [rows : [Worker -> Row], order : [Worker -> Nat]]
Resolution == [decided : {TRUE}, model : Model, worker : Worker \cup {NoWorker},
               available : BOOLEAN, think : BOOLEAN]
EvidenceRecord == [model : Model, capability : Probed, outcome : Outcome]

\* Every variable keeps its type: roles are configured, a status was a fleet.
TypeOK ==
  /\ fleet \in [Worker -> Row]
  /\ evidence \in Seq(EvidenceRecord)
  /\ task \in [roles : Seq(DOMAIN Configured), request : Request]
  /\ task # Idle => task.roles # <<>>
  /\ status \in Captured \cup {NotCaptured}
  /\ status # NotCaptured => task # Idle
  /\ decision \in Resolution \cup {Undecided}
  /\ decision # Undecided => status # NotCaptured
  /\ refreshes \in 0 .. MaxRefreshes

Resolving == ~decision.decided /\ decision'.decided

ResolvedRole == Head(task.roles)

\* An exact pin without fallback resolves to exactly what it names or to
\* nothing, whatever the fleet looks like when it is resolved (admit_placement).
PinsFailClosed ==
  [][(/\ Resolving
      /\ ~task.request.fallback
      /\ decision'.available)
        => /\ task.request.worker \in {NoWorker, decision'.worker}
           /\ task.request.model \in {NoModel, decision'.model}]_vars

\* What is selected was there: the captured status shows the worker up and
\* listing the model, in an inventory that is current when the choice was left to
\* Fabric by a pin.  An automatic placement, and what a failed pin falls back to,
\* takes stale inventories too (AutomaticIsCurrent).
SelectionIsReal ==
  [][(Resolving /\ decision'.available /\ Enabled)
        => /\ decision'.worker \in Worker
           /\ status.rows[decision'.worker].up
           /\ decision'.model \in Listed(status.rows[decision'.worker])
           /\ (/\ task.request.mode \in {"WORKER", "MODEL", "WORKER_MODEL_ROLE"}
               /\ ~task.request.fallback)
                => status.rows[decision'.worker].freshness = "CURRENT"]_vars

\* docs/FABRIC.md:180-185 of automatic and role-based placement: it uses current
\* inventories only and a stale one fails closed.  resolve_model_from_status
\* accepts last-known ones, so this does not hold.
AutomaticIsCurrent ==
  [][(/\ Resolving /\ decision'.available /\ Enabled
      /\ task.request.mode \in {"AUTO", "ROLE"})
        => status.rows[decision'.worker].freshness = "CURRENT"]_vars

FailedLast(records, m, c) ==
  \E i \in DOMAIN records :
    /\ records[i].model = m /\ records[i].capability = c /\ records[i].outcome = "FAIL"
    /\ \A j \in DOMAIN records :
         (j > i) => ~(records[j].model = m /\ records[j].capability = c)

\* A model that nobody asked for by name is not selected for a role when its
\* last probe of a capability the role needs had failed, however much it claims.
FailuresHeeded ==
  [][(/\ Resolving
      /\ decision'.available
      /\ decision'.worker # NoWorker
      /\ decision'.model \notin {Configured[ResolvedRole], task.request.model})
        => /\ ~FailedLast(evidence, decision'.model, "reachability")
           /\ Requirements(ResolvedRole).tools
                => ~FailedLast(evidence, decision'.model, "tool_call")]_vars

\* The system works whatever the installed models are called: as long as no
\* probe has failed, an automatic route with any candidate gets a placement.
AnyTagWillDo ==
  [][(/\ Resolving
      /\ task.request.mode \in {"AUTO", "ROLE"}
      /\ Candidates(status) # {}
      /\ \A i \in DOMAIN evidence : evidence[i].outcome # "FAIL")
        => decision'.available /\ decision'.worker \in Candidates(status)]_vars

\* The status once the worker has loaded the model, in place of its others.
Warmed(st, w, m) ==
  [st EXCEPT !.rows[w].models =
     [n \in Model |-> IF @[n].listed THEN [@[n] EXCEPT !.loaded = n = m] ELSE @[n]]]

\* A placement is a fixed point: once the chat has warmed the model where it was
\* placed, the same question gets the same answer, so routes do not wander.
PlacementSticks ==
  [][(Resolving /\ decision'.available /\ decision'.worker # NoWorker)
        => \A d \in Resolutions(Warmed(status, decision'.worker, decision'.model),
                                evidence, ResolvedRole, task.request) :
             d.model = decision'.model /\ d.worker = decision'.worker]_vars

\* The cascade: any pin is tried with one role, an automatic request with at
\* most max_attempts roles and, without legacy lanes, no role twice.
CascadeIsBounded ==
  task # Idle =>
    /\ task.request.mode # "AUTO" => Len(task.roles) = 1
    /\ Len(task.roles) <= MaxAttempts \/ Len(task.roles) = 1
    /\ (Lanes = {} /\ {"e2b", "e4b"} \subseteq DOMAIN Configured)
         => \A i, j \in DOMAIN task.roles : (task.roles[i] = task.roles[j]) => i = j

==============================================================================
