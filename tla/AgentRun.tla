------------------------------- MODULE AgentRun -------------------------------
(***************************************************************************)
(* One task run by LocalAgent (src/src/mncs_harness/agent.py): a chain of  *)
(* attempts, each a loop of chats and tool calls, verified, followed by    *)
(* the restoration of the worker it used, and escalated when it failed.    *)
(* With it go what its chats touch: FabricOllamaProvider (provider.py),    *)
(* FabricSession.chat (fabric.py), write_file and run_command (tools.py),  *)
(* Verifier (verifiers.py) and ResidencyManager.reconcile for one worker   *)
(* (residency.py).                                                         *)
(*                                                                         *)
(* A worker keeps one model loaded, as a constrained accelerator does.     *)
(* A file is "good" when the verifier's checks for its type accept it.     *)
(***************************************************************************)
EXTENDS Integers, FiniteSets

CONSTANTS
  Worker, NoWorker,
  Model, NoModel,
  File,
  Declared,      \* [Worker -> Model \cup {NoModel}], model_residency.workers
  Loaded,        \* what the workers may have loaded when the run starts
  Configs,       \* the settings the agent may be started with
  Routes,        \* the routes plan_route may return
  MaxToolSteps,  \* max_tool_steps
  MaxCalls,      \* bound: tool calls in one message
  MaxLost        \* bound: dispatches given up that a worker may still run

Config == [fallback : BOOLEAN,        \* fabric.fallback_to_local
           escalate : BOOLEAN,        \* routing.escalate_on_verifier_failure
           toolErrors : BOOLEAN,      \* routing.escalate_on_tool_error
           publish : BOOLEAN,         \* commons.publish_fabric_evidence, and ready
           residency : BOOLEAN]       \* model_residency.enabled
Route == [pin : Worker \cup {NoWorker}, allowFallback : BOOLEAN, roles : Nat \ {0}]
Placement == [kind : {"worker"}, worker : Worker, model : Model]
               \cup [kind : {"unavailable", "local"}, worker : {NoWorker}, model : {NoModel}]
Attempt == [no : Nat \ {0}, place : Placement, step : Nat, calls : Nat, asked : BOOLEAN,
            target : {"none", "worker", "controller", "unresolved"},
            error : BOOLEAN, blank : BOOLEAN, toolFailed : BOOLEAN, passed : BOOLEAN,
            restored : {"none", "PASS", "UNKNOWN"}]
Chat == (Nat \ {0}) \X Nat
NoRecord == <<0, 0>>
Stage == {"resolve", "chat", "sent", "executed", "failed", "reply", "raised",
          "tools", "verify", "restore", "done"}

ASSUME AgentAssumption ==
  /\ NoWorker \notin Worker
  /\ NoModel \notin Model
  /\ Declared \in [Worker -> Model \cup {NoModel}]
  /\ Loaded \subseteq [Worker -> Model \cup {NoModel}]
  /\ Configs \subseteq Config
  /\ Routes \subseteq Route
  /\ MaxToolSteps \in Nat
  /\ MaxCalls \in Nat
  /\ MaxLost \in Nat

VARIABLES
  config, route,  \* fixed for the run
  stage,          \* where LocalAgent.run is
  attempt,        \* the attempt under way, or the last one
  touched,        \* registry.modified_paths: written in this attempt
  tracked,        \* cumulative_modified
  disk,           \* [File -> what the verifier would find]
  written,        \* files a write_file call reported written, over the whole run
  record,         \* fabric_session.last_execution_record, by the chat that left it
  published,      \* evidence sent to Commons
  resident,       \* [Worker -> the model it has loaded]
  seen,           \* [Worker -> the model Fabric's inventory says it has loaded]
  lost,           \* dispatches that raised and that the worker may still run
  owed,           \* workers taken from their declared model since they were
                  \* last reconciled
  strayed         \* those of them that a lost dispatch took, nothing else

vars == <<config, route, stage, attempt, touched, tracked, disk, written, record,
          published, resident, seen, lost, owed, strayed>>

files == <<touched, tracked, disk, written>>
debts == <<lost, owed, strayed>>
fabric == <<record, resident, seen, debts>>

\* The chat under way.
At == <<attempt.no, attempt.step>>

Begun(no) == [no |-> no, place |-> [kind |-> "local", worker |-> NoWorker, model |-> NoModel],
              step |-> 0, calls |-> 0, asked |-> FALSE, target |-> "none",
              error |-> FALSE, blank |-> TRUE, toolFailed |-> FALSE, passed |-> FALSE,
              restored |-> "none"]

\* An exact pin resolves to the pinned worker or to none, unless the operator
\* allowed fallback; a role that Fabric does not provide is local.
Resolutions ==
  {p \in Placement : p.kind = "worker" =>
                       route.pin = NoWorker \/ route.allowFallback \/ p.worker = route.pin}

(***************************************************************************)
(* One chat: FabricOllamaProvider.chat, FabricSession.chat.                *)
(***************************************************************************)
Resolve(p) ==
  /\ stage = "resolve"
  /\ stage' = "chat"
  /\ attempt' = [Begun(attempt.no) EXCEPT !.place = p]
  /\ touched' = {}
  /\ UNCHANGED <<config, route, tracked, disk, written, published, fabric>>

\* Mutant: the record of the previous execution is left in place.
ResetRecordNot == record

ResetRecord == NoRecord

Dispatch ==
  /\ stage = "chat"
  /\ attempt.place.kind = "worker"
  /\ record' = ResetRecord
  /\ attempt' = [attempt EXCEPT !.asked = TRUE]
  /\ stage' = "sent"
  /\ UNCHANGED <<config, route, files, published, resident, seen, debts>>

\* No worker to place the chat on, or the session is not available: nothing of
\* the session changes.
Unplaced ==
  /\ stage = "chat"
  /\ attempt.place.kind # "local"
  /\ attempt' = [attempt EXCEPT !.asked = FALSE]
  /\ stage' = "failed"
  /\ UNCHANGED <<config, route, files, published, fabric>>

\* Does running m take w from the model it is declared to keep?
Displaces(w, m) == Declared[w] \notin {NoModel, m}

\* The worker loads the model and answers, whether or not the answer arrives.
WorkerExecutes ==
  /\ stage = "sent"
  /\ LET w == attempt.place.worker
         m == attempt.place.model
     IN  /\ resident' = [resident EXCEPT ![w] = m]
         /\ owed' = IF Displaces(w, m) THEN owed \cup {w} ELSE owed
         /\ strayed' = IF Displaces(w, m) THEN strayed \ {w} ELSE strayed
  /\ stage' = "executed"
  /\ UNCHANGED <<config, route, attempt, files, published, record, seen, lost>>

\* execute raises: the worker ran the bundle, or never will, or still may.
DispatchRaises ==
  /\ stage \in {"sent", "executed"}
  /\ stage' = "failed"
  /\ lost' \in {lost} \cup
       IF stage = "sent" /\ Cardinality(lost) < MaxLost
       THEN {lost \cup {<<attempt.place.worker, attempt.place.model>>}} ELSE {}
  /\ UNCHANGED <<config, route, attempt, files, published, record, resident, seen,
                 owed, strayed>>

\* A worker runs a bundle nobody waits for, at any later time.
RunsLate(w, m) ==
  /\ <<w, m>> \in lost
  /\ lost' = lost \ {<<w, m>>}
  /\ resident' = [resident EXCEPT ![w] = m]
  /\ owed' = IF Displaces(w, m) THEN owed \cup {w} ELSE owed
  /\ strayed' = IF Displaces(w, m) /\ w \notin owed THEN strayed \cup {w} ELSE strayed
  /\ UNCHANGED <<config, route, stage, attempt, files, published, record, seen>>

\* The result came back: with a usable response, or with any other disposition,
\* with or without a record.
Collect(usable) ==
  /\ stage = "executed"
  /\ record' \in IF usable THEN {At} ELSE {At, NoRecord}
  /\ attempt' = [attempt EXCEPT !.target = IF usable THEN "worker" ELSE @]
  /\ stage' = IF usable THEN "reply" ELSE "failed"
  /\ UNCHANGED <<config, route, files, published, resident, seen, debts>>

\* session_targets, when the provider recorded no controller inference.
Intended == IF attempt.place.kind = "worker" THEN "worker" ELSE "unresolved"

FallBack(answered) ==
  /\ stage = "failed"
  /\ config.fallback
  /\ attempt' = [attempt EXCEPT !.target = IF answered THEN "controller" ELSE Intended]
  /\ stage' = IF answered THEN "reply" ELSE "raised"
  /\ UNCHANGED <<config, route, files, published, fabric>>

ProviderRaises ==
  /\ stage = "failed"
  /\ ~config.fallback
  /\ attempt' = [attempt EXCEPT !.target = Intended]
  /\ stage' = "raised"
  /\ UNCHANGED <<config, route, files, published, fabric>>

LocalChat(answered) ==
  /\ stage = "chat"
  /\ attempt.place.kind = "local"
  /\ attempt' = [attempt EXCEPT !.target = "controller", !.asked = FALSE]
  /\ stage' = IF answered THEN "reply" ELSE "raised"
  /\ UNCHANGED <<config, route, files, published, fabric>>

(***************************************************************************)
(* _run_attempt after a chat.                                              *)
(***************************************************************************)
\* _publish_fabric_evidence: Commons may refuse what it is given.
Publish ==
  \/ published' = published
  \/ /\ config.publish
     /\ record # NoRecord
     /\ published' = published \cup {[record |-> record, at |-> At, asked |-> attempt.asked]}

Raised ==
  /\ stage = "raised"
  /\ Publish
  /\ attempt' = [attempt EXCEPT !.error = TRUE]
  /\ stage' = "verify"
  /\ UNCHANGED <<config, route, files, fabric>>

StepsUsedUp == attempt.step >= MaxToolSteps

Reply(calls, blank) ==
  /\ stage = "reply"
  /\ Publish
  /\ attempt' = [attempt EXCEPT !.blank = blank, !.calls = IF StepsUsedUp THEN 0 ELSE calls,
                                !.error = calls > 0 /\ StepsUsedUp]
  /\ stage' = IF calls > 0 /\ ~StepsUsedUp THEN "tools" ELSE "verify"
  /\ UNCHANGED <<config, route, files, fabric>>

(***************************************************************************)
(* The tool calls of one message.                                          *)
(***************************************************************************)
CallTool(failed) ==
  /\ stage = "tools"
  /\ attempt.calls > 0
  /\ attempt' = [attempt EXCEPT !.calls = @ - 1, !.toolFailed = @ \/ failed]
  /\ UNCHANGED <<config, route, stage, tracked, published, fabric>>

WriteFile(f, content) ==
  /\ CallTool(FALSE)
  /\ disk' = [disk EXCEPT ![f] = content]
  /\ touched' = touched \cup {f}
  /\ written' = written \cup {f}

\* write_text raises after it truncated the file: the path is not recorded.
WriteTorn(f) ==
  /\ CallTool(TRUE)
  /\ disk' = [disk EXCEPT ![f] = "bad"]
  /\ UNCHANGED <<touched, written>>

\* A permitted command may change or remove a file.
RunCommand(f, content, failed) ==
  /\ CallTool(failed)
  /\ disk' = [disk EXCEPT ![f] = content]
  /\ UNCHANGED <<touched, written>>

\* Anything refused, denied or read-only.
OtherTool(failed) ==
  /\ CallTool(failed)
  /\ UNCHANGED <<disk, touched, written>>

ToolsDone ==
  /\ stage = "tools"
  /\ attempt.calls = 0
  /\ attempt' = [attempt EXCEPT !.step = @ + 1]
  /\ stage' = "chat"
  /\ UNCHANGED <<config, route, files, published, fabric>>

(***************************************************************************)
(* Verification, restoration and escalation.                               *)
(***************************************************************************)
\* Mutant: only this attempt's files are verified.
CumulativeLast == touched

Cumulative == tracked \cup touched

\* "sound" stands for the configured unit tests and shellcheck.
Verify(sound) ==
  /\ stage = "verify"
  /\ tracked' = Cumulative
  /\ attempt' = [attempt EXCEPT !.passed =
       /\ sound
       /\ \A f \in Cumulative : disk[f] # "bad"
       /\ ~attempt.error
       /\ ~(config.toolErrors /\ attempt.toolFailed)
       /\ ~attempt.blank]
  /\ stage' = "restore"
  /\ UNCHANGED <<config, route, touched, disk, written, published, fabric>>

\* Mutant: the next role is never taken up.
NextRoleSame == attempt.no

NextRole == attempt.no + 1

\* After the attempt was recorded with the outcome of its restoration.
Continue(outcome) ==
  IF attempt.passed \/ ~config.escalate \/ attempt.no >= route.roles
  THEN stage' = "done" /\ attempt' = [attempt EXCEPT !.restored = outcome]
  ELSE stage' = "resolve" /\ attempt' = [attempt EXCEPT !.restored = outcome, !.no = NextRole]

\* Mutant: only a passing attempt gives its worker back.
RestoreDuePassed ==
  /\ config.residency
  /\ attempt.place.kind = "worker"
  /\ attempt.target # "controller"
  /\ attempt.passed
  /\ Displaces(attempt.place.worker, attempt.place.model)

\* _restore_residency_after_attempt, with the effective targets of the attempt.
RestoreDue ==
  /\ config.residency
  /\ attempt.place.kind = "worker"
  /\ attempt.target # "controller"
  /\ Displaces(attempt.place.worker, attempt.place.model)

NoRestore ==
  /\ stage = "restore"
  /\ ~RestoreDue
  /\ Continue("none")
  /\ UNCHANGED <<config, route, files, published, fabric>>

Reconciled(w) ==
  /\ owed' = owed \ {w}
  /\ strayed' = strayed \ {w}
  /\ UNCHANGED lost

\* reconcile has nothing to warm: the inventory shows the declared model loaded,
\* or the plan cannot tell, or may not warm it.
ReconcileIdle(outcome) ==
  /\ stage = "restore"
  /\ RestoreDue
  /\ outcome = "PASS" => seen[attempt.place.worker] = Declared[attempt.place.worker]
  /\ Reconciled(attempt.place.worker)
  /\ Continue(outcome)
  /\ UNCHANGED <<config, route, files, published, record, resident, seen>>

\* reconcile warms the declared model, which the inventory shows not loaded.  A
\* failed warm may have loaded it; a confirmed one probes the inventories again.
ReconcileWarms(loads, confirmed, R) ==
  LET w == attempt.place.worker IN
  /\ stage = "restore"
  /\ RestoreDue
  /\ seen[w] # Declared[w]
  /\ confirmed => loads
  /\ resident' = IF loads THEN [resident EXCEPT ![w] = Declared[w]] ELSE resident
  /\ seen' = IF confirmed THEN [x \in Worker |-> IF x \in R THEN resident'[x] ELSE seen[x]]
             ELSE seen
  /\ Reconciled(w)
  /\ Continue(IF confirmed THEN "PASS" ELSE "UNKNOWN")
  /\ UNCHANGED <<config, route, files, published, record>>

\* Somebody refreshes the worker's inventory.
Reobserve(w) ==
  /\ stage # "done"
  /\ seen' = [seen EXCEPT ![w] = resident[w]]
  /\ UNCHANGED <<config, route, stage, attempt, files, published, record, resident, debts>>

Init ==
  /\ config \in Configs
  /\ route \in Routes
  /\ stage = "resolve"
  /\ attempt = Begun(1)
  /\ touched = {}
  /\ tracked = {}
  /\ disk = [f \in File |-> "good"]
  /\ written = {}
  /\ record = NoRecord
  /\ published = {}
  /\ resident \in Loaded
  /\ seen \in Loaded
  /\ lost = {}
  /\ owed = {}
  /\ strayed = {}

Content == {"good", "bad", "absent"}

Step ==
  \/ \E p \in Resolutions : Resolve(p)
  \/ Dispatch
  \/ Unplaced
  \/ WorkerExecutes
  \/ DispatchRaises
  \/ \E usable \in BOOLEAN : Collect(usable)
  \/ \E answered \in BOOLEAN : FallBack(answered)
  \/ ProviderRaises
  \/ \E answered \in BOOLEAN : LocalChat(answered)
  \/ Raised
  \/ \E calls \in 0..MaxCalls, blank \in BOOLEAN : Reply(calls, blank)
  \/ \E f \in File, content \in {"good", "bad"} : WriteFile(f, content)
  \/ \E f \in File : WriteTorn(f)
  \/ \E f \in File, content \in Content, failed \in BOOLEAN : RunCommand(f, content, failed)
  \/ \E failed \in BOOLEAN : OtherTool(failed)
  \/ ToolsDone
  \/ \E sound \in BOOLEAN : Verify(sound)
  \/ NoRestore
  \/ \E outcome \in {"PASS", "UNKNOWN"} : ReconcileIdle(outcome)
  \/ \E loads, confirmed \in BOOLEAN, R \in SUBSET Worker : ReconcileWarms(loads, confirmed, R)

Next == Step \/ \E w \in Worker : Reobserve(w) \/ \E m \in Model : RunsLate(w, m)

Spec == Init /\ [][Next]_vars

\* The agent runs on its own, and every call it waits for has a time limit.
FairSpec == Spec /\ WF_vars(Step)

------------------------------------------------------------------------------

\* Every variable stays in its type.
TypeOK ==
  /\ config \in Config
  /\ route \in Route
  /\ stage \in Stage
  /\ attempt \in Attempt
  /\ touched \subseteq File
  /\ tracked \subseteq File
  /\ disk \in [File -> Content]
  /\ written \subseteq File
  /\ record \in Chat \cup {NoRecord}
  /\ published \subseteq [record : Chat, at : Chat, asked : BOOLEAN]
  /\ resident \in [Worker -> Model \cup {NoModel}]
  /\ seen \in [Worker -> Model \cup {NoModel}]
  /\ lost \subseteq Worker \X Model
  /\ owed \subseteq Worker
  /\ strayed \subseteq Worker

\* A run that passed leaves no file that fails the verifier among those any of
\* its attempts wrote, whatever the earlier attempts, their commands and their
\* failures did: the files of a failed attempt are verified again.
PassMeansVerified ==
  stage = "done" /\ attempt.passed => \A f \in written : disk[f] # "bad"

\* Evidence published for a chat that Fabric took is the record of that chat's
\* own execution, never of an earlier one, also when the chat failed.
EvidenceIsOwn ==
  \A e \in published : e.asked => e.record = e.at

\* Between attempts and at the end of the run no worker stays taken from its
\* declared model without a reconciliation since, as long as no chat fell back to
\* the controller, failed and lost chats included; except one that only a bundle
\* took which its worker ran after the dispatch had raised: the agent reconciles
\* at the end of the attempt and never hears of it.
DisplacedIsReconciled ==
  config.residency /\ ~config.fallback /\ stage \in {"resolve", "done"} => owed \subseteq strayed

\* The run returns.
RunReturns == <>(stage = "done")
==============================================================================
