------------------------------ MODULE Console ------------------------------
(***************************************************************************)
(* The terminal interface (HarnessTui in src/src/mncs_harness/tui.py): the *)
(* event loop, the threads it starts for runs of the agent and for         *)
(* inspections, and what the sidebar has selected.  A worker of Textual    *)
(* that is cancelled keeps its thread, and the buttons that are disabled   *)
(* stop neither Enter in the prompt nor Ctrl+D.                            *)
(*                                                                         *)
(* The threads share one Fabric session (FabricSession); here only when    *)
(* they end and what they leave to the event loop matters.                 *)
(***************************************************************************)
EXTENDS Naturals

CONSTANTS
  Run,         \* the runs of the agent
  Inspection,  \* the inspections
  Worker,      \* what the fleet may list, in the order of its options
  Model,
  Fleets,      \* the fleets there may be: [Worker -> the models it holds]
  MaxChanges,  \* bound: how often the fleet changes
  MaxPicks     \* bound: how often the user selects

ASSUME ConsoleAssumption ==
  /\ Worker \subseteq Nat \ {0}
  /\ Model \subseteq Nat \ {0}
  /\ \A f \in Fleets : DOMAIN f \subseteq Worker /\ \A w \in DOMAIN f : f[w] \subseteq Model
  /\ MaxChanges \in Nat
  /\ MaxPicks \in Nat
  /\ Run \cap Inspection = {}

VARIABLES
  fleet,      \* the workers the controller lists, with the models they hold
  changes,
  listed,     \* the models of each worker as last refreshed
  picked,     \* routing mode, worker and model selected in the sidebar; 0 for none
  picks,
  busy,       \* the buttons are disabled
  thread,     \* [Task -> how far the thread got]
  cancelled,  \* the workers Textual cancelled
  sent        \* [Run -> the routing override it was given]

consoleVars == <<fleet, changes, listed, picked, picks, busy, thread, cancelled, sent>>

Task == Run \cup Inspection
\* The exclusive groups of the two workers.
Group(t) == IF t \in Run THEN Run ELSE Inspection

\* "checked": found not to be cancelled, and on its way to the event loop.
Stage == {"idle", "running", "refreshed", "raised", "returned", "checked", "done"}

SetThread(t, s) == thread' = [thread EXCEPT ![t] = s]
Live(t) == thread[t] \notin {"idle", "done"}

Mode == {"AUTO", "MODEL", "WORKER", "WORKER_MODEL"}
Selection == [mode : Mode, worker : {0} \cup Worker, model : {0} \cup Model]
PinsWorker(p) == p.mode \in {"WORKER", "WORKER_MODEL"}
PinsModel(p) == p.mode \in {"MODEL", "WORKER_MODEL"}

\* _routing_override: only the fields of the mode are taken, and all of them.
Override(p) == [p EXCEPT !.worker = IF PinsWorker(p) THEN @ ELSE 0,
                         !.model = IF PinsModel(p) THEN @ ELSE 0]
Complete(p) == /\ PinsWorker(p) => p.worker # 0
               /\ PinsModel(p) => p.model # 0

\* worker_options and worker_model_options: the models of one worker, or of all.
ModelOptions(w) == UNION {listed[v] : v \in {u \in DOMAIN listed \cap DOMAIN fleet : w \in {0, u}}}
First(S) == IF S = {} THEN 0 ELSE CHOOSE x \in S : \A y \in S : x <= y

(***************************************************************************)
(* The event loop.                                                         *)
(***************************************************************************)
PickMode(mode) ==
  /\ picks < MaxPicks
  /\ picks' = picks + 1
  /\ picked' = [picked EXCEPT !.mode = mode]
  /\ UNCHANGED <<fleet, changes, listed, busy, thread, cancelled, sent>>

\* on_select_changed: a worker selected brings its first model with it.
PickWorker(w) ==
  /\ picks < MaxPicks
  /\ w \in DOMAIN fleet
  /\ picks' = picks + 1
  /\ picked' = [picked EXCEPT !.worker = w, !.model = First(ModelOptions(w))]
  /\ UNCHANGED <<fleet, changes, listed, busy, thread, cancelled, sent>>

PickModel(m) ==
  /\ picks < MaxPicks
  /\ m \in ModelOptions(picked.worker)
  /\ picks' = picks + 1
  /\ picked' = [picked EXCEPT !.model = m]
  /\ UNCHANGED <<fleet, changes, listed, busy, thread, cancelled, sent>>

\* An exclusive worker cancels the others of its group.
Start(t) ==
  /\ thread[t] = "idle"
  /\ SetThread(t, "running")
  /\ cancelled' = cancelled \cup {u \in Group(t) : Live(u)}
  /\ busy' = TRUE

\* action_send, by the button or by Enter.
Send(r) ==
  /\ Complete(picked)
  /\ Start(r)
  /\ sent' = [sent EXCEPT ![r] = Override(picked)]
  /\ UNCHANGED <<fleet, changes, listed, picked, picks>>

\* _show_error on the event loop, for what action_send and action_preview_route
\* turn down: also while a thread is at work.
Refuse ==
  /\ ~Complete(picked)
  /\ busy' = FALSE
  /\ UNCHANGED <<fleet, changes, listed, picked, picks, thread, cancelled, sent>>

\* action_doctor, action_models, action_metrics, action_fabric, action_commons.
Inspect(i) ==
  /\ Start(i)
  /\ UNCHANGED <<fleet, changes, listed, picked, picks, sent>>

\* Mutant: the buttons are left to the threads.
CancelOnly ==
  /\ \E t \in Task : Live(t) /\ t \notin cancelled
  /\ cancelled' = cancelled \cup {t \in Task : Live(t)}
  /\ UNCHANGED <<fleet, changes, listed, picked, picks, busy, thread, sent>>

\* action_cancel_work.
CancelWork ==
  /\ \E t \in Task : Live(t) /\ t \notin cancelled
  /\ cancelled' = cancelled \cup {t \in Task : Live(t)}
  /\ busy' = FALSE
  /\ UNCHANGED <<fleet, changes, listed, picked, picks, thread, sent>>

(***************************************************************************)
(* The threads.                                                            *)
(***************************************************************************)
EndRun(r) ==
  /\ thread[r] = "running"
  /\ \E s \in {"raised", "returned"} : SetThread(r, s)
  /\ UNCHANGED <<fleet, changes, listed, picked, picks, busy, cancelled, sent>>

\* _inspection_renderable: the inventories are refreshed, the rest is read.
RefreshInventory(i) ==
  /\ thread[i] = "running"
  /\ listed' \in {listed, fleet}
  /\ SetThread(i, "refreshed")
  /\ UNCHANGED <<fleet, changes, picked, picks, busy, cancelled, sent>>

EndInspection(i) ==
  /\ thread[i] \in {"running", "refreshed"}
  /\ \E s \in {"raised"} \cup (IF thread[i] = "refreshed" THEN {"returned"} ELSE {}) : SetThread(i, s)
  /\ UNCHANGED <<fleet, changes, listed, picked, picks, busy, cancelled, sent>>

\* is_cancelled is read on the thread; it may have changed when the event loop
\* comes to what the thread leaves it.
Check(t) ==
  /\ thread[t] = "returned"
  /\ SetThread(t, IF t \in cancelled THEN "done" ELSE "checked")
  /\ UNCHANGED <<fleet, changes, listed, picked, picks, busy, cancelled, sent>>

\* Mutant: the result is shown and no more.
DisplayOnly(r) ==
  /\ thread[r] = "checked"
  /\ SetThread(r, "done")
  /\ UNCHANGED <<fleet, changes, listed, picked, picks, busy, cancelled, sent>>

\* _display_result.
Display(r) ==
  /\ thread[r] = "checked"
  /\ SetThread(r, "done")
  /\ busy' = FALSE
  /\ UNCHANGED <<fleet, changes, listed, picked, picks, cancelled, sent>>

\* _finish_inspection: what is selected stays if it is still an option, otherwise
\* the first option takes its place.
Finish(i) ==
  /\ thread[i] = "checked"
  /\ SetThread(i, "done")
  /\ busy' = FALSE
  /\ LET worker == IF picked.worker \in DOMAIN fleet THEN picked.worker ELSE First(DOMAIN fleet)
         models == ModelOptions(worker) IN
     picked' = [picked EXCEPT !.worker = worker,
                              !.model = IF picked.model \in models THEN picked.model ELSE First(models)]
  /\ UNCHANGED <<fleet, changes, listed, picks, cancelled, sent>>

\* _show_error for an exception of a thread, cancelled or not.
ShowError(t) ==
  /\ thread[t] = "raised"
  /\ SetThread(t, "done")
  /\ busy' = FALSE
  /\ UNCHANGED <<fleet, changes, listed, picked, picks, cancelled, sent>>

(***************************************************************************)
(* The specification.                                                      *)
(***************************************************************************)
FleetChanges ==
  /\ changes < MaxChanges
  /\ changes' = changes + 1
  /\ fleet' \in Fleets
  /\ UNCHANGED <<listed, picked, picks, busy, thread, cancelled, sent>>

NothingPicked == [mode |-> "AUTO", worker |-> 0, model |-> 0]

ConsoleInit ==
  /\ fleet \in Fleets
  /\ changes = 0
  /\ listed = fleet
  /\ picked = NothingPicked
  /\ picks = 0
  /\ busy = FALSE
  /\ thread = [t \in Task |-> "idle"]
  /\ cancelled = {}
  /\ sent = [r \in Run |-> NothingPicked]

\* The steps a thread takes, and the event loop for it.
RunStep(r) == EndRun(r) \/ Check(r) \/ Display(r) \/ ShowError(r)
InspectionStep(i) == RefreshInventory(i) \/ EndInspection(i) \/ Check(i) \/ Finish(i) \/ ShowError(i)

ConsoleNext ==
  \/ \E mode \in Mode : PickMode(mode)
  \/ \E w \in Worker : PickWorker(w)
  \/ \E m \in Model : PickModel(m)
  \/ \E r \in Run : Send(r) \/ RunStep(r)
  \/ \E i \in Inspection : Inspect(i) \/ InspectionStep(i)
  \/ Refuse
  \/ CancelWork
  \/ FleetChanges

ConsoleSpec == ConsoleInit /\ [][ConsoleNext]_consoleVars

\* Every request a thread makes has a timeout, and the event loop serves what the
\* threads hand it; nothing is assumed of the user.
ConsoleFairSpec ==
  /\ ConsoleSpec
  /\ \A r \in Run : WF_consoleVars(RunStep(r))
  /\ \A i \in Inspection : WF_consoleVars(InspectionStep(i))

(***************************************************************************)
(* Properties.                                                             *)
(***************************************************************************)
ConsoleTypeOK ==
  /\ fleet \in Fleets
  /\ listed \in Fleets
  /\ changes \in 0..MaxChanges
  /\ picked \in Selection
  /\ picks \in 0..MaxPicks
  /\ busy \in BOOLEAN
  /\ thread \in [Task -> Stage]
  /\ cancelled \subseteq Task
  /\ sent \in [Run -> Selection]

\* The buttons are disabled only while a worker is at work whose end will enable
\* them: whatever is sent, inspected, replaced and cancelled in whatever order.
BusyMeansWorking == busy => \E t \in Task : Live(t) /\ t \notin cancelled

\* The interface becomes usable again, though replaced and cancelled threads go on.
BecomesUsable == busy ~> ~busy
=============================================================================
