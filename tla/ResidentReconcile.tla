-------------------------- MODULE ResidentReconcile --------------------------
(***************************************************************************)
(* ResidencyManager.reconcile (src/src/mncs_harness/residency.py): the     *)
(* declared resident model of each worker is warmed in the background, one *)
(* thread per worker from a bounded pool, by a caller who waits for each   *)
(* thread no longer than a limit.  A thread that outlives its caller goes  *)
(* on: it dispatches, it is answered, it refreshes the inventory of every  *)
(* worker, and all of them share one session and one transport.            *)
(*                                                                         *)
(* Several reconciliations run at once: the startup, the restoration after *)
(* an attempt and the refresh of the terminal interface each start one.    *)
(* The fleet does not lose a worker from its registry while they run.      *)
(***************************************************************************)
EXTENDS Naturals, FiniteSets, FiniteSetsExt

CONSTANTS
  Worker,      \* numbers: sorted() visits the least first
  Model,
  Call,        \* reconciliations
  Explicit,    \* [some workers -> the model declared for them, or NoModel]
  NoModel,
  Preferred,   \* the configured models in the order of role_preference
  Installed,   \* [Worker -> the models installed there]
  Fits,        \* [Worker -> the models within the policy's share of its memory]
  Everyone,    \* no force_worker
  Settings     \* threads of a pool (8 in the code), and a bound of what others do

ASSUME ReconcileAssumption ==
  /\ Worker \subseteq Nat /\ IsFiniteSet(Worker)
  /\ NoModel \notin Model
  /\ DOMAIN Explicit \subseteq Worker
  /\ \A w \in DOMAIN Explicit : Explicit[w] \in Model \cup {NoModel}
  /\ Installed \in [Worker -> SUBSET Model]
  /\ Fits \in [Worker -> SUBSET Model]
  /\ Everyone \notin Worker
  /\ Settings \subseteq [pool : Nat \ {0}, outside : Nat]

VARIABLES
  loaded,     \* [Worker -> the models its provider holds]
  up,         \* the workers Fabric calls AVAILABLE
  published,  \* [Worker -> Fabric's capability observation of it]
  errors,     \* the workers in model_inventory_errors
  timeout,    \* the shared transport's: "short", or "long" for a job
  call,       \* [Call -> how far the reconciliation got]
  thread,     \* [Call -> [Worker -> how far its warm got]]
  effects,    \* [Call \X Worker -> how often the worker carried it out]
  witness,    \* history: [Call -> workers that had their model since it began]
  pool,       \* max_workers
  outside     \* how often others still act

fleetVars == <<loaded, up, published, witness, outside, pool>>
vars == <<fleetVars, errors, timeout, call, thread, effects>>

Observation == [status : {"CURRENT", "STALE", "UNAVAILABLE"}, models : SUBSET Model]

ThreadState == [
  phase : {"none", "queued", "sent", "listing", "scanning", "probing", "publishing", "done", "cancelled"},
  saved : {"short", "long"},                   \* the timeout its dispatch found
  left : SUBSET Worker,                        \* the workers its refresh has still to ask
  at : Worker \cup {Everyone},                 \* the one it is asking
  seen : [ok : BOOLEAN, models : SUBSET Model],
  result : {"none", "refused", "failed", "warmed"}]

CallState == [
  phase : {"idle", "waiting", "returned"},
  pending : SUBSET Worker,
  told : [Worker -> {"none", "timeout", "refused", "failed", "warmed"}]]

\* A thread that is not there.
NoThread == [phase |-> "none", saved |-> "short", left |-> {}, at |-> Everyone,
             seen |-> [ok |-> FALSE, models |-> {}], result |-> "none"]

NoCall == [phase |-> "idle", pending |-> {}, told |-> [w \in Worker |-> "none"]]

(***************************************************************************)
(* The plan.                                                               *)
(***************************************************************************)
\* The preferred models that are installed, by their places.
Found(w) == {i \in DOMAIN Preferred : Preferred[i] \in Installed[w]}

\* _choose_model.
Chosen(w) ==
  IF w \in DOMAIN Explicit THEN Explicit[w]
  ELSE IF Found(w) = {} THEN NoModel ELSE Preferred[Min(Found(w))]

\* status: a worker with an inventory error has neither status nor inventory.
Current(w) == w \in up /\ w \notin errors /\ published[w].status = "CURRENT"

\* plan: RESIDENCY_READY_TO_WARM, everything else being a report only.
ReadyToWarm(w) ==
  /\ Current(w)
  /\ Chosen(w) \in Installed[w] \cap Fits[w]
  /\ Chosen(w) \notin published[w].models

SetThread(c, w, t) == thread' = [thread EXCEPT ![c][w] = t]

\* The provider of w now holds ms: who has been waiting for that has seen it.
SetLoaded(w, ms) ==
  /\ loaded' = [loaded EXCEPT ![w] = ms]
  /\ witness' = [c \in Call |-> witness[c] \cup {v \in {w} : Chosen(v) \in ms}]

\* reconcile reads one status, or none when the controller does not answer, and
\* submits a warm for each worker that needs it.
Begin(c, force, answers) ==
  /\ call[c].phase = "idle"
  /\ LET pending == {w \in Worker : answers /\ force \in {w, Everyone} /\ ReadyToWarm(w)}
     IN  /\ call' = [call EXCEPT ![c].phase = IF pending = {} THEN "returned" ELSE "waiting",
                                 ![c].pending = pending]
         /\ thread' = [thread EXCEPT ![c] =
                         [w \in Worker |-> IF w \in pending THEN [NoThread EXCEPT !.phase = "queued"]
                                           ELSE NoThread]]
  /\ witness' = [witness EXCEPT ![c] = {w \in Worker : Chosen(w) \in loaded[w]}]
  /\ UNCHANGED <<loaded, up, published, outside, pool, errors, timeout, effects>>

(***************************************************************************)
(* The shared transport.  _FreshDispatchClient.execute remembers the       *)
(* timeout, sets its own and puts back what it remembers.                  *)
(***************************************************************************)
Running == {"sent", "listing", "scanning", "probing", "publishing"}
InFlight(c, w) == thread[c][w].phase \in {"sent", "probing"}

Extend == timeout' = "long"
Restore(c, w) == timeout' = thread[c][w].saved

(***************************************************************************)
(* A warm: warm_model on a thread of the pool.                             *)
(***************************************************************************)
Queued(c) == {w \in Worker : thread[c][w].phase = "queued"}

\* The pool takes the oldest warm when a thread of it is free; the status is read
\* again, and refuses a worker that has been lost since the plan.
StartWarm(c, w) ==
  /\ Queued(c) # {} /\ w = Min(Queued(c))
  /\ Cardinality({v \in Worker : thread[c][v].phase \in Running}) < pool
  /\ \/ /\ ~Current(w)
        /\ SetThread(c, w, [thread[c][w] EXCEPT !.phase = "done", !.result = "refused"])
        /\ UNCHANGED timeout
     \/ /\ Current(w)
        /\ SetThread(c, w, [thread[c][w] EXCEPT !.phase = "sent", !.saved = timeout])
        /\ Extend
  /\ UNCHANGED <<fleetVars, errors, call, effects>>

\* The worker carries out a warm it was sent, though nobody may be waiting for it
\* any more; a provider short of memory drops its other models, and one that
\* answers early has not loaded anything.
WorkerWarms(c, w) ==
  /\ effects[<<c, w>>] = 0
  /\ \/ thread[c][w].phase = "sent"
     \/ thread[c][w].phase = "done" /\ thread[c][w].result = "failed"
  /\ effects' = [effects EXCEPT ![<<c, w>>] = 1]
  /\ \E ms \in {{Chosen(w)}, loaded[w] \cup {Chosen(w)}, loaded[w]} : SetLoaded(w, ms)
  /\ UNCHANGED <<up, published, outside, pool, errors, timeout, call, thread>>

\* Mutant: the provider's second observation is not looked at.
VerifiedAlways(w) == TRUE

\* The script's second observation, which _change_model_residency insists on.
Verified(w) == Chosen(w) \in loaded[w]

WarmAnswers(c, w) ==
  /\ thread[c][w].phase = "sent" /\ effects[<<c, w>>] = 1
  /\ SetThread(c, w, IF Verified(w)
                       THEN [thread[c][w] EXCEPT !.phase = "listing"]
                       ELSE [thread[c][w] EXCEPT !.phase = "done", !.result = "failed"])
  /\ Restore(c, w)
  /\ UNCHANGED <<fleetVars, errors, call, effects>>

\* The dispatch fails, or its answer is lost.
WarmFails(c, w) ==
  /\ thread[c][w].phase = "sent"
  /\ SetThread(c, w, [thread[c][w] EXCEPT !.phase = "done", !.result = "failed"])
  /\ Restore(c, w)
  /\ UNCHANGED <<fleetVars, errors, call, effects>>

(***************************************************************************)
(* _refresh_model_inventories, at the end of every warm.                   *)
(***************************************************************************)
\* After the last worker the warm is done.
Scanned(t) == IF t.left = {} THEN [t EXCEPT !.phase = "done", !.result = "warmed"]
              ELSE [t EXCEPT !.phase = "scanning"]

\* The workers that are up; a controller that does not answer ends the refresh.
ListWorkers(c, w) ==
  /\ thread[c][w].phase = "listing"
  /\ \E left \in {{}, up} : SetThread(c, w, Scanned([thread[c][w] EXCEPT !.left = left]))
  /\ UNCHANGED <<fleetVars, errors, timeout, call, effects>>

Probe(c, w) ==
  /\ thread[c][w].phase = "scanning"
  /\ \E v \in thread[c][w].left :
       SetThread(c, w, [thread[c][w] EXCEPT !.phase = "probing", !.at = v, !.left = @ \ {v},
                                            !.saved = timeout])
  /\ Extend
  /\ UNCHANGED <<fleetVars, errors, call, effects>>

\* What the worker holds now, or a failure.
ProbeAnswers(c, w) ==
  /\ thread[c][w].phase = "probing"
  /\ \E ok \in BOOLEAN :
       SetThread(c, w, [thread[c][w] EXCEPT !.phase = "publishing", !.seen =
         [ok |-> ok, models |-> IF ok THEN loaded[thread[c][w].at] ELSE {}]])
  /\ Restore(c, w)
  /\ UNCHANGED <<fleetVars, errors, call, effects>>

\* The observation is ingested and the error dropped; or the error is kept, and
\* the worker observed UNAVAILABLE if Fabric takes that.
Publish(c, w) ==
  /\ thread[c][w].phase = "publishing"
  /\ LET t == thread[c][w]
     IN  /\ \E taken \in {TRUE, t.seen.ok} :
              published' = IF taken
                THEN [published EXCEPT ![t.at] =
                        [status |-> IF t.seen.ok THEN "CURRENT" ELSE "UNAVAILABLE",
                         models |-> t.seen.models]]
                ELSE published
         /\ errors' = IF t.seen.ok THEN errors \ {t.at} ELSE errors \cup {t.at}
         /\ SetThread(c, w, Scanned([t EXCEPT !.at = Everyone, !.saved = "short",
                                              !.seen = NoThread.seen]))
  /\ UNCHANGED <<loaded, up, witness, outside, pool, timeout, call, effects>>

(***************************************************************************)
(* The caller.                                                             *)
(***************************************************************************)
Unresolved(c) == {w \in call[c].pending : call[c].told[w] = "none"}

Awaiting(c, w) == call[c].phase = "waiting" /\ Unresolved(c) # {} /\ w = Min(Unresolved(c))

Await(c, w) ==
  /\ Awaiting(c, w) /\ thread[c][w].phase = "done"
  /\ call' = [call EXCEPT ![c].told[w] = thread[c][w].result]
  /\ UNCHANGED <<fleetVars, errors, timeout, thread, effects>>

\* RESIDENCY_WARM_TIMEOUT.
GiveUp(c, w) ==
  /\ Awaiting(c, w) /\ thread[c][w].phase # "done"
  /\ call' = [call EXCEPT ![c].told[w] = "timeout"]
  /\ UNCHANGED <<fleetVars, errors, timeout, thread, effects>>

Resolved(c) == call[c].phase = "waiting" /\ Unresolved(c) = {}

\* shutdown(cancel_futures=True) empties the queue, oldest first, while a thread of
\* the pool may still take from it: what it cancels never begins.
Cancel(c) ==
  /\ Resolved(c) /\ Queued(c) # {}
  /\ SetThread(c, Min(Queued(c)), [NoThread EXCEPT !.phase = "cancelled"])
  /\ UNCHANGED <<fleetVars, errors, timeout, call, effects>>

\* Mutant: shutdown(wait=True).
ReturnWaiting(c) ==
  /\ Resolved(c) /\ \A w \in call[c].pending : thread[c][w].phase \in {"done", "cancelled"}
  /\ call' = [call EXCEPT ![c].phase = "returned"]
  /\ UNCHANGED <<fleetVars, errors, timeout, thread, effects>>

\* Mutant: shutdown(cancel_futures=False).
ReturnKeeping(c) ==
  /\ Resolved(c)
  /\ call' = [call EXCEPT ![c].phase = "returned"]
  /\ UNCHANGED <<fleetVars, errors, timeout, thread, effects>>

\* shutdown(wait=False): warms that run go on.
Return(c) ==
  /\ Resolved(c) /\ Queued(c) = {}
  /\ call' = [call EXCEPT ![c].phase = "returned"]
  /\ UNCHANGED <<fleetVars, errors, timeout, thread, effects>>

(***************************************************************************)
(* Others.                                                                 *)
(***************************************************************************)
\* Chats and other users load models and drop them.
OthersUse(w) ==
  /\ outside > 0
  /\ outside' = outside - 1
  /\ \E m \in Model : \E ms \in {{m}, loaded[w] \cup {m}, loaded[w] \ {m}} : SetLoaded(w, ms)
  /\ UNCHANGED <<up, published, pool, errors, timeout, call, thread, effects>>

\* A worker comes or goes, or its observation grows old.
FleetChanges(w) ==
  /\ outside > 0
  /\ outside' = outside - 1
  /\ \/ /\ up' \in {up \cup {w}, up \ {w}}
        /\ UNCHANGED published
     \/ /\ published' = [published EXCEPT ![w].status = "STALE"]
        /\ UNCHANGED up
  /\ UNCHANGED <<loaded, witness, pool, errors, timeout, call, thread, effects>>

Init ==
  /\ loaded \in [Worker -> {{}} \cup {{m} : m \in Model}]
  /\ up = Worker
  /\ published = [w \in Worker |-> [status |-> "CURRENT", models |-> loaded[w]]]
  /\ errors = {}
  /\ timeout = "short"
  /\ call = [c \in Call |-> NoCall]
  /\ thread = [c \in Call |-> [w \in Worker |-> NoThread]]
  /\ effects = [x \in Call \X Worker |-> 0]
  /\ witness = [c \in Call |-> {}]
  /\ \E s \in Settings : pool = s.pool /\ outside = s.outside

Caller(c) == Cancel(c) \/ Return(c) \/ \E w \in Worker : Await(c, w) \/ GiveUp(c, w)

Thread(c, w) ==
  \/ StartWarm(c, w) \/ WarmAnswers(c, w) \/ WarmFails(c, w)
  \/ ListWorkers(c, w) \/ Probe(c, w) \/ ProbeAnswers(c, w) \/ Publish(c, w)

Next ==
  \/ \E c \in Call : Caller(c)
  \/ \E c \in Call, force \in Worker \cup {Everyone}, answers \in BOOLEAN : Begin(c, force, answers)
  \/ \E c \in Call, w \in Worker : Thread(c, w) \/ WorkerWarms(c, w)
  \/ \E w \in Worker : OthersUse(w) \/ FleetChanges(w)

Spec == Init /\ [][Next]_vars

\* The caller's wait is limited for each future; no thread need ever end.
FairSpec == Spec /\ \A c \in Call : WF_vars(Caller(c))

(***************************************************************************)
(* Properties.                                                             *)
(***************************************************************************)
TypeOK ==
  /\ loaded \in [Worker -> SUBSET Model]
  /\ up \subseteq Worker
  /\ published \in [Worker -> Observation]
  /\ errors \subseteq Worker
  /\ timeout \in {"short", "long"}
  /\ call \in [Call -> CallState]
  /\ thread \in [Call -> [Worker -> ThreadState]]
  /\ effects \in [Call \X Worker -> {0, 1}]
  /\ witness \in [Call -> SUBSET Worker]
  /\ pool \in Nat \ {0}
  /\ outside \in Nat

\* A worker reported RESIDENCY_WARMED held its declared model at some moment of
\* the reconciliation, whoever else used the worker and whatever its provider
\* answered.
WarmedWasSeen ==
  \A c \in Call : \A w \in call[c].pending : call[c].told[w] = "warmed" => w \in witness[c]

\* What a reconciliation says of one warm.  A warm given up while it was queued is
\* undecided until the queue is emptied.
AnswerOf(c, w) ==
  LET told == call[c].told[w]
      t == thread[c][w]
  IN  IF told = "none" THEN "none"
      ELSE IF told = "warmed" THEN "ok"
      ELSE IF "refused" \in {told, t.result} \/ t.phase = "cancelled" THEN "refused"
      ELSE IF t.phase = "queued" THEN IF call[c].phase = "returned" THEN "refused" ELSE "none"
      ELSE "error"

\* A warm is a remote call like a chat or a publication: reported warmed it was
\* carried out, refused or cancelled in the queue it never will be, and one that
\* timed out or failed is carried out once at most, however late.
Warming == INSTANCE RemoteCall WITH
             Call <- Call \X Worker,
             answer <- [x \in Call \X Worker |-> AnswerOf(x[1], x[2])]
Contract == Warming!Spec

\* A reconciliation returns, though no worker may ever answer.
CallsReturn == \A c \in Call : call[c].phase = "waiting" ~> call[c].phase = "returned"

\* The session's timeout is back to its own when no dispatch is in flight
\* (tests/test_live_worker_inventory.py: "assertEqual(client._service_transport
\* .timeout, 2.0)" after a dispatch).
TimeoutRestored ==
  (\A c \in Call, w \in Worker : ~InFlight(c, w)) => timeout = "short"
==============================================================================
