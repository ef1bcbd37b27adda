# Verification of mncs-harness

TLA+ modules, TLC configurations and TLAPS proofs for the Python harness in
`src/src/mncs_harness/` and the MNCS decision kernels it executes
(`src/mncs/*.mncs`). Paths below are relative to the repository's root, module
names without a path are files of `src/src/mncs_harness/`.

The harness takes a task, picks a model on some worker of a Fabric fleet, lets
it use tools in a workspace, verifies what it wrote, and reports. Around that
sit an operator-driven lifecycle for model weights, an authority layer (Atlas),
an evidence exchange (Commons) and readiness reports.

## 1. Inventory

| Component | State | Operations | Interacts with | What is hard |
|---|---|---|---|---|
| Experiment residency (`residency.py`, `fabric_inventory_session.py`) | leases held by the caller; weights held by the provider; cached inventories | prepare, release, warm/observe/release script | Fabric dispatch, Ollama on the worker, other users | lost replies with the script still running, a provider that moves weights after it answered, callers that die with their leases, an operator who releases by name, resource facts older than the listing they are compared with |
| Background residency (`ResidencyManager.plan`, `reconcile`) | a pool of threads, their limits, the shared transport's timeout | plan, reconcile (one warm per worker, each ending in a refresh of every inventory) | inventory cache, Fabric, Ollama | warms that outlive their limit or their caller, queued warms, concurrent refreshes |
| Inventory session and placement (`fabric_inventory_session.py`) | inventories and errors per worker | refresh, `resolve_model_from_status` | Fabric client, router | stale inventories, exact pins against fallback |
| Fabric session and providers (`fabric.py`, `provider.py`) | client, connection, state, transport, consumer context, `last_execution_record`, `last_inference`, files in bundle roots | initialize, refresh, chat, submit/status/result | Fabric, Ollama, agent | chats of several threads on one session, lost answers, fallback, shared bundle roots, state left from an earlier call |
| Agent run and tools (`agent.py`, `tools.py`, `policy.py`, `verifiers.py`) | attempt, cumulative modified files, evidence published | run, attempt, tool calls, verify, escalate, restore | everything above, Commons | failures at every step, files left by failed attempts, displaced models |
| Atlas binding (`atlas_binding.py`, `fabric_target_tools.py`) | loaded requirement, bound acceptance, job under way | load, accept, bind, tool gate, dispatch gate, confirm | tool registry, Fabric observations | decisions that combine, evidence that expires, observations that change between gate and confirmation |
| MNCS kernels and host (`mncs_exec.py`, `mncs_runtime.py`, `src/mncs/`) | envelope, accumulator, partial results | fold, combine, fold_readiness, gates | all callers | fixed-width kernels over lists of any length |
| Commons session (`commons.py`, `commons_operator.py`) | status, schemas, admin connection | initialize, call, publish, exchange | agent, tools, operator | a Commons replaced between initialize and call, effects before errors, late effects |
| Readiness and stack (`experiment_readiness.py`, `experiment_stack.py`, `fleet.py`) | the evidence of one inspection | inspect (seven calls), evaluate layers, pin a stack | all sessions | calls at different moments, profiles, missing evidence, unknown against blocked |
| Router and model selection (`router.py`, `model_*.py`) | evidence file | plan_route, select_installed_model, verify-models | agent, inventory session | pins, escalation order, evidence that changes between decisions |
| Commissioning (`fabric_commission*.py`, ...) | files and remote services | staged procedures | ssh | order, atomic files |
| Terminal interface (`tui.py`) | selection, buttons, threads by group | send, inspect, cancel, select | agent and sessions, from threads | cancelled threads that go on, Enter while busy, options that change |
| Other front ends (`cli.py`, `bridge.py`, VS Code) | presentation | commands | sessions | none of their own |
| Configuration, metrics, context | files, SQLite log | load, record | all | none of their own |

What makes each modelled component correct:

- *Experiment residency*: the release of a granted lease never touches a model
  that was there before; what a PASS record claims was true; weights an experiment
  loaded are under its lease or under a failure it was told of; a conflicting warm
  is refused; nothing is evicted unless the facts were out of date.
- *Kernels and host*: the verdict over a long list is the least verdict above
  all its elements, whatever the padding and the grouping; the host returns.
- *Atlas binding*: a leg is accepted exactly when Atlas authorized all of it; no
  effect goes beyond what was accepted; a confirmed job ran where it was
  authorized.
- *Placement*: an exact pin resolves to its pin or to nothing; what is selected
  was there; a failed probe is heeded; any tag will do; routes do not wander.
- *Agent run*: passing covers every file any attempt wrote; published evidence
  is the chat's own; a displaced worker is reconciled; the run returns.

- *Background residency*: a worker reported warmed did hold its model; a warm
  that was refused or cancelled is never carried out, one that timed out at most
  once; a reconciliation returns, whatever its threads do.
- *Commons session*: nothing is published without the approval and the settings
  it needs; a success was carried out; a refusal has no
  effect, an error at most one; every call is answered.
- *Fabric session*: no prompt stays behind in a bundle root; the record a chat
  reads back is its own unless another overlapped it; answers and effects agree
  as for Commons, also for submissions that are repeated; calls return.
- *Readiness*: READY was earned by one worker, fact by fact as far as its
  evidence speaks of them, during the inspection; over a quiet fleet it misses the
  document in four named respects at most; the profiles nest.
- *Terminal interface*: it is busy only while something will end that, and it
  ends.

## 2. Plan

Done, in this order:

1. `ExperimentResidency`, the lifecycle of weights.
2. `EnvelopeFold`, the verdict lattice the other components rely on.
3. `AtlasBinding`; its operator `Worst` is the host of 2.
4. `AgentRun`, one task; its restoration abstracts 5, its `Resolutions` 6, its
   chat 9.
5. `ResidentReconcile`, the background reconciliation, thread by thread.
6. `Placement`, from a request to a worker and a model.
7. `Readiness`, an inspection and its verdict; its operator `Worst` is a host of 2.
8. `CommonsSession` and
9. `FabricSession`, each shown, with 5, to implement the abstract specification
   `RemoteCall`: what an answer says about the effect of a request.
10. `Console`, the threads that share the sessions.

Every safety property of the passing runs is also a theorem (section 5). Left:
`AgentRun`'s chat as the one-chat instance of `FabricSession`, and its
`Resolutions` as an abstraction of `Placement`, as refinements rather than by
reading; the composition of 1 and 5 on one provider (both change the weights of
one worker, and today each sees the other as an outside user).

## 3. Modules

`MC<Module>.tla` defines the small instances of `<Module>.tla`,
`<Module>_proofs.tla` holds its theorems; those about `Readiness` are with the fold
it relies on in `EnvelopeFold_proofs`, those about `Console` in
`FabricSession_proofs`. `PROJECT.json` maps every definition to
the lines it models. Definitions commented as *Mutant* are deliberate
mistakes, used nowhere in the specifications: each shows that some property
would notice it.

### ExperimentResidency

A *client* runs one experiment and keeps its leases, or is an operator at the
command line. `BeginPrepare` is the head of `prepare_experiment` (one status
snapshot, `snap`); then for each requested pair in sorted order `Refuse`, or
`Dispatch` and its outcomes. A dispatch is a protocol of its own: the worker
script reads `/api/ps` (`ScriptObserve`), posts `/api/generate` (`ScriptWarm`,
`ScriptRelease`, `ScriptSkip`), reads `/api/ps` again (`ScriptConfirm`), and its
answer is accepted (`Reply`), rejected (`Unverified`) or lost (`Lose`), when the
script may run on (`orphans`, `OrphanActs`). `LazyProvider` answers before it moves
weights; the move is then `owed`, and made at any later time (`OwedMove`) or never.
`BeginRelease` and `LeavePreexisting` are the teardown. `CallerDies` is the end of
the caller's process, between calls or in the middle of one: its leases were in its
memory, and what it waited for runs on. `OperatorRelease` is the `release` branch
of `cmd_residency`, which makes up a managed lease for whatever pair is named
(`"named"`), releases it and, when it is done (`Finish`), probes the fleet once
more.

`loaded` is what the provider holds, `obs` what the session's cache says, and
`facts` what Fabric last recorded of free memory (`ReportResources`, at a moment of
its own): `ResourceGate` compares a size with the last, `ResidencyAdmit` looks at
the second. The histories `witness`, `untouched` and `origin` are read by
properties and follow the provider in one place (`SetLoaded`). `unsettled` is a
history of doubt: pairs for which a caller was told of a failure, lost its lease
with its process, or was told of a reuse that no longer was one, and has had no
record since that settles it (`Settle`). `Faults` switches the environment; the run
has all of it.

### EnvelopeFold

The loop shared by `fold`, `combine` and `fold_readiness`: cut the list into
envelopes (`Marshal`, padding with the neutral verdict), let the kernel iterate
(`Iterate`), collect (`Return`), and combine the partial results by envelopes
(`Regroup`) or pairwise (`Pairwise`). The pairwise step of the kernel is the
constant `Join`; a host is its widths (`short`, `head`, `tail`, `group`): 8, 8, 8
and 4 for `combine`; 4, 8, 4 and pairwise for `fold_readiness`; 4, 4, 4 and
pairwise for `fold`. `dominate` and `dominate_readiness` are the match tables of the
two kernels that fold. The run takes the three hosts over the product of two of the
kernels' lattices.

### AtlasBinding

One process that loads an envelope once (`Load`), binds a leg and an expected
session (`Bind`, which computes the acceptance), runs local tools behind the
gate (`Execute`), and sends jobs to a worker: admission and session check
(`AdmitDispatch`), the job (`FabricExecutes`, `DispatchFails`), and its
confirmation (`ConfirmDispatch`), while the clock (`Tick`) and Fabric's
observations (`Observe`) move. `Accept`, `Confirm` and `AtlasGate` are the code's
decision procedures, built on the operators of the kernels of the same name.
`AcceptIsAuthority` compares `Accept` with `Authorizes`, which says directly what
an envelope authorizes without following the code. Signatures, digests and
canonical JSON are the Boolean `signed`; subjects of evidence the Boolean
`general`.

### AgentRun

One task. `stage` is the place in `LocalAgent.run`; a chat goes from `chat` over
`sent` and `executed` to `reply`, or over `failed` to a fallback or `raised`.
`DispatchRaises` leaves open whether the worker ran the bundle, never will, or still
may: such dispatches are `lost`, and `RunsLate` runs one at any later time.
`Dispatch` is the point in `FabricSession.chat` where the previous record is
dropped, `Collect` where the new one is stored; `Unplaced` is a refusal before that
point, which leaves the old record, as the code does. Tool calls change `disk`, a
file being good, bad or absent for the verifier; only `WriteFile` records the path.
`Verify`, `Continue` and the restoration close an attempt. `resident` is the model
on a worker, `seen` what the inventory shows, `owed` the workers taken from their
declared model since they were last reconciled, and `strayed` those of them that
only a bundle run late took. `Reobserve` is anybody refreshing an inventory in
between.

### Placement

One task after another, against a fleet others refresh. `Plan` is `plan_route`:
the request (`Request`, whose fields follow the mode as `pin_fields_valid` says)
and the profile give the roles to try. For each role `Capture` takes a Fabric
status and `Resolve` decides on it: `Pinned` is what an operator's pin resolves
to, `Automatic` the placement of the configured tag or of the best admissible
model, and `Resolutions` puts them together as `admit_placement` does. Both go
through `SelectInstalled`: gates (`Eligible`, the kernel's `CapabilityEligible`),
the tools signal (`Admissible`) and the sort key (`RankKey`), compared
lexicographically. `Attempted` is the end of the attempt, which goes on with the
next role or ends the task. Meanwhile `Refresh` changes the controller's rows
and `VerifyCandidate` appends evidence, so that a status may be stale and a
model may have failed since. What happens inside the attempt is `AgentRun`. The
profile's words are the three facts the kernel distinguishes; legacy lanes are
any of the configured ones (`Lanes`); ranks stand for the order of names.

### RemoteCall, the abstract specification

A caller and a request that changes something elsewhere. `answer` is what the
caller was told (`none`, `ok`, `refused`, `error`), `effects` how often the request
was carried out. `Perform` happens once, also after an error; `Succeed` only when it
has happened, `Refuse` only when it has not, and never will. `Retry` asks again
under the same identity. It knows nothing of sockets, queues, retries and threads;
`CommonsSession`, `FabricSession` and `ResidentReconcile` instantiate it as `Remote`,
`Fabric` and `Warming`, with a mapping of their codes to the four answers, and
have `Contract` (its `Spec`) as a property.

### CommonsSession

`Initialize` is `initialize`: the checks of a mode in their order (`Checks`), the
first that fails giving the status; it runs once. A call is `Ask`ed and turned away
(`Refusals`, by kind of call) or admitted; then `Connect`, and `Perform`,
`TurnedDown` or `GiveUp`; then `Return` or `Unusable`. `Perform` is the moment of the
effect: what comes after it can only change the answer. A service may take a
request from its socket after the caller gave up (`PerformLate`). `server` is what
answers now, `status`, `schemas` and `admin` what the session remembers of what
answered then; `ServerChanges` drives them apart. Tools are four kinds, and what
can be wrong with a Commons is one field each.

### FabricSession

`Initialize` with its outcomes; `refresh` as the thread that asks
(`AskWorkers`, `CollectAnswers`) and the workers that answer or do not
(`WorkerAnswers`). A chat runs on the thread of its run: `Configure` sets the
session's consumer context, `Begin` drops the previous record or refuses, `Observe`
may probe CUDA, `Copy` writes `request.json` to the next bundle root, `Execute`
sends, `Run` or `Reject` is what comes of it, `ExecuteReturns` its answer or its
loss, `Clean` the `finally` block root by root, `Collect` stores the record and
`Publish` reads it back. `context`, `lastRecord` and `root` say whose they are, which
is all that can be wrong with them. A detached job is submitted, taken by the
controller under its key, answered or lost, and submitted again. Chats
and jobs share no state (`elh submit` is a process of its own), so the run takes
settings with chats or settings with jobs (`submits`); the theorems do not
depend on that.

### ResidentReconcile

`Begin` reads one status and makes the plan (`ReadyToWarm`); each pending worker gets
a thread in the queue. A thread starts when the pool has room (`StartWarm`, which
reads the status again), dispatches, is answered (`WarmAnswers`, `WarmFails`), then
refreshes: `ListWorkers`, and for each worker `Probe`, `ProbeAnswers`, `Publish`. The
caller awaits the warms in turn (`Await`, `GiveUp`), cancels what is still queued
(`Cancel`) and returns, while started threads go on. `loaded` is what
providers hold, `published` what Fabric was told, `errors` the inventories that
failed; `timeout` is the shared transport's, which every dispatch extends and puts
back (`Extend`, `Restore`). `witness` is a history. The registry does not lose a worker
while it runs, and the error text under `*` is not kept.

### Console

The event loop (`Send`, `Inspect`, `CancelWork`, `Refuse`, the selections) and the
threads it starts (`EndRun`, `EndInspection`, `Check`), which hand results back to it
(`Display`, `Finish`, `ShowError`). `cancelled` is what Textual knows of them: the
worker is marked, its thread goes on, reads the mark at its end, and its exception
is shown whether it was cancelled or not. The selections (`picked`, `fleet`,
`listed`) and what was `sent` are there for the handlers' guards; no property is
about them. What the agent and the
sessions do inside a thread is in their own modules.

### Readiness

One inspection, call by call (`OpenFabric`, `Observe`, `OpenCommons`,
`ProbeArtifacts`, `InspectFleet`, `AskController`), while `Change` gives a worker a
defect or takes one away, and `Judge`. `evidence` is what the calls brought;
`Layers` is `evaluate_layers` over it, layer by layer; `Judgement` folds what the
profile requires and takes READY back when provenance is incomplete. A worker is the
set of its defects, a row of evidence the defects it shows and the fields it lacks,
field by field. The list of workers carries some of them (`site.carries`) and
management tells some (`site.tells`), of some of the workers: `Enriched` overwrites
what the list said of a worker's state, schedulability and updates with management's
answer, with nothing where it gives none, and keeps the list's certification,
conformance and version where it had them (`Kept`). The studies' commit is a runtime
identity too, so without one every profile loses its provenance (`AskController`). A
second kind of initial state is a snapshot handed to `evaluate_layers` directly;
what such a snapshot may list under `fabric.models`
(`experiment_readiness.py:630-641`) is left out, as no live inspection has it.

`absent` is a history: the defects a worker has been without. `ReadyWasEarned`
demands of it every defect but the ones the evidence leaves `Unseen`: without
Fabric's own decision the ledger's branch (`experiment_readiness.py:356-366`)
compares no identities and is content with a READY, CERTIFIED worker of which the
rest was not said. `QuietVerdict` states the document directly, of the deployment
(`Documented`), and names what the code lets pass beyond it: a certification of
another inventory, conformance to another desired state, an incompatible service no
row speaks of (`Overlooked`), and a model that does not fit its role. The
definitions carry the component's name, so that one module can speak of it and of
the fold.

## 4. Runs

| Run | Asks | Instance |
|---|---|---|
| `residency` | What may a release touch, is a PASS ever a guess, what does teardown leave behind, whom may a warm displace, under all faults at once? | 1 client, 1 worker with memory for two models, 3 models, every fault, one abandoned script or owed move at a time; 774,336 states |
| `fold` | Is the verdict over a long list the join, for each host? | 3 hosts, all lists to 3, sparse lists of 8, 9, 13 and 33 |
| `atlas` | acceptance, effects, confirmation | about a hundred envelopes, 2 workers, 2 participants, all views, clock 0..1 |
| `agent` | pass, evidence, restoration, termination | 2 attempts, 2 chats each, 1 tool call a message, 1 worker, 2 models, 1 file, 3 settings, 2 routes, 1 lost dispatch at a time; 1,555,505 states |
| `placement` | pins, real selections, evidence, cascade | 2 remote workers and the controller's, 3 models, 4 roles configured and 2 attempts, so that a route may be cut short, 10 requests, 4 profiles, 12 fleets, 1 refresh, 2 records; 930,132 states |
| `placement_stale` | *violated*: an automatic placement uses a CURRENT inventory | as `placement` |
| `commons` | Who may cause an effect, what does an answer say of it, is every call answered? | 2 concurrent calls of any kind, all settings, 9 states of the Commons, 1 change |
| `fabric` | Whose files and whose record remain, what does an answer say of the effect, do calls return? | 2 chats, 1 refresh of 1 worker, 2 bundle roots; 1 job submitted twice; 6 settings |
| `console` | Is the interface busy only while something ends that, and does it end? | 2 runs, 1 inspection, 2 workers, 2 models, 1 change of the fleet, 2 selections |
| `readiness` | Is READY earned, how far is it from the document over a quiet fleet, and do the profiles nest? | 2 workers, deployments with one flaw, management that tells part, one defect, 1 change; snapshots with two variations; 1,201,974 states |
| `reconcile` | Is what is reported of a warm true, also of warms that outlive the call, and does the call return? | 2 workers, 2 models; a full pool with one act of others, or a pool with room |
| `reconcile_timeout` | *violated*: the transport's timeout is its own again when nothing is in flight | 2 workers, a pool with room |

What they show: every property of the ten others holds in every reachable state or
behaviour of its instance, and each has a mutant of a mapped definition that breaks it.

The bounds. *Residency*: the client prepares, dies, comes back, tears down and, as
an operator, releases, any number of times, so what matters is between what it asked
for before and after a fault. Workers share nothing but the loop, so one has all of
it: the requested model beside two that others load, with memory for two of the
three, finds its worker empty, shared or full. A request beyond the pin limit is one
of the inputs. A second client would be one more outside user of the worker; the
proofs hold for any number of them. *Fold*: every boundary is a length of one
envelope, one more, and one where a further round is needed; a list with two special
elements detects any skipped or misplaced slot. *Atlas*: decisions interact in pairs
(any two kinds, any order), evidence fails in one way at a time, and a gate can be
confused by another leg, another worker, another session or a changed observation:
each has two values. *Placement*: what competes is two workers and three kinds of
model (the configured one, one that claims tools, one that claims little), each warm
or cold; one refresh is enough to outdate a captured status, and two records are
enough for one to overrule another. *Agent*: two attempts of two chats are the least
in which a record, a file and a displaced model outlive a chat and an attempt, and
in which a bundle lost in one attempt runs in the next. *Commons*: two calls are the
least in which one depends on what another did to the session (the admin
connection); what can be wrong with a Commons is one thing at a time, since the
checks report the first; one change puts any of these between any two steps.
*Fabric*: what chats of one session can confuse is a file, a context and a record,
each between two of them; two roots let one chat be half way through cleaning while
another copies. *Console*: two runs replace each other in their group while an
inspection is in another. *Readiness*: a profile is decided by its worst layer and
by provenance, so one flaw outside the fleet and one defect of one worker beside a
held or a sound one, changed once between any two calls, reach each condition, and
two variations of a snapshot each pair of them. *Reconcile*: a warm waits for
another, or overlaps with another, with two workers; the pool has 8 threads in the
code, and 1 or 2 here, below and at the number of workers; `outside` bounds how
often others act. `MaxOrphans`, `MaxLost`, `MaxTime`, `MaxCalls`, `MaxRefreshes`,
`MaxEvidence`, `MaxChanges`, `MaxPicks` and `MaxRetries` are bounds of the models
alone; `MaxToolSteps`, `MaxAttempts`, `MaxAge` and `MaxPinned` are settings of the
code.

Fairness. `EnvelopeFold!FairSpec` assumes that a sequential computation which can
take its next step does: it runs over a finite list and waits for nobody.
`AgentRun!FairSpec` assumes it of `Step`, everything but refreshes by others and
bundles run late: the agent is one thread and every call it waits for (HTTP,
subprocess, Fabric job, reconciliation) has a limit in the code.
`CommonsSession!FairSpec` assumes that a call under way goes on (`Handle`): each
wait in `_exchange` has a timeout. `FabricSession!FairSpec` assumes it of a chat's
thread (`Thread`) and of the thread that refreshes (`CollectAnswers`), both of which
wait with limits, and of no worker. `Console!ConsoleFairSpec` assumes that threads
end and that the event loop serves what they hand it, and nothing of the user.
`ResidentReconcile!FairSpec` assumes it of the caller (`Caller`), whose wait for
each future is limited, and of no warm thread. The other runs check safety and
assume none; that a call of `ExperimentResidency` returns is not checked, since it
would say no more than that each dispatch has a time limit.

`CHECK_DEADLOCK FALSE` is given where everything ends: the lists of the folds, the
runs of the agent and of the interface, the calls of the sessions, an inspection, a
reconciliation.

### Where the code and its documents disagree

- `reconcile_timeout`: `_FreshDispatchClient.execute` saves the shared transport's
  timeout, extends it and puts back what it saved
  (`fabric_inventory_session.py:213-230`). Two warms of one reconciliation overlap:
  the second saves the first's extended value, and if it ends last, that value stays
  on the transport for every later control request. `tests/test_live_worker_inventory.py:92`
  asserts for a single dispatch that the timeout is its own again.
- `placement_stale`: `docs/FABRIC.md:180-182` says that automatic and role-based
  placement uses CURRENT inventories only and that a STALE one fails closed.
  `resolve_model_from_status` accepts last-known ones
  (`fabric_inventory_session.py:915`, as its docstring says): TLC places an
  automatic request on a worker whose inventory is stale. Pins on a worker or a model
  without a fallback do fail closed, which `SelectionIsReal` has.

Met while modelling, without a run of their own. *Residency*: `residency release` at
the command line unloads whatever the operator names, pre-existing or not, since it
makes up a managed lease (`cli.py:1302-1311` against
`docs/EXPERIMENT_MODEL_RESIDENCY.md:47-49`); `PreexistingLeftLoaded` excludes it by
name (`"named"`), and without that exclusion TLC finds the release; a warm whose
reply is lost still loads the model; the retry takes it for pre-existing and the
teardown leaves it pinned (`residency.py:459` against
`docs/EXPERIMENT_MODEL_RESIDENCY.md:35`); the restoration after an attempt trusts
the inventory from before it (`agent.py:276` against
`docs/DISTRIBUTED_RESIDENCY_ROUTING.md:57-62`); of two refreshes that race, an older
probe that succeeded can be published after a newer one that failed and drop its
error (`fabric_inventory_session.py:801`). *Atlas*: freshness is judged before
placement, so a job that ran on another worker after its observation expired is
UNKNOWN rather than REFUSED, and a success (`atlas_binding.py:648` against
`fabric_target_tools.py:351`). *Pins*: a pinned chat falls back to the controller by
default (`provider.py:198` against `docs/DISTRIBUTED_RESIDENCY_ROUTING.md:76`); an
inspection replaces a selected worker or model that is no longer listed by the first
option, pins included (`tui.py:1079-1107` against `tui.py:712-714`). *Terminal
interface*: the error of a cancelled thread is shown and enables the buttons
(`tui.py:960` against the end of `docs/TUI.md`). *Readiness*: a worker that Fabric's
ledger calls READY and CERTIFIED is eligible without the identity checks of
`docs/EXPERIMENT_READINESS.md:32-42`, and without its conformance being known when
management does not answer (`experiment_readiness.py:356-366` against line 32); the
embedded controller refreshes the fleet on startup where line 18 says the command
does not; the live command never asks for Forge, so `code-analysis` and `RAVEL` are
never READY there; a model without a digest on a worker that is not eligible
degrades READY; DEGRADED exits with 0. *Elsewhere*: assignments of one request are
judged against the snapshot taken before the first, so with two pins per worker two
cold models are warmed side by side (`residency.py:413` against
`docs/EXPERIMENT_MODEL_RESIDENCY.md:43`), and the second may evict the first (lines
44-45 promise the contrary "by default", which is one pin per worker); the
properties say what remains: the loaded models, or the free memory, were no longer
what the admission was based on; two experiments that share weights lose them at the
first teardown, since leases are per caller (the same document, line 50); a loaded
model may be refused when the memory it occupies is no longer free (line 49); a job
admitted with a fresh observation that expires meanwhile is annotated UNKNOWN after
it ran (`fabric_target_tools.py:64-67`); evidence is recorded for a worker and a
model (`model_evidence.py:4`) and looked up by model alone; a `verify-models` probe
that answers UNKNOWN overrules an earlier FAIL; a model that failed its own probe
still counts as a tools signal against the others (`model_selection.py:223`); a
legacy lane, or a configuration without both working roles, may try a role twice;
the docstring of `mncs_exec.publication_gate` orders its refusals differently from
the kernel.

## 5. Proofs

All theorems hold for every value of the constants that satisfies the named
assumption of the module (`ConstantsAssumption`, `JoinAssumption` and
`WidthAssumption`, `AtlasAssumption`, `PlacementAssumption`, `AgentAssumption`,
`CommonsAssumption`, `FabricAssumption`, `ConsoleAssumption`, `ReadinessAssumption`,
`ReconcileAssumption`), which TLC evaluates on every run. The assumptions say what
type a constant has, that fleets, models and requests are finite, that sizes and
memories are natural numbers, and that the ranks standing for names are
injective: worker identities are unique in a status and models are
deduplicated by name before they are sorted. Hypotheses beyond these are stated in
the theorem and named there. Each theorem is proved from an inductive invariant.

**ExperimentResidency.** `TypeCorrect`, `PreexistingSafe`, `ClaimsTrue`,
`LeavesNothing`, `EvictsNothing`, `ColdIsAlone`. None has a hypothesis: they hold
under every fault, policy and interleaving. `PreexistingLeftLoaded` speaks of a
release in flight and is not inductive: whether a pair becomes a managed lease is
decided when a warm's reply is processed. `IInv` adds what is known in between: a
flight belongs to a call and names one of its pairs (`FlightOK`); a model in
`untouched` is loaded and was loaded when the script looked, so its lease is never
managed (`UntouchedOK`); a releasing client flies only for managed leases and what
an operator named (`ReleaseOK`); and what the script saw is in `witness`
(`WitnessOK`). One lemma per action.

`LeavesNothing` must follow weights that are not there yet. `CoveredOK` sharpens the
property: of the dispatches waited for, only a warm that found the model absent and
has sent its request excuses the weights. `OrphansOK` and `OwedOK` say that work
nobody waits for, an abandoned script's or a late provider's, belongs to a pair in
doubt, or to the very warm that has yet to see the model; `CountedOK` and `GoneOK`
that what a script concluded from its first listing is still so or in doubt.
`LeftOK` is their conjunction. A record settles a doubt only if no such work is left
(`Settle`), which is what makes it inductive.

For the policy, `AdmittedOK` says that a prepare in flight is one its snapshot
admitted, and `CapacityOK` that no worker ever holds more than its memory. If the
facts promised no more memory than there is, the model fits beside what is loaded,
and the provider drops nothing, whichever models it would drop (`RoomKeeps`). This
rests on lemmas about the sum of stored sizes (`SumExists`, `SumIsStored`,
`StoredAdds`): the sum is a fold whose order the library leaves open, so they show
that every order gives one value, by taking a least counterexample of a well-founded
order, which needs no induction scheme.

**EnvelopeFold.** `FoldIsJoin`, `TypeCorrect`. The result is
characterised without recursion: a verdict dominates a list when it dominates
each element. `NothingLost` says that at every moment the verdicts still in the
queue, the envelope, the accumulator and the partial results have together
exactly the upper bounds of the input; it is preserved by each step because
`Join` is a least upper bound (`JoinDominated`) and the padding is neutral
(`NeutralDominated`), and when one value is left it is the join. `FoldIsWorst`
specialises it: over the readiness statuses, with the kernel's own table as the
pairwise step, whatever is returned is the `Worst` by which `Readiness` computes a
verdict.

**Readiness** (in `EnvelopeFold_proofs`). `ReadyEarned`, `QuietlyExact`,
`ProfilesBuildOnOneAnother`, `ReadinessTyped`. The verdict looks at evidence, the
properties at the fleet; between them `HonestOK` says that every defect which a
row's evidence speaks of (`Tells`) is shown or was absent at some moment since the
inspection began, which `Enriched` keeps because it drops only what it also stops
speaking of (`EnrichedIsHonest`); `RestOK` what the calls made so far learned of the
rest of the deployment; and `JudgedOK` that a verdict is the judgement of the
evidence at hand. `QuietOK` sharpens `HonestOK` to what is there in a fleet that
does not change, from which the layers are computed one by one (`JudgementIsReady`)
and compared with the document, in both directions (`QuietJudgement`).

**AtlasBinding.** `TypeCorrect`, `AuthorityIsAccepted`, `EffectsAreAuthorized`,
`ConfirmationIsPlacement`. `NeedIsAuthority` proves, need by need, that the
code's walk over decisions, fold and evidence grants exactly what `Authorizes`
says; the invariant then carries "the loaded requirement was verified at its
load" (`LoadedOK`), "the bound acceptance is the acceptance of the bound leg"
(`BoundOK`) and "a job under way was admitted" (`CallOK`) across rebinding, time
and observations.

**Placement.** `TypeCorrect`, `CascadeCorrect`, `PinsAreExact`,
`SelectionCorrect`, `FailuresAreHeeded`. The lemmas follow the code: the shape of
a route (`EscalationsShape`, `DeterministicRouteFacts`, `PlanRouteFacts`), what an
honoured pin and an automatic placement are (`PinnedReal`, `AutomaticReal`), and
`ResolutionCases`: a decision is an honoured pin, an automatic placement the
request allowed, a refused pin or the absence of a placement. The three action
properties follow by these cases, since only `Resolve` decides
(`OnlyResolveDecides`).

`AnyTagIsPlaced` and `PlacementsStick` need more: that something comes first. Sort
keys are compared lexicographically; `PrecedesTotal`, `PrecedesTransitive` and
`PrecedesStrict` make that a strict order on keys of one length, and `OneFirst` and
`NotTwoFirsts` that a finite set with distinct keys has exactly one first element
(a least bad subset would have to have two). So `SelectInstalled` and `Place` answer
exactly once (`SelectedSome`, `SelectedOne`, `PlacedSome`, `PlacedOne`).
`AnyTagIsPlaced` has the hypothesis `Permissive`, the defaults of `SelectionPolicy`
(`model_capabilities.py:77-84`); with evidence required a fleet nobody has probed
is refused by design. `PlacementsStick` has none: `Warms` says what a worker that
has loaded a model shows, `Sooner` and `Later` that moving one component of
a key the right way keeps the order, and so the worker that came first
(`PlaceSticks`), the model that came first (`SelectSticks`, although several copies
are merged and the first listed counts) and a pin that failed (`NoPinSticks`) do
so again.

**AgentRun.** `TypeCorrect`, `EvidenceCorrect`, `PassedIsVerified`,
`DisplacedReconciled`. Evidence: `RecordIsOwn`, while a chat that Fabric took is in
hand the session holds its record or none. Files: `WrittenIsTracked`, what was
written is tracked or about to be, and all tracked once verified, with
`PassedIsSound`. Workers: `Owing`, without fallback and but for bundles run late only
the attempt's own worker can be displaced, its effective target is never the
controller, so its restoration is due; a worker that a late bundle displaces while
nothing is owed has `strayed`, one that its attempt displaces has not.

**CommonsSession.** `EffectsAreAuthorized`, `KeepsContract`. `IInv` is one
predicate, `Sound`, of each call's record and effect count: no effect before it is
performed, none after a refusal, one after a success, a late effect only after an
error, and an effect only of what was allowed. Every step moves one call (`Moves`),
and its move is a stutter, a performance or an answer of `RemoteCall` (`Maps`), so
the invariant and the refinement are proved together, action by action (`Keeps`).

**FabricSession.** `NothingLeftInRoots`, `OwnRecord`, `KeepsContract`. Answers and
effects as above, per chat (`SoundChat`) and per job (`SoundJob`), with `Retries` a
fourth way to map. Roots: `Holds` says where a chat's request may still lie, which
shrinks root by root while it cleans up; what lies in a root is a request of a
chat that may hold it (`RootsOK`), whoever removes it. Records: a chat nobody
overlapped is the only one under way, the context is its own, and the record is
none until it is its own (`RecordOK`).

**ResidentReconcile.** `Typed`, `WarmedHeldItsModel`, `KeepsContract`. Of each pair
of a reconciliation and a worker, `Sound` relates how far the thread is, what the
caller was told, whether the caller still waits, and how often the worker
carried the warm out; `PairOK` adds that a thread which has an answer left its
mark in `witness`, and `SeenOK` that a declared model which is loaded while the
reconciliation runs was seen. Every step advances one thread, or the caller
(`Advances`), and maps to a stutter, a performance or an answer of `RemoteCall`.

**Console** (in `FabricSession_proofs`). `BusyIsEarned`. The strengthening is that a
cancelled worker was started before (`CancelledStarted`), so that a thread that
starts is not already cancelled.

Only model-checked: `CallsReturn` (of `FabricSession` and of `ResidentReconcile`),
`CallsAnswered`, `HostReturns`, `RunReturns` and `BecomesUsable`, since liveness
under fairness is out of the prover's reach. Every other property of a passing run
is a theorem. `TimeoutRestored` and `AutomaticIsCurrent` are violated and, of
course, not provable.

## 6. Not modelled

See `PROJECT.json`, "components", for each part. In short: the MNCS interpreter,
Fabric, Ollama, Commons and Atlas themselves (modelled from how the harness uses
them); commissioning, which an operator runs once, over SSH, in a fixed order and
whose outcome is decided by the remote machine; presentation, configuration
parsing, the metrics log and prompts, which have no concurrent behaviour; the
end-to-end gauntlet, a test. Inside the modelled parts, time limits are
possibilities rather than durations, and byte counts, digests, prompts and
messages are reduced to what the decisions distinguish.

## 7. Running

    tlc -workers 2 -config MCAgent.cfg MCAgentRun.tla
    tlapm AgentRun_proofs.tla

Each run of `PROJECT.json` names its module and its configuration.
