------------------------- MODULE ExperimentResidency -------------------------
(***************************************************************************)
(* The explicit model-weight lifecycle of sustained experiments:           *)
(* ResidencyManager.prepare_experiment and release_experiment              *)
(* (src/src/mncs_harness/residency.py), the exact-target operation they    *)
(* dispatch (InventoryAwareFabricSession._change_model_residency and the   *)
(* worker script _residency_script in fabric_inventory_session.py) and the *)
(* provider whose weights they move.                                       *)
(*                                                                         *)
(* A client is a caller that runs one experiment and keeps the leases the  *)
(* calls returned, or an operator at the command line.  A pair <<w, m>> is *)
(* an exact worker/model assignment.                                       *)
(* The cached capability observation obs is what the session knows, facts  *)
(* what Fabric last recorded of a worker's free memory; the set loaded is  *)
(* what the provider really holds.  A dispatch is a protocol of its own:   *)
(* the worker script reads /api/ps, posts /api/generate, reads /api/ps     *)
(* again, its reply may be lost at any point while the script goes on, and *)
(* the provider may move the weights after it has answered.                *)
(***************************************************************************)
EXTENDS Integers, FiniteSets, FiniteSetsExt

CONSTANTS
  Worker, Model, Client,
  Outsider,           \* whoever else loads models: operators, inference requests
  Request,            \* the assignment sets a caller may ask for
  Rank,               \* the order sorted(requested.items()) visits pairs in
  Installed,          \* models each worker's provider has on disk
  Lifecycle,          \* models whose provider advertises warm/observe/release
  Size, Memory,       \* bytes of a model, host memory of a worker
  Budget,             \* maximum_model_memory_fraction of that memory
  MaxPinned,          \* max_pinned_models_per_worker
  Strict,             \* the clients with reject_conflicting_loaded_models
  Interleaved,        \* may the calls of two clients overlap in time?
  Faults,             \* which parts of the environment misbehave
  MaxOrphans          \* bound: abandoned scripts, and moves owed, at a time

Pair == Worker \X Model
FaultKinds == {"lost-reply", "lazy-provider", "caller-death", "outside", "fleet",
               "resources", "operator"}

ASSUME ConstantsAssumption ==
  /\ Outsider \notin Client
  /\ IsFiniteSet(Model)
  /\ Size \in [Model -> Nat]
  /\ Memory \in [Worker -> Nat]
  /\ Request \subseteq SUBSET Pair
  /\ \A req \in Request : IsFiniteSet(req)
  /\ Installed \in [Worker -> SUBSET Model]
  /\ Lifecycle \subseteq Model
  /\ MaxPinned \in Nat
  /\ Strict \subseteq Client
  /\ Interleaved \in BOOLEAN
  /\ Faults \subseteq FaultKinds
  /\ MaxOrphans \in Nat

NoPair == << >>

InventoryStatus == {"CURRENT", "AGED", "STALE", "UNAVAILABLE"}
Observation == [status : InventoryStatus, loaded : SUBSET Model]
Snapshot == [up : BOOLEAN, status : InventoryStatus, loaded : SUBSET Model, free : Int]
NoSnapshot == [w \in Worker |->
  [up |-> FALSE, status |-> "UNAVAILABLE", loaded |-> {}, free |-> 0]]
Stage == {"none", "sent", "observed", "acted", "confirmed"}
Flight == [stage : Stage, pair : Pair \cup {NoPair},
           before : BOOLEAN, after : BOOLEAN]
Grounded == [stage |-> "none", pair |-> NoPair, before |-> FALSE, after |-> FALSE]

LoadClaims == {"RESIDENCY_WARMED", "RESIDENCY_REUSED"}
ReleaseClaims == {"RESIDENCY_RELEASED", "RESIDENCY_ALREADY_RELEASED"}
Failures == {"RESIDENCY_WARM_FAILED", "RESIDENCY_RELEASE_FAILED"}
LeaseKind == {"none", "managed", "unmanaged", "named"}

VARIABLES
  loaded,     \* [Worker -> SUBSET Model]: weights the provider holds now
  up,         \* [Worker -> BOOLEAN]: Fabric reports the worker AVAILABLE
  facts,      \* [Worker -> Int]: free memory in the last resource_snapshot, 0 if absent
  obs,        \* [Worker -> Observation]: cached capability observation
  op,         \* [Client -> "idle" | "prepare" | "release"]: the call being run
  todo,       \* [Client -> SUBSET Pair]: pairs the call has not handled yet
  snap,       \* [Client -> [Worker -> Snapshot]]: the status prepare works from
  flight,     \* [Client -> Flight]: the dispatch the client is waiting for
  lease,      \* [Client -> [Pair -> LeaseKind]]; "named": what an operator typed
  orphans,    \* residency scripts nobody waits for any more
  owed,       \* moves of weights the provider answered for and has yet to make
  report,     \* the record the last step appended to its results, if any
  \* history, read by properties only:
  witness,    \* [Client -> SUBSET BOOLEAN]: was the pair in flight loaded/absent?
  untouched,  \* [Client -> SUBSET Pair]: loaded ever since before the client asked for it
  origin,     \* [Pair -> Client \cup {Outsider}]: who loaded what is loaded
  unsettled   \* SUBSET (Client \X Pair): what the caller was told is not the end of it

world == <<loaded, owed, witness, untouched, origin, unsettled>>
vars == <<loaded, up, facts, obs, op, todo, snap, flight, lease, orphans, owed, report,
          witness, untouched, origin, unsettled>>

Held(l) == {p \in Pair : p[2] \in l[p[1]]}
Stored(S) == MapThenSumSet(LAMBDA m : Size[m], S)

(***************************************************************************)
(* The provider (Ollama), modelled from how the scripts use it: a load     *)
(* that does not fit beside the resident models evicts enough of them.     *)
(***************************************************************************)
SurvivorsOf(w, m) ==
  LET others == loaded[w] \ {m}
  IN  {K \in SUBSET others :
        /\ Stored(K \cup {m}) =< Memory[w]
        /\ Stored(others \cup {m}) =< Memory[w] => K = others}

\* A move that is owed lapses when the weights are where it would put them.
Remaining(S, l) == {j \in S : (j.pair \in Held(l)) # (j.action = "prepare")}

\* The warm scripts that have just seen p loaded and count on it.
CountsOn(c, p) ==
  op[c] = "prepare" /\ flight[c].pair = p /\ flight[c].stage = "observed" /\ flight[c].before

\* Every step that moves weights goes through here, so that the history
\* variables follow the provider exactly.
SetLoaded(l, who) ==
  /\ loaded' = l
  /\ owed' = Remaining(owed, l)
  /\ unsettled' = unsettled \cup
       {cp \in Client \X Pair : cp[2] \in Held(loaded) \ Held(l) /\ CountsOn(cp[1], cp[2])}
  /\ witness' = [c \in Client |->
                  IF flight[c].stage = "none" THEN witness[c]
                  ELSE witness[c] \cup {(flight[c].pair \in Held(l))}]
  /\ untouched' = [c \in Client |-> untouched[c] \cap Held(l)]
  /\ origin' = [p \in Pair |-> IF p \notin Held(l) THEN Outsider
                               ELSE IF p \in Held(loaded) THEN origin[p] ELSE who]

Load(p, who) ==
  \E K \in SurvivorsOf(p[1], p[2]) :
    SetLoaded([loaded EXCEPT ![p[1]] = K \cup {p[2]}], who)

Unload(p, who) == SetLoaded([loaded EXCEPT ![p[1]] = @ \ {p[2]}], who)

(***************************************************************************)
(* _refresh_model_inventories: list the workers, probe every available     *)
(* one.  A failed listing leaves every observation as it was; a failed     *)
(* probe publishes an empty UNAVAILABLE observation.                       *)
(***************************************************************************)
ProbeResults(ok) ==
  [w \in Worker |->
     IF ~up[w] THEN obs[w]
     ELSE IF w \in ok THEN [status |-> "CURRENT", loaded |-> loaded[w]]
     ELSE [status |-> "UNAVAILABLE", loaded |-> {}]]

Refreshes ==
  IF "lost-reply" \in Faults
  THEN {obs} \cup {ProbeResults(ok) : ok \in SUBSET Worker}
  ELSE {ProbeResults(Worker)}

(***************************************************************************)
(* prepare_experiment: the checks of its loop, in their order.  The first  *)
(* that fails is the code the record carries.                              *)
(***************************************************************************)
\* Mutant: only the policy budget is looked at.
ResourceGateBudgetOnly(p, s) == Size[p[2]] =< Budget[p[1]]

\* Free memory is what Fabric recorded, not what the provider has left: the
\* resource_snapshot and the list of loaded models are captured apart.
ResourceGate(p, s) ==
  /\ s.free > 0
  /\ Size[p[2]] > 0
  /\ Size[p[2]] =< Budget[p[1]]
  /\ Size[p[2]] =< s.free

\* Mutant: the veto is never given.
ResidencyAdmitAlways(c, p, s) == TRUE

ResidencyAdmit(c, p, s) ==
  \/ s.loaded \ {p[2]} = {}
  \/ c \notin Strict
  \/ p[2] \in s.loaded

Checks(c, p, s) ==
  << [code |-> "RESIDENCY_WORKER_UNAVAILABLE",        ok |-> s.up],
     [code |-> "RESIDENCY_OBSERVATION_STALE",         ok |-> s.status # "AGED"],
     [code |-> "RESIDENCY_INVENTORY_NOT_CURRENT",     ok |-> s.status \in {"CURRENT", "AGED"}],
     [code |-> "RESIDENCY_MODEL_NOT_INSTALLED",       ok |-> p[2] \in Installed[p[1]]],
     [code |-> "RESIDENCY_PROVIDER_UNSUPPORTED",      ok |-> p[2] \in Lifecycle],
     [code |-> "RESIDENCY_RESOURCE_POLICY_REJECTED",  ok |-> ResourceGate(p, s)],
     [code |-> "RESIDENCY_CONFLICTING_LOADED_MODELS", ok |-> ResidencyAdmit(c, p, s)] >>

Admitted(c, p, s) == \A i \in DOMAIN Checks(c, p, s) : Checks(c, p, s)[i].ok

\* _change_model_residency looks at the live status again before it dispatches.
Dispatchable(p) ==
  /\ up[p[1]]
  /\ obs[p[1]].status \in {"CURRENT", "AGED"}
  /\ p[2] \in Installed[p[1]]
  /\ p[2] \in Lifecycle

Overflows(req) ==
  \E w \in Worker : Cardinality({p \in req : p[1] = w}) > MaxPinned

MayCall(c) == op[c] = "idle" /\ (Interleaved \/ \A d \in Client : op[d] = "idle")

Record(c, p, code) == [client |-> c, pair |-> p, code |-> code, seen |-> witness[c]]

\* Work of c on p that nobody waits for: it may still move the weights.
Pending(c, p) == \E j \in orphans \cup owed : j.for = c /\ j.pair = p

\* A failure leaves the pair in doubt; a later record ends the doubt when the
\* experiment holds a managed lease or the weights are gone, and no work of
\* the client's on the pair is still to come.
Settle(c, p, code, hold) ==
  IF code \in Failures THEN unsettled \cup {<<c, p>>}
  ELSE IF ~Pending(c, p) /\ (hold = "managed" \/ p \notin Held(loaded))
       THEN unsettled \ {<<c, p>>}
  ELSE unsettled

\* Append one result record and go on with the next pair.
Emit(c, p, code, hold) ==
  /\ report' = {Record(c, p, code)}
  /\ lease' = [lease EXCEPT ![c][p] = hold]
  /\ todo' = [todo EXCEPT ![c] = @ \ {p}]
  /\ flight' = [flight EXCEPT ![c] = Grounded]
  /\ witness' = [witness EXCEPT ![c] = {}]
  /\ unsettled' = Settle(c, p, code, hold)
  /\ UNCHANGED <<loaded, owed, untouched, origin, up, facts, op, snap>>

IsNext(c, p) ==
  /\ op[c] # "idle"
  /\ flight[c].stage = "none"
  /\ p \in todo[c]
  /\ op[c] = "prepare" => \A q \in todo[c] : Rank[p] =< Rank[q]

FailCode(c) == IF op[c] = "prepare" THEN "RESIDENCY_WARM_FAILED"
                                    ELSE "RESIDENCY_RELEASE_FAILED"

BeginPrepare(c, req) ==
  /\ MayCall(c)
  /\ ~Overflows(req)
  /\ \E o \in Refreshes :
       /\ obs' = o
       /\ snap' = [snap EXCEPT ![c] = [w \in Worker |->
            [up |-> up[w], status |-> o[w].status, loaded |-> o[w].loaded,
             free |-> facts[w]]]]
  /\ op' = [op EXCEPT ![c] = "prepare"]
  /\ todo' = [todo EXCEPT ![c] = req]
  /\ untouched' = [untouched EXCEPT ![c] =
       {p \in Held(loaded) : (p \in req /\ lease[c][p] = "none") \/ p \in untouched[c]}]
  /\ report' = {}
  /\ UNCHANGED <<loaded, up, facts, flight, lease, orphans, owed, witness, origin, unsettled>>

\* A request beyond the pin limit, or a refresh that raises, fails as a whole.
RefusePrepare(c, req) ==
  /\ MayCall(c)
  /\ \/ /\ Overflows(req)
        /\ report' = {Record(c, p, "RESIDENCY_PIN_LIMIT_EXCEEDED") :
                       p \in {q \in req : Overflows({r \in req : r[1] = q[1]})}}
     \/ /\ ~Overflows(req)
        /\ "lost-reply" \in Faults
        /\ report' = {Record(c, p, "RESIDENCY_INVENTORY_REFRESH_FAILED") : p \in req}
  /\ UNCHANGED <<world, up, facts, obs, op, todo, snap, flight, lease, orphans>>

BeginRelease(c) ==
  /\ MayCall(c)
  /\ \E p \in Pair : lease[c][p] # "none"
  /\ op' = [op EXCEPT ![c] = "release"]
  /\ todo' = [todo EXCEPT ![c] = {p \in Pair : lease[c][p] # "none"}]
  /\ report' = {}
  /\ UNCHANGED <<world, up, facts, obs, snap, flight, lease, orphans>>

Refuse(c, p) ==
  /\ IsNext(c, p)
  /\ op[c] = "prepare"
  /\ \E i \in DOMAIN Checks(c, p, snap[c][p[1]]) :
       LET checks == Checks(c, p, snap[c][p[1]])
       IN  /\ ~checks[i].ok
           /\ \A j \in 1..(i - 1) : checks[j].ok
           /\ Emit(c, p, checks[i].code, lease[c][p])
  /\ UNCHANGED <<obs, orphans>>

LeavePreexisting(c, p) ==
  /\ IsNext(c, p)
  /\ op[c] = "release"
  /\ lease[c][p] = "unmanaged"
  /\ Emit(c, p, "RESIDENCY_LEFT_PREEXISTING", "none")
  /\ UNCHANGED <<obs, orphans>>

Wanted(c, p) ==
  /\ IsNext(c, p)
  /\ \/ op[c] = "prepare" /\ Admitted(c, p, snap[c][p[1]])
     \/ op[c] = "release" /\ lease[c][p] \in {"managed", "named"}

Dispatch(c, p) ==
  /\ Wanted(c, p)
  /\ Dispatchable(p)
  /\ flight' = [flight EXCEPT ![c] =
       [stage |-> "sent", pair |-> p, before |-> FALSE, after |-> FALSE]]
  /\ witness' = [witness EXCEPT ![c] = {(p \in Held(loaded))}]
  /\ report' = {}
  /\ UNCHANGED <<loaded, owed, untouched, origin, unsettled, up, facts, obs, op, todo, snap,
                 lease, orphans>>

DispatchRefused(c, p) ==
  /\ Wanted(c, p)
  /\ ~Dispatchable(p)
  /\ Emit(c, p, FailCode(c), lease[c][p])
  /\ UNCHANGED <<obs, orphans>>

(***************************************************************************)
(* _residency_script on the worker: /api/ps, /api/generate, /api/ps.  A    *)
(* release that finds the model absent skips the middle request and        *)
(* reports the first listing.  A lazy provider answers /api/generate       *)
(* before it moves the weights, which it does later (OwedMove) or never.   *)
(***************************************************************************)
\* Mutant: the pair is read after the dispatch was cleared.
JobCleared(c) == [action |-> op[c], pair |-> NoPair, for |-> c]

Job(c) == [action |-> op[c], pair |-> flight[c].pair, for |-> c]

LazyProvider(c) ==
  /\ "lazy-provider" \in Faults
  /\ owed' \in {owed} \cup (IF Cardinality(orphans \cup owed) < MaxOrphans
                            THEN {Remaining(owed \cup {Job(c)}, loaded)} ELSE {})
  /\ UNCHANGED <<loaded, witness, untouched, origin, unsettled>>

ScriptObserve(c) ==
  LET f == flight[c] IN
  /\ f.stage = "sent"
  /\ flight' = [flight EXCEPT ![c].stage = "observed",
                              ![c].before = f.pair \in Held(loaded)]
  /\ report' = {}
  /\ UNCHANGED <<world, up, facts, obs, op, todo, snap, lease, orphans>>

ScriptWarm(c) ==
  /\ flight[c].stage = "observed"
  /\ op[c] = "prepare"
  /\ Load(flight[c].pair, c) \/ LazyProvider(c)
  /\ flight' = [flight EXCEPT ![c].stage = "acted"]
  /\ report' = {}
  /\ UNCHANGED <<up, facts, obs, op, todo, snap, lease, orphans>>

ScriptRelease(c) ==
  /\ flight[c].stage = "observed"
  /\ op[c] = "release"
  /\ flight[c].before
  /\ Unload(flight[c].pair, c) \/ LazyProvider(c)
  /\ flight' = [flight EXCEPT ![c].stage = "acted"]
  /\ report' = {}
  /\ UNCHANGED <<up, facts, obs, op, todo, snap, lease, orphans>>

ScriptSkip(c) ==
  /\ flight[c].stage = "observed"
  /\ op[c] = "release"
  /\ ~flight[c].before
  /\ flight' = [flight EXCEPT ![c].stage = "confirmed", ![c].after = FALSE]
  /\ report' = {}
  /\ UNCHANGED <<world, up, facts, obs, op, todo, snap, lease, orphans>>

ScriptConfirm(c) ==
  LET f == flight[c] IN
  /\ f.stage = "acted"
  /\ flight' = [flight EXCEPT ![c].stage = "confirmed",
                              ![c].after = f.pair \in Held(loaded)]
  /\ report' = {}
  /\ UNCHANGED <<world, up, facts, obs, op, todo, snap, lease, orphans>>

(***************************************************************************)
(* The reply reaches the caller: verify it, refresh every inventory, and   *)
(* turn it into a lease or a release record.                               *)
(***************************************************************************)
\* Mutants: every model the experiment uses is its own; the prior lease is lost.
ManagedLeaseAlways(prior, before) == "managed"
ManagedLeaseForgetful(prior, before) == IF before THEN "unmanaged" ELSE "managed"

ManagedLease(prior, before) ==
  IF prior = "managed" \/ ~before THEN "managed" ELSE "unmanaged"

\* Mutant: a reply is a success, whatever the last /api/ps shows.
VerifiedAlways(c) == TRUE

Verified(c) == flight[c].after = (op[c] = "prepare")

Reply(c) ==
  LET f == flight[c] IN
  /\ f.stage = "confirmed"
  /\ Verified(c)
  /\ obs' \in Refreshes
  /\ \/ /\ op[c] = "prepare"
        /\ Emit(c, f.pair,
                IF f.before THEN "RESIDENCY_REUSED" ELSE "RESIDENCY_WARMED",
                ManagedLease(lease[c][f.pair], f.before))
     \/ /\ op[c] = "release"
        /\ Emit(c, f.pair,
                IF f.before THEN "RESIDENCY_RELEASED" ELSE "RESIDENCY_ALREADY_RELEASED",
                "none")
  /\ UNCHANGED orphans

\* RESIDENCY_VERIFICATION_FAILED inside the session: an exception, so no
\* refresh and no lease.
Unverified(c) ==
  /\ flight[c].stage = "confirmed"
  /\ ~Verified(c)
  /\ Emit(c, flight[c].pair, FailCode(c), lease[c][flight[c].pair])
  /\ UNCHANGED <<obs, orphans>>

\* What may become of a script whose caller stops waiting: it ends, or it is
\* still to send its /api/generate request.
LeftBehind(c) ==
  {orphans} \cup
  IF flight[c].stage \in {"sent", "observed"} /\ Cardinality(orphans \cup owed) < MaxOrphans
  THEN {orphans \cup {Job(c)}} ELSE {}

\* The transport or job timeout expires, or the reply is lost: an exception.
Lose(c) ==
  /\ "lost-reply" \in Faults
  /\ flight[c].stage # "none"
  /\ orphans' \in LeftBehind(c)
  /\ Emit(c, flight[c].pair, FailCode(c), lease[c][flight[c].pair])
  /\ UNCHANGED obs

OrphanActs(j) ==
  /\ IF j.action = "prepare" THEN Load(j.pair, j.for) ELSE Unload(j.pair, j.for)
  /\ orphans' = orphans \ {j}
  /\ report' = {}
  /\ UNCHANGED <<up, facts, obs, op, todo, snap, flight, lease>>

Named(c) == {p \in Pair : lease[c][p] = "named"}

\* The call returns its records; the command line probes the fleet once more
\* and forgets the record it made up.
Finish(c) ==
  /\ op[c] # "idle"
  /\ todo[c] = {}
  /\ op' = [op EXCEPT ![c] = "idle"]
  /\ snap' = [snap EXCEPT ![c] = NoSnapshot]
  /\ lease' = [lease EXCEPT ![c] = [p \in Pair |->
                 IF @[p] = "named" THEN "none" ELSE @[p]]]
  /\ IF Named(c) = {} THEN UNCHANGED obs ELSE obs' \in Refreshes \cup {obs}
  /\ report' = {}
  /\ UNCHANGED <<world, up, facts, todo, flight, orphans>>

\* `residency release` at the command line: whatever pair the operator names
\* goes into release_experiment with "managed": True.
OperatorRelease(c, p) ==
  /\ "operator" \in Faults
  /\ {p} \in Request
  /\ MayCall(c)
  /\ \A q \in Pair : lease[c][q] = "none"
  /\ obs' \in Refreshes
  /\ op' = [op EXCEPT ![c] = "release"]
  /\ todo' = [todo EXCEPT ![c] = {p}]
  /\ lease' = [lease EXCEPT ![c][p] = "named"]
  /\ untouched' = [untouched EXCEPT ![c] = {p} \cap Held(loaded)]
  /\ report' = {}
  /\ UNCHANGED <<loaded, owed, witness, origin, unsettled, up, facts, snap, flight, orphans>>

\* The caller's process ends, after a call (`residency warm` prints its leases
\* and exits) or in the middle of one: leases live in its memory only.
CallerDies(c) ==
  /\ "caller-death" \in Faults
  /\ orphans' \in LeftBehind(c)
  /\ op' = [op EXCEPT ![c] = "idle"]
  /\ todo' = [todo EXCEPT ![c] = {}]
  /\ snap' = [snap EXCEPT ![c] = NoSnapshot]
  /\ flight' = [flight EXCEPT ![c] = Grounded]
  /\ lease' = [lease EXCEPT ![c] = [p \in Pair |-> "none"]]
  /\ witness' = [witness EXCEPT ![c] = {}]
  /\ unsettled' = unsettled \cup
       {cp \in {c} \X Pair : lease[c][cp[2]] = "managed" \/ flight[c].pair = cp[2]}
  /\ report' = {}
  /\ UNCHANGED <<loaded, owed, untouched, origin, up, facts, obs>>

(***************************************************************************)
(* The rest of the world: other users of the provider, and Fabric's view   *)
(* of the fleet.                                                           *)
(***************************************************************************)
OutsideLoad(p) ==
  /\ "outside" \in Faults
  /\ p[2] \in Installed[p[1]] \ loaded[p[1]]
  /\ Load(p, Outsider)
  /\ report' = {}
  /\ UNCHANGED <<up, facts, obs, op, todo, snap, flight, lease, orphans>>

\* The provider makes a move it had answered for.
OwedMove(j) ==
  /\ IF j.action = "prepare" THEN Load(j.pair, j.for) ELSE Unload(j.pair, j.for)
  /\ report' = {}
  /\ UNCHANGED <<up, facts, obs, op, todo, snap, flight, lease, orphans>>

\* A keep_alive expires, or somebody unloads the model.
OutsideUnload(p) ==
  /\ "outside" \in Faults
  /\ p \in Held(loaded)
  /\ Unload(p, Outsider)
  /\ report' = {}
  /\ UNCHANGED <<up, facts, obs, op, todo, snap, flight, lease, orphans>>

FleetChange(w) ==
  /\ "fleet" \in Faults
  /\ \/ up' = [up EXCEPT ![w] = ~@] /\ UNCHANGED obs
     \/ \E s \in {"AGED", "STALE"} :
          /\ obs[w].status \in {"CURRENT", "AGED"} \ {s}
          /\ obs' = [obs EXCEPT ![w].status = s]
          /\ UNCHANGED up
  /\ report' = {}
  /\ UNCHANGED <<world, facts, op, todo, snap, flight, lease, orphans>>

\* Fabric captures a worker's resource_snapshot, at a time of its own, and may
\* have none.
ReportResources(w) ==
  /\ "resources" \in Faults
  /\ facts' \in {[facts EXCEPT ![w] = n] : n \in {0, Memory[w] - Stored(loaded[w])}}
  /\ report' = {}
  /\ UNCHANGED <<world, up, obs, op, todo, snap, flight, lease, orphans>>

Init ==
  /\ loaded \in [Worker -> SUBSET Model]
  /\ \A w \in Worker : loaded[w] \subseteq Installed[w] /\ Stored(loaded[w]) =< Memory[w]
  /\ up = [w \in Worker |-> TRUE]
  /\ facts = [w \in Worker |-> Memory[w] - Stored(loaded[w])]
  /\ obs = [w \in Worker |-> [status |-> "CURRENT", loaded |-> loaded[w]]]
  /\ op = [c \in Client |-> "idle"]
  /\ todo = [c \in Client |-> {}]
  /\ snap = [c \in Client |-> NoSnapshot]
  /\ flight = [c \in Client |-> Grounded]
  /\ lease = [c \in Client |-> [p \in Pair |-> "none"]]
  /\ orphans = {}
  /\ owed = {}
  /\ unsettled = {}
  /\ report = {}
  /\ witness = [c \in Client |-> {}]
  /\ untouched = [c \in Client |-> {}]
  /\ origin = [p \in Pair |-> Outsider]

\* What the caller does once a call has begun; the script on the worker runs
\* by itself.
CallerStep(c) ==
  \/ \E p \in Pair : \/ Refuse(c, p)
                     \/ LeavePreexisting(c, p)
                     \/ Dispatch(c, p)
                     \/ DispatchRefused(c, p)
  \/ Reply(c) \/ Unverified(c) \/ Lose(c)
  \/ Finish(c)

ScriptStep(c) ==
  \/ ScriptObserve(c) \/ ScriptWarm(c) \/ ScriptRelease(c)
  \/ ScriptSkip(c) \/ ScriptConfirm(c)

Begin(c) ==
  \/ \E req \in Request : BeginPrepare(c, req) \/ RefusePrepare(c, req)
  \/ BeginRelease(c)
  \/ \E p \in Pair : OperatorRelease(c, p)

Environment ==
  \/ \E j \in orphans : OrphanActs(j)
  \/ \E j \in owed : OwedMove(j)
  \/ \E p \in Pair : OutsideLoad(p) \/ OutsideUnload(p)
  \/ \E w \in Worker : FleetChange(w) \/ ReportResources(w)

Next ==
  \/ \E c \in Client : Begin(c) \/ CallerStep(c) \/ ScriptStep(c) \/ CallerDies(c)
  \/ Environment

Spec == Init /\ [][Next]_vars

------------------------------------------------------------------------------

Work == [action : {"prepare", "release"}, pair : Pair, for : Client]

\* Every variable stays in its type.
TypeOK ==
  /\ loaded \in [Worker -> SUBSET Model]
  /\ up \in [Worker -> BOOLEAN]
  /\ facts \in [Worker -> Int]
  /\ obs \in [Worker -> Observation]
  /\ op \in [Client -> {"idle", "prepare", "release"}]
  /\ todo \in [Client -> SUBSET Pair]
  /\ snap \in [Client -> [Worker -> Snapshot]]
  /\ flight \in [Client -> Flight]
  /\ lease \in [Client -> [Pair -> LeaseKind]]
  /\ orphans \subseteq Work
  /\ owed \subseteq Work
  /\ witness \in [Client -> SUBSET BOOLEAN]
  /\ untouched \in [Client -> SUBSET Pair]
  /\ origin \in [Pair -> Client \cup {Outsider}]
  /\ unsettled \subseteq Client \X Pair

\* The teardown of an experiment leaves pre-existing models loaded: no release
\* of a lease that prepare_experiment returned is ever on its way for a model
\* that has been loaded without interruption since before the client came, a
\* prepare repeated with its prior leases included.  The release an operator
\* types is not of that kind.  cmd_residency makes a managed lease up for it, and
\* it does unload pre-existing models, which docs/EXPERIMENT_MODEL_RESIDENCY.md:47
\* rules out for every release.
PreexistingLeftLoaded ==
  \A c \in Client :
    LET p == flight[c].pair
    IN  op[c] = "release" /\ flight[c].stage # "none" /\ lease[c][p] # "named"
          => p \notin untouched[c]

\* A PASS record is never a guess (_change_model_residency verifies the last
\* /api/ps): what it claims was true at some instant while it was in flight,
\* whatever else happened to the provider and whichever replies were lost.
ClaimsWitnessed ==
  \A r \in report :
    /\ r.code \in LoadClaims => TRUE \in r.seen
    /\ r.code \in ReleaseClaims => FALSE \in r.seen

\* No silent leak: weights a client's calls put on a worker are covered by a
\* managed lease, or the client is waiting for the very dispatch, or it was
\* told of the failure that put them in doubt (a failed or lost warm whose load
\* came later, a failed release, its own death, a model that vanished under the
\* script that had just seen it loaded) and no record has settled it since.
NothingLeftBehind ==
  \A c \in Client : \A p \in Held(loaded) :
    origin[p] = c => \/ lease[c][p] = "managed"
                     \/ flight[c].pair = p
                     \/ <<c, p>> \in unsettled

\* Under reject_conflicting_loaded_models a prepare that brings a cold model in
\* finds its worker empty and leaves the model alone on it (residency_admit),
\* unless the loaded models changed after the probe the verdict rests on.
ColdTargetAlone ==
  [][\A c \in Strict, w \in Worker :
       op[c] = "prepare" /\ ScriptWarm(c) /\ loaded'[w] # loaded[w]
         => \/ loaded[w] = {} /\ Cardinality(loaded'[w]) = 1
            \/ loaded[w] # snap[c][w].loaded]_vars

\* The available-memory check: a warm takes no resident model away unless the
\* resource facts it was admitted on promised more memory than there is now.
NoImplicitEviction ==
  [][\A c \in Client, w \in Worker :
       ScriptWarm(c) => \/ loaded[w] \subseteq loaded'[w]
                        \/ snap[c][w].free > Memory[w] - Stored(loaded[w])]_vars
==============================================================================
