--------------------------- MODULE FabricSession ---------------------------
(***************************************************************************)
(* FabricSession (src/src/mncs_harness/fabric.py): one object shared by    *)
(* every thread of the process that talks to Fabric.  How it comes to be   *)
(* available, the chats dispatched through it with the files each leaves   *)
(* in the local workers' bundle roots, the record and the failure metadata *)
(* its callers read back from it, the refresh of remote workers, and work  *)
(* detached from the process.  Fabric and its workers are external.        *)
(*                                                                         *)
(* Its callers run at the same time: the terminal interface starts a       *)
(* thread for each prompt and each inspection, and a thread it cancels     *)
(* goes on.                                                                *)
(***************************************************************************)
EXTENDS Integers

CONSTANTS
  Chat,       \* chats, each on the thread of the run that makes it
  Job,        \* detached submissions
  Remote,     \* the remote workers a refresh asks
  Configs,    \* the settings, and what is found under them
  MaxRetries, \* bound: how often a submission is repeated
  NoChat

Config == [enabled : BOOLEAN,
           mode : {"embedded", "transitional", "service"},  \* controller_mode
           startup : BOOLEAN,  \* refresh_on_startup
           probes : BOOLEAN,   \* runtime_probe_on_refresh
           roots : 0..2,       \* bundle roots of the local workers
           features : SUBSET {"fleet_read", "execution"},  \* advertised by the controller
           submits : BOOLEAN]  \* bound: detached work is submitted

ASSUME FabricAssumption ==
  /\ Configs \subseteq Config
  /\ MaxRetries \in Nat
  /\ Chat \cap Job = {}
  /\ NoChat \notin Chat \cup Job

VARIABLES
  config,
  state,          \* _state
  client,         \* client is not None
  connection,     \* _connection is not None
  transport,      \* _execution_transport
  cuda,           \* Fabric's runtime observation of its CUDA worker
  refreshing,     \* remote workers whose refresh has not come back
  refresher,      \* the thread that refreshes waits for them
  context,        \* whose _consumer_context is set
  lastRecord,     \* whose last_execution_record is kept
  root,           \* whose request.json lies in each bundle root
  chat,           \* [Chat -> how far the chat got]
  job,            \* [Job -> how far the submission got]
  effects,        \* [Chat \cup Job -> how often a worker carried it out]
  overlapped      \* history: chats made while another was under way

sessionVars == <<config, state, client, connection, transport>>
observationVars == <<cuda, refreshing, refresher>>
recordVars == <<context, lastRecord, overlapped>>
vars == <<sessionVars, observationVars, recordVars, root, chat, job, effects>>

Root == 1..2

ChatState == [phase : {"idle", "configured", "probing", "copying", "sent", "cleaning",
                       "returned", "done"},
              result : {"", "PASS", "failed", "rejected", "lost", "refused", "raised"},
              at : 0..2,        \* roots the current loop has been through
              late : BOOLEAN,   \* given up on while still on its way
             under : Chat \cup {NoChat}]  \* history: whose context it was sent with

JobState == [phase : {"idle", "sent", "taken", "done"},
             result : {"", "accepted", "lost", "refused"},
             tries : 0..MaxRetries,
             work : {"none", "queued", "PASS", "failed"},   \* at the controller
             told : {"none", "queued", "PASS", "failed"}]   \* the operator's last answer

IdleChat == [phase |-> "idle", result |-> "", at |-> 0, late |-> FALSE, under |-> NoChat]
IdleJob == [phase |-> "idle", result |-> "", tries |-> 0, work |-> "none", told |-> "none"]

SetChat(c, r) == chat' = [chat EXCEPT ![c] = r]
SetJob(j, r) == job' = [job EXCEPT ![j] = r]
Effect(c) == effects' = [effects EXCEPT ![c] = @ + 1]

UnderWay(c) == chat[c].phase \notin {"idle", "done"}

(***************************************************************************)
(* initialize.                                                             *)
(***************************************************************************)
\* What the probes of _ensure_cuda_runtime_observations come to: only a stale
\* observation is renewed, and a probe that cannot be carried out renews nothing.
\* What failed goes into _detail, whose wording is left out.
Probe == cuda' \in IF config.probes /\ cuda = "stale" THEN {"stale", "PASS", "FAIL"} ELSE {cuda}

\* Nothing opened: no package, no socket, or a contract without fleet reads.
OpenFails ==
  /\ client' = FALSE
  /\ connection' = FALSE
  /\ state' = "unavailable"
  /\ UNCHANGED <<transport, cuda>>

Transport == CASE config.mode = "embedded" -> "embedded-direct"
               [] config.mode = "transitional" -> "embedded-direct-compatibility"
               [] config.mode = "service" /\ "execution" \in config.features -> "persistent-service"
               [] OTHER -> "unsupported"

\* The connection was opened and then failed to answer: the client is dropped,
\* the connection stays until close.
OpenBreaks ==
  /\ config.mode # "embedded"
  /\ client' = FALSE
  /\ connection' = TRUE
  /\ state' = "unavailable"
  /\ transport' \in {"unsupported", Transport}
  /\ UNCHANGED cuda

\* The configured workers and the registry are registered, each or none of them;
\* a persistent controller is available whatever came of it.
Opens ==
  /\ client' = TRUE
  /\ connection' = TRUE
  /\ transport' = Transport
  /\ \E registered \in BOOLEAN :
       /\ state' = IF config.mode = "embedded" /\ ~registered THEN "unavailable" ELSE "available"
       /\ IF config.mode = "embedded" /\ registered /\ config.startup THEN Probe ELSE UNCHANGED cuda

Initialize ==
  /\ state = "initializing"
  /\ IF config.mode # "embedded" /\ "fleet_read" \notin config.features
       THEN OpenFails
       ELSE OpenFails \/ OpenBreaks \/ Opens
  /\ UNCHANGED <<config, refreshing, refresher, recordVars, root, chat, job, effects>>

(***************************************************************************)
(* refresh: every remote worker is asked on a thread of its own; after     *)
(* refresh_timeout_seconds the answers that are missing are reported and   *)
(* the threads left to themselves.  A controller of its own is asked once. *)
(***************************************************************************)
Refreshable == state = "available" /\ (config.mode # "service" \/ transport = "persistent-service")

AskWorkers ==
  /\ refresher = "idle"
  /\ refresher' = "waiting"
  /\ refreshing' = IF Refreshable /\ config.mode # "service" THEN Remote ELSE refreshing
  /\ UNCHANGED <<sessionVars, cuda, recordVars, root, chat, job, effects>>

WorkerAnswers(w) ==
  /\ w \in refreshing
  /\ refreshing' = refreshing \ {w}
  /\ UNCHANGED <<sessionVars, cuda, refresher, recordVars, root, chat, job, effects>>

\* Mutant: the futures are waited for without a limit.
CollectAllAnswers ==
  /\ refresher = "waiting"
  /\ refreshing = {}
  /\ refresher' = "idle"
  /\ IF Refreshable THEN Probe ELSE UNCHANGED cuda
  /\ UNCHANGED <<sessionVars, refreshing, recordVars, root, chat, job, effects>>

\* With the answers that are there, or when the time is up.
CollectAnswers ==
  /\ refresher = "waiting"
  /\ refresher' = "idle"
  /\ IF Refreshable THEN Probe ELSE UNCHANGED cuda
  /\ UNCHANGED <<sessionVars, refreshing, recordVars, root, chat, job, effects>>

(***************************************************************************)
(* chat.                                                                   *)
(***************************************************************************)
\* LocalAgent._configure_fabric_provenance, before each attempt.
Configure(c) ==
  /\ chat[c].phase = "idle"
  /\ context' = c
  /\ SetChat(c, [chat[c] EXCEPT !.phase = "configured"])
  /\ overlapped' = LET others == {d \in Chat : UnderWay(d)} IN
                   IF others = {} THEN overlapped ELSE overlapped \cup others \cup {c}
  /\ UNCHANGED <<sessionVars, observationVars, lastRecord, root, job, effects>>

Usable == client /\ state = "available" /\ transport # "unsupported"

\* Mutant: the record of the chat before is kept until there is another.
BeginKeepingRecord(c) ==
  /\ chat[c].phase = "configured"
  /\ IF Usable
       THEN SetChat(c, [chat[c] EXCEPT !.phase = "probing"])
       ELSE SetChat(c, [chat[c] EXCEPT !.phase = "returned", !.result = "refused"])
  /\ UNCHANGED <<sessionVars, observationVars, context, lastRecord, overlapped,
                 root, job, effects>>

\* Turned away, with the detail for a reason, or begun: what the chat before left
\* is forgotten.
Begin(c) ==
  /\ chat[c].phase = "configured"
  /\ IF Usable
       THEN /\ lastRecord' = NoChat
            /\ SetChat(c, [chat[c] EXCEPT !.phase = "probing"])
       ELSE /\ UNCHANGED lastRecord
            /\ SetChat(c, [chat[c] EXCEPT !.phase = "returned", !.result = "refused"])
  /\ UNCHANGED <<sessionVars, observationVars, context, overlapped,
                 root, job, effects>>

\* A chat for an accelerator has the CUDA worker observed first, and goes on
\* whatever comes of it.
Observe(c) ==
  /\ chat[c].phase = "probing"
  /\ SetChat(c, [chat[c] EXCEPT !.phase = "copying"])
  /\ Probe
  /\ UNCHANGED <<sessionVars, refreshing, refresher, recordVars, root, job, effects>>

\* invoke.py, which is always the same, and request.json go to each local root,
\* whosever files lie there.
Copy(c) ==
  /\ chat[c].phase = "copying"
  /\ chat[c].at < config.roots
  /\ root' = [root EXCEPT ![chat[c].at + 1] = c]
  /\ SetChat(c, [chat[c] EXCEPT !.at = @ + 1])
  /\ UNCHANGED <<sessionVars, observationVars, recordVars, job, effects>>

\* Before the try: the roots copied to keep their files, the one that failed may.
CopyFails(c) ==
  /\ chat[c].phase = "copying"
  /\ chat[c].at < config.roots
  /\ root' \in {root, [root EXCEPT ![chat[c].at + 1] = c]}
  /\ SetChat(c, [chat[c] EXCEPT !.phase = "returned", !.result = "raised"])
  /\ UNCHANGED <<sessionVars, observationVars, recordVars, job, effects>>

Execute(c) ==
  /\ chat[c].phase = "copying"
  /\ chat[c].at = config.roots
  /\ SetChat(c, [chat[c] EXCEPT !.phase = "sent", !.at = 0, !.under = context])
  /\ UNCHANGED <<sessionVars, observationVars, recordVars, root, job, effects>>

\* The bundle runs where Fabric placed it: on a remote worker from the archive, on
\* a local one from its root if that still holds what the manifest says.
RunModel(c) ==
  /\ chat[c].phase = "sent"
  /\ chat[c].result = ""
  /\ Effect(c)
  /\ \E result \in {"PASS", "failed"} : SetChat(c, [chat[c] EXCEPT !.result = result])
  /\ UNCHANGED <<sessionVars, observationVars, recordVars, root, job>>

\* Placement refuses, or a local root holds another chat's request.
Reject(c) ==
  /\ chat[c].phase = "sent"
  /\ chat[c].result = ""
  /\ SetChat(c, [chat[c] EXCEPT !.result = "rejected"])
  /\ UNCHANGED <<sessionVars, observationVars, recordVars, root, job, effects>>

\* execute returns, or raises although the worker may have run the bundle or be
\* about to.
ExecuteReturns(c) ==
  /\ chat[c].phase = "sent"
  /\ \/ chat[c].result # "" /\ SetChat(c, [chat[c] EXCEPT !.phase = "cleaning"])
     \/ SetChat(c, [chat[c] EXCEPT !.phase = "cleaning", !.result = "lost", !.late = chat[c].result = ""])
  /\ UNCHANGED <<sessionVars, observationVars, recordVars, root, job, effects>>

RunLate(c) ==
  /\ chat[c].late
  /\ Effect(c)
  /\ SetChat(c, [chat[c] EXCEPT !.late = FALSE])
  /\ UNCHANGED <<sessionVars, observationVars, recordVars, root, job>>

\* Mutant: a chat that failed leaves its files for inspection.
CleanIfPassed(c) ==
  /\ chat[c].phase = "cleaning"
  /\ chat[c].at < config.roots
  /\ root' = IF chat[c].result = "PASS" THEN [root EXCEPT ![chat[c].at + 1] = NoChat] ELSE root
  /\ SetChat(c, [chat[c] EXCEPT !.at = @ + 1])
  /\ UNCHANGED <<sessionVars, observationVars, recordVars, job, effects>>

\* The finally block: the two names go from each root, whoever wrote them.
Clean(c) ==
  /\ chat[c].phase = "cleaning"
  /\ chat[c].at < config.roots
  /\ root' = [root EXCEPT ![chat[c].at + 1] = NoChat]
  /\ SetChat(c, [chat[c] EXCEPT !.at = @ + 1])
  /\ UNCHANGED <<sessionVars, observationVars, recordVars, job, effects>>

\* The record of the result, empty if nothing was executed; an exception of
\* execute passes this by.
Collect(c) ==
  /\ chat[c].phase = "cleaning"
  /\ chat[c].at = config.roots
  /\ SetChat(c, [chat[c] EXCEPT !.phase = "returned"])
  /\ IF chat[c].result = "lost"
       THEN UNCHANGED lastRecord
       ELSE lastRecord' = IF chat[c].result = "rejected" THEN NoChat ELSE c
  /\ UNCHANGED <<sessionVars, observationVars, context, overlapped, root, job, effects>>

\* The run reads its record back, publishes it, and is over.
Publish(c) ==
  /\ chat[c].phase = "returned"
  /\ SetChat(c, [chat[c] EXCEPT !.phase = "done", !.at = 0, !.under = NoChat])
  /\ UNCHANGED <<sessionVars, observationVars, recordVars, root, job, effects>>

Thread(c) == \/ Begin(c)
             \/ Observe(c)
             \/ Copy(c)
             \/ CopyFails(c)
             \/ Execute(c)
             \/ RunModel(c)
             \/ Reject(c)
             \/ ExecuteReturns(c)
             \/ Clean(c)
             \/ Collect(c)
             \/ Publish(c)

(***************************************************************************)
(* submit_chat, work_status and work_result: elh submit and elh work, each *)
(* a process with a session of its own, which may find the controller or   *)
(* not.  A submission made again carries the same idempotency key.         *)
(***************************************************************************)
\* Mutant: the key is not handed on.
SubmitUnkeyed(j) ==
  /\ job[j].phase = "idle" \/ (job[j].result = "lost" /\ job[j].tries < MaxRetries)
  /\ SetJob(j, [job[j] EXCEPT !.phase = "sent", !.result = "", !.work = "none",
                              !.tries = IF job[j].phase = "idle" THEN @ ELSE @ + 1])
  /\ UNCHANGED <<sessionVars, observationVars, recordVars, root, chat, effects>>

\* Only a persistent controller takes detached work.
Submit(j) ==
  /\ job[j].phase = "idle" \/ (job[j].result = "lost" /\ job[j].tries < MaxRetries)
  /\ config.enabled /\ config.mode = "service" /\ "fleet_read" \in config.features
  /\ SetJob(j, [job[j] EXCEPT !.phase = "sent", !.result = "",
                              !.tries = IF job[j].phase = "idle" THEN @ ELSE @ + 1])
  /\ UNCHANGED <<sessionVars, observationVars, recordVars, root, chat, effects>>

\* A refusal says nothing of an earlier try.
SubmitRefused(j) ==
  /\ job[j].phase = "idle"
  /\ SetJob(j, [job[j] EXCEPT !.phase = "done", !.result = "refused"])
  /\ UNCHANGED <<sessionVars, observationVars, recordVars, root, chat, effects>>

\* The controller takes a key once, also when nobody waits for its answer, and
\* answers a repetition with the same work.
Take(j) ==
  /\ job[j].phase = "sent" \/ (job[j].result = "lost" /\ job[j].work = "none")
  /\ SetJob(j, [job[j] EXCEPT !.phase = IF @ = "sent" THEN "taken" ELSE @,
                              !.work = IF @ = "none" THEN "queued" ELSE @])
  /\ IF job[j].work = "none" THEN Effect(j) ELSE UNCHANGED effects
  /\ UNCHANGED <<sessionVars, observationVars, recordVars, root, chat>>

Submitted(j) ==
  /\ \/ job[j].phase = "taken" /\ SetJob(j, [job[j] EXCEPT !.phase = "done", !.result = "accepted"])
     \/ job[j].phase \in {"sent", "taken"} /\ SetJob(j, [job[j] EXCEPT !.phase = "done", !.result = "lost"])
  /\ UNCHANGED <<sessionVars, observationVars, recordVars, root, chat, effects>>

Work(j) ==
  /\ job[j].work = "queued"
  /\ \E outcome \in {"PASS", "failed"} : SetJob(j, [job[j] EXCEPT !.work = outcome])
  /\ UNCHANGED <<sessionVars, observationVars, recordVars, root, chat, effects>>

\* Only a submission that was answered has a work_id to ask with.
AskWork(j) ==
  /\ job[j].result = "accepted"
  /\ SetJob(j, [job[j] EXCEPT !.told = job[j].work])
  /\ UNCHANGED <<sessionVars, observationVars, recordVars, root, chat, effects>>

Detached(j) == \/ Submit(j)
               \/ SubmitRefused(j)
               \/ Take(j)
               \/ Submitted(j)
               \/ Work(j)
               \/ AskWork(j)

(***************************************************************************)
(* The specification.                                                      *)
(***************************************************************************)
Init ==
  /\ config \in Configs
  /\ state = IF config.enabled THEN "initializing" ELSE "disabled"
  /\ client = FALSE
  /\ connection = FALSE
  /\ transport = "unsupported"
  /\ cuda = "stale"
  /\ refreshing = {}
  /\ refresher = "idle"
  /\ context = NoChat
  /\ lastRecord = NoChat
  /\ root = [r \in Root |-> NoChat]
  /\ chat = [c \in Chat |-> IdleChat]
  /\ job = [j \in Job |-> IdleJob]
  /\ effects = [c \in Chat \cup Job |-> 0]
  /\ overlapped = {}

Next ==
  \/ Initialize
  \/ AskWorkers
  \/ CollectAnswers
  \/ \E w \in Remote : WorkerAnswers(w)
  \/ \E c \in Chat : Configure(c) \/ Thread(c) \/ RunLate(c)
  \/ /\ config.submits
     /\ \A c \in Chat : ~UnderWay(c)  \* of other processes, which share nothing with this one's
     /\ \E j \in Job : Detached(j)

Spec == Init /\ [][Next]_vars

\* Dispatch is bounded by Fabric's timeouts and the wait for a refresh by the
\* session's; nothing is assumed of a worker that is asked.
FairSpec == Spec /\ WF_vars(CollectAnswers) /\ \A c \in Chat : WF_vars(Thread(c))

(***************************************************************************)
(* Properties.                                                             *)
(***************************************************************************)
TypeOK ==
  /\ config \in Configs
  /\ state \in {"disabled", "initializing", "available", "unavailable"}
  /\ client \in BOOLEAN
  /\ connection \in BOOLEAN
  /\ transport \in {"unsupported", "embedded-direct", "embedded-direct-compatibility", "persistent-service"}
  /\ cuda \in {"stale", "PASS", "FAIL"}
  /\ refreshing \subseteq Remote
  /\ refresher \in {"idle", "waiting"}
  /\ {context, lastRecord} \subseteq Chat \cup {NoChat}
  /\ root \in [Root -> Chat \cup {NoChat}]
  /\ chat \in [Chat -> ChatState]
  /\ job \in [Job -> JobState]
  /\ effects \in [Chat \cup Job -> Nat]
  /\ overlapped \subseteq Chat

\* A request is left in a bundle root only while its chat is under way, or by one
\* whose copying failed: however the chats of a process overlap, and though each
\* removes the others' files with its own, the last to finish leaves nothing.
RootsAreCleared ==
  \A r \in Root : root[r] = NoChat \/ chat[root[r]].phase \in {"copying", "sent", "cleaning"}
                                   \/ chat[root[r]].result = "raised"

\* A run that had the session to itself ran under its own provenance, and the
\* record that it then publishes as evidence is its own or none: never what the
\* chat before left, even where dispatch raised and there is no record of it.
RecordIsOwn ==
  \A c \in Chat : c \notin overlapped /\ chat[c].phase = "returned" =>
    /\ chat[c].under \in {c, NoChat}
    /\ chat[c].result # "refused" => lastRecord \in {c, NoChat}

\* What is told of a call: a submission by its acceptance, a chat by its response;
\* refusals and failures before dispatch are told apart from those after it.
ChatAnswer(x) ==
  IF x.phase \notin {"returned", "done"} THEN "none"
  ELSE IF x.result = "PASS" THEN "ok"
  ELSE IF x.result \in {"refused", "raised"} THEN "refused" ELSE "error"

JobAnswer(x) ==
  IF x.phase # "done" THEN "none"
  ELSE IF x.result = "accepted" THEN "ok"
  ELSE IF x.result = "refused" THEN "refused" ELSE "error"

AnswerOf(c) == IF c \in Job THEN JobAnswer(job[c]) ELSE ChatAnswer(chat[c])

\* A chat that answers was executed once, one that is refused never, and one whose
\* dispatch was lost at most once, late or not; a submission repeated under its key
\* is executed once however often it is repeated.  Of a submission without a key,
\* which `submit` allows (cli.py:223), a repetition is another job.
Fabric == INSTANCE RemoteCall WITH Call <- Chat \cup Job,
                                   answer <- [c \in Chat \cup Job |-> AnswerOf(c)]
Contract == Fabric!Spec

\* A run comes to its end and a refresh returns, though the worker it asked may
\* never answer.
CallsReturn == /\ \A c \in Chat : UnderWay(c) ~> ~UnderWay(c)
               /\ refresher = "waiting" ~> refresher = "idle"
=============================================================================
