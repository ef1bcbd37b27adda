--------------------------- MODULE CommonsSession ---------------------------
(***************************************************************************)
(* CommonsSession (src/src/mncs_harness/commons.py) between its callers    *)
(* and the Commons it mediates: how a session comes to be ready, what it   *)
(* lets through, and what the caller is told when a call fails half way.   *)
(* The callers are the model's Commons tools (ToolRegistry in tools.py),   *)
(* the agent's evidence publication (agent.py) and the operator's facade   *)
(* (commons_operator.py); the terminal interface runs them on threads of   *)
(* its own against one session.                                            *)
(*                                                                         *)
(* A tool is one of four kinds: "read" stands for CONSUMER_READ_TOOLS,     *)
(* "publish" for MODEL_PUBLICATION_TOOLS, "admin" for OPERATOR_ADMIN_TOOLS *)
(* and "alien" for any name the harness does not know.                     *)
(***************************************************************************)
EXTENDS Integers

CONSTANTS
  Call,       \* the calls made on the session
  Configs,    \* the settings the session may be started with
  Servers,    \* what may be found at the other end
  MaxChanges  \* bound: how often that may change

Config == [enabled : BOOLEAN,
           mode : {"service", "stdio"},   \* commons.controller_mode
           init : BOOLEAN,        \* commons.auto_initialize
           allow : BOOLEAN,       \* commons.allow_model_publication
           evidence : BOOLEAN]    \* commons.publish_fabric_evidence

Server == [up : BOOLEAN,       \* the consumer side answers
           operator : BOOLEAN, \* the operator socket answers
           speaks : {"commons", "protocol", "descriptor"},  \* what of it is wrong, if any
           store : {"missing", "valid", "invalid"},
           consumerTools : SUBSET {"read", "alien"},
           operatorTools : SUBSET {"publish", "admin", "alien"}]

ASSUME CommonsAssumption ==
  /\ Configs \subseteq Config
  /\ Servers \subseteq Server
  /\ MaxChanges \in Nat

VARIABLES
  config,
  server,   \* what answers now
  changes,  \* how often it changed
  status,   \* _status: what the last initialize found
  schemas,  \* _schemas: the tools accepted then
  admin,    \* _admin_client is connected
  call,     \* [Call -> the request and how far it got]
  effects   \* [Call -> how often Commons carried it out]

vars == <<config, server, changes, status, schemas, admin, call, effects>>

Kind == {"read", "write", "evidence", "operator"}

StatusCode == {"COMMONS_DISABLED", "COMMONS_INITIALIZING", "COMMONS_READY", "COMMONS_STORE_MISSING",
               "COMMONS_STORE_INVALID", "COMMONS_PROTOCOL_MISMATCH", "COMMONS_TOOLSET_MISMATCH",
               "COMMONS_SERVICE_UNREACHABLE", "COMMONS_MCP_UNAVAILABLE"}
\* Codes that say the request was turned away before anything was sent.
RefusalCode == {"NOT_READY", "COMMONS_UNKNOWN_TOOL", "COMMONS_TOOL_DENIED",
                "COMMONS_INVALID_ARGUMENTS", "COMMONS_EVIDENCE_PUBLICATION_DISABLED",
                "COMMONS_FABRIC_TRANSLATION_INVALID"}
FailureCode == {"COMMONS_MCP_TIMEOUT", "COMMONS_MCP_UNAVAILABLE",
                "COMMONS_SERVICE_RESPONSE_OVERSIZED", "COMMONS_PROTOCOL_MISMATCH",
                "COMMONS_EVIDENCE_PUBLICATION_FAILED",
                "tool-error",  \* an answer that says the tool failed
                "raised"}      \* an exception that is no CommonsError

Request == [kind : Kind, approved : BOOLEAN, wellFormed : BOOLEAN,
            phase : {"idle", "admitted", "sent", "performed", "done"},
            code : {"", "ok"} \cup RefusalCode \cup FailureCode,
            late : BOOLEAN,      \* given up on while still on its way
            verified : BOOLEAN]  \* what performed it was compatible

Idle == [kind |-> "read", approved |-> FALSE, wellFormed |-> FALSE, phase |-> "idle",
         code |-> "", late |-> FALSE, verified |-> FALSE]

(***************************************************************************)
(* initialize.                                                             *)
(***************************************************************************)
\* _model_facing_schemas: operator-admin tools are dropped; the operator's tools
\* are only looked at when they may be shown, except over stdio, which lists all.
Projected(s) ==
  (s.consumerTools \cup IF config.mode = "stdio" \/ config.allow THEN s.operatorTools ELSE {})
    \ {"admin"}

ToolsetAccepted(s) == "read" \in Projected(s) /\ "alien" \notin Projected(s)

\* What initialize looks for, in its order, and the code it reports.
Checks(s) ==
  IF config.mode = "service"
    THEN <<[fails |-> ~s.up, code |-> "COMMONS_SERVICE_UNREACHABLE"],
           [fails |-> s.speaks = "protocol", code |-> "COMMONS_PROTOCOL_MISMATCH"],
           [fails |-> ~ToolsetAccepted(s), code |-> "COMMONS_TOOLSET_MISMATCH"],
           [fails |-> config.allow /\ ~s.operator, code |-> "COMMONS_SERVICE_UNREACHABLE"],
           [fails |-> s.speaks = "descriptor", code |-> "COMMONS_PROTOCOL_MISMATCH"],
           [fails |-> s.store # "valid", code |-> "COMMONS_STORE_INVALID"]>>
    ELSE <<[fails |-> s.store = "missing" /\ ~config.init, code |-> "COMMONS_STORE_MISSING"],
           [fails |-> s.store = "invalid", code |-> "COMMONS_STORE_INVALID"],
           [fails |-> ~s.up, code |-> "COMMONS_MCP_UNAVAILABLE"],
           [fails |-> s.speaks = "protocol", code |-> "COMMONS_PROTOCOL_MISMATCH"],
           [fails |-> ~ToolsetAccepted(s), code |-> "COMMONS_TOOLSET_MISMATCH"],
           [fails |-> s.speaks = "descriptor", code |-> "COMMONS_PROTOCOL_MISMATCH"]>>

PassesUpTo(s, n) == \A i \in 1..n : ~Checks(s)[i].fails

Found(s) ==
  IF PassesUpTo(s, 6) THEN "COMMONS_READY"
  ELSE Checks(s)[CHOOSE i \in 1..6 : Checks(s)[i].fails /\ PassesUpTo(s, i - 1)].code

\* A service's schemas are accepted before its store's health is looked at.
Initialize ==
  /\ status = "COMMONS_INITIALIZING"
  /\ status' = Found(server)
  /\ schemas' = IF PassesUpTo(server, IF config.mode = "service" THEN 5 ELSE 6)
                  THEN Projected(server) ELSE {}
  /\ admin' = (config.mode = "service" /\ config.allow /\ PassesUpTo(server, 4))
  /\ server' = IF config.mode = "stdio" /\ server.store = "missing" /\ config.init
                 THEN [server EXCEPT !.store = "valid"] ELSE server
  /\ UNCHANGED <<config, changes, call, effects>>

ready == status = "COMMONS_READY"

(***************************************************************************)
(* What is turned away before anything is sent: ToolRegistry.execute and   *)
(* _commons_call, then call; publish_fabric_evidence; operator_publish.    *)
(***************************************************************************)
Set(c, r) == call' = [call EXCEPT ![c] = r]
Answered(c, code) == Set(c, [call[c] EXCEPT !.phase = "done", !.code = code])

\* Mutant: a publication the controller's policy forbids only needs approval.
WriteRefusalsUngated(r) ==
  <<[fails |-> ~ready \/ "publish" \notin schemas, code |-> "COMMONS_UNKNOWN_TOOL"],
    [fails |-> ~r.approved, code |-> "COMMONS_TOOL_DENIED"],
    [fails |-> ~r.wellFormed, code |-> "COMMONS_INVALID_ARGUMENTS"]>>

WriteRefusals(r) ==
  <<[fails |-> ~ready \/ "publish" \notin schemas, code |-> "COMMONS_UNKNOWN_TOOL"],
    [fails |-> ~config.allow \/ ~r.approved, code |-> "COMMONS_TOOL_DENIED"],
    [fails |-> ~r.wellFormed, code |-> "COMMONS_INVALID_ARGUMENTS"]>>

ReadRefusals(r) ==
  <<[fails |-> ~ready, code |-> "NOT_READY"],
    [fails |-> "read" \notin schemas, code |-> "COMMONS_UNKNOWN_TOOL"],
    [fails |-> ~r.wellFormed, code |-> "COMMONS_INVALID_ARGUMENTS"]>>

EvidenceRefusals(r) ==
  <<[fails |-> ~ready, code |-> "NOT_READY"],
    [fails |-> ~config.evidence, code |-> "COMMONS_EVIDENCE_PUBLICATION_DISABLED"],
    [fails |-> ~r.wellFormed, code |-> "COMMONS_FABRIC_TRANSLATION_INVALID"]>>

\* Outside service mode the operator has no socket to publish through.
OperatorRefusals(r) ==
  <<[fails |-> ~ready, code |-> "NOT_READY"],
    [fails |-> ~r.wellFormed, code |-> "COMMONS_INVALID_ARGUMENTS"],
    [fails |-> config.mode # "service", code |-> "COMMONS_TOOL_DENIED"]>>

Refusals(r) == CASE r.kind = "write" -> WriteRefusals(r)
                 [] r.kind = "read" -> ReadRefusals(r)
                 [] r.kind = "evidence" -> EvidenceRefusals(r)
                 [] r.kind = "operator" -> OperatorRefusals(r)

Ask(c, r) ==
  /\ call[c].phase = "idle"
  /\ status # "COMMONS_INITIALIZING"
  /\ r.approved => r.kind = "write"
  /\ Set(c, IF \E i \in 1..3 : Refusals(r)[i].fails
              THEN [r EXCEPT !.phase = "done",
                             !.code = Refusals(r)[CHOOSE i \in 1..3 :
                                                    /\ Refusals(r)[i].fails
                                                    /\ \A j \in 1..(i-1) : ~Refusals(r)[j].fails].code]
              ELSE [r EXCEPT !.phase = "admitted"])
  /\ UNCHANGED <<config, server, changes, status, schemas, admin, effects>>

(***************************************************************************)
(* What was let through: _service_exchange and the _admin_* operations,    *)
(* _native_exchange, and the publication of evidence.                      *)
(***************************************************************************)
\* An exception of the transport, as each caller sees it: call wraps it, the
\* evidence path renames it, the operator's publication lets it through.
Failures(r) == CASE r.kind = "evidence" -> {"COMMONS_EVIDENCE_PUBLICATION_FAILED"}
                 [] r.kind = "operator" -> {"raised"}
                 [] OTHER -> {"COMMONS_MCP_TIMEOUT", "COMMONS_MCP_UNAVAILABLE"}

NeedsAdmin(r) == config.mode = "service" /\ r.kind # "read"

\* _ensure_admin_client connects on first use; over stdio every call starts a
\* server process of its own.
Connect(c) ==
  /\ call[c].phase = "admitted"
  /\ NeedsAdmin(call[c]) => admin \/ server.operator
  /\ admin' = (admin \/ NeedsAdmin(call[c]))
  /\ Set(c, [call[c] EXCEPT !.phase = "sent"])
  /\ UNCHANGED <<config, server, changes, status, schemas, effects>>

ConnectFails(c) ==
  /\ call[c].phase = "admitted"
  /\ \E code \in Failures(call[c]) : Answered(c, code)
  /\ UNCHANGED <<config, server, changes, status, schemas, admin, effects>>

Reachable(c) ==
  CASE config.mode = "stdio" /\ call[c].kind = "evidence" -> server.store = "valid"
    [] NeedsAdmin(call[c]) -> server.operator
    [] OTHER -> server.up

Effect(c) == effects' = [effects EXCEPT ![c] = IF call[c].kind = "read" THEN @ ELSE @ + 1]

Compatible(s) == s.speaks = "commons" /\ ToolsetAccepted(s)

Perform(c) ==
  /\ call[c].phase = "sent"
  /\ Reachable(c)
  /\ Effect(c)
  /\ Set(c, [call[c] EXCEPT !.phase = "performed", !.verified = Compatible(server)])
  /\ UNCHANGED <<config, server, changes, status, schemas, admin>>

\* The other side turns the request down: an error result over stdio, an
\* exception of the client otherwise.
TurnedDown(c) ==
  /\ call[c].phase = "sent"
  /\ Reachable(c)
  /\ \E code \in Failures(call[c]) \cup (IF config.mode = "stdio" THEN {"tool-error"} ELSE {}) :
       Answered(c, code)
  /\ UNCHANGED <<config, server, changes, status, schemas, admin, effects>>

\* Mutant: a call that timed out is sent again.
GiveUpRetrying(c) ==
  /\ call[c].phase \in {"sent", "performed"}
  /\ Set(c, [call[c] EXCEPT !.phase = "sent"])
  /\ UNCHANGED <<config, server, changes, status, schemas, admin, effects>>

\* Mutant: only the wait for the answer is bounded.
GiveUpAnswered(c) ==
  /\ call[c].phase = "performed"
  /\ \E code \in Failures(call[c]) : Answered(c, code)
  /\ UNCHANGED <<config, server, changes, status, schemas, admin, effects>>

\* The answer does not come in time.  A service may still take the request from
\* its socket; the process of a stdio call is gone.
GiveUp(c) ==
  /\ call[c].phase \in {"sent", "performed"}
  /\ \E code \in Failures(call[c]) :
       Set(c, [call[c] EXCEPT !.phase = "done", !.code = code,
                              !.late = call[c].phase = "sent" /\ config.mode = "service"])
  /\ UNCHANGED <<config, server, changes, status, schemas, admin, effects>>

PerformLate(c) ==
  /\ call[c].phase = "done"
  /\ call[c].late
  /\ Reachable(c)
  /\ Effect(c)
  /\ Set(c, [call[c] EXCEPT !.late = FALSE])
  /\ UNCHANGED <<config, server, changes, status, schemas, admin>>

\* The answer is too long, or no JSON object: seen when the work is done.  Over
\* stdio _native_exchange takes its own error for one of the transport.  Evidence
\* and the operator's publications are not looked at.
Unusable(c) ==
  /\ call[c].phase = "performed"
  /\ call[c].kind \in {"read", "write"}
  /\ \E code \in IF config.mode = "stdio" THEN {"COMMONS_MCP_UNAVAILABLE"}
                  ELSE {"COMMONS_SERVICE_RESPONSE_OVERSIZED", "COMMONS_PROTOCOL_MISMATCH"} :
       Answered(c, code)
  /\ UNCHANGED <<config, server, changes, status, schemas, admin, effects>>

\* _validate_exchange: a stdio exchange carries its own process's identity and
\* descriptor, a service exchange the ones kept from initialize.
Validated(r) ==
  \/ config.mode = "service"
  \/ r.kind = "evidence"
  \/ r.verified

Return(c) ==
  /\ call[c].phase = "performed"
  /\ Answered(c, IF Validated(call[c]) THEN "ok" ELSE "COMMONS_PROTOCOL_MISMATCH")
  /\ UNCHANGED <<config, server, changes, status, schemas, admin, effects>>

\* The Commons node restarts, is upgraded, loses its store, or goes away.
ServerChanges ==
  /\ changes < MaxChanges
  /\ changes' = changes + 1
  /\ server' \in Servers
  /\ UNCHANGED <<config, status, schemas, admin, call, effects>>

(***************************************************************************)
(* The specification.                                                      *)
(***************************************************************************)
Init ==
  /\ config \in Configs
  /\ server \in Servers
  /\ changes = 0
  /\ status = IF config.enabled THEN "COMMONS_INITIALIZING" ELSE "COMMONS_DISABLED"
  /\ schemas = {}
  /\ admin = FALSE
  /\ call = [c \in Call |-> Idle]
  /\ effects = [c \in Call |-> 0]

Asked == [kind : Kind, approved : BOOLEAN, wellFormed : BOOLEAN, phase : {"idle"},
          code : {""}, late : {FALSE}, verified : {FALSE}]

Handle(c) == \/ Connect(c)
             \/ ConnectFails(c)
             \/ Perform(c)
             \/ TurnedDown(c)
             \/ GiveUp(c)
             \/ Unusable(c)
             \/ Return(c)

Next ==
  \/ Initialize
  \/ \E c \in Call : \/ \E r \in Asked : Ask(c, r)
                     \/ Handle(c)
                     \/ PerformLate(c)
  \/ ServerChanges

Spec == Init /\ [][Next]_vars

\* Every wait of a call is bounded (call_timeout_seconds, startup_timeout_seconds).
FairSpec == Spec /\ \A c \in Call : WF_vars(Handle(c))

(***************************************************************************)
(* Properties.                                                             *)
(***************************************************************************)
TypeOK ==
  /\ config \in Configs
  /\ server \in Server
  /\ changes \in 0..MaxChanges
  /\ status \in StatusCode
  /\ schemas \subseteq {"read", "publish"}
  /\ admin \in BOOLEAN
  /\ call \in [Call -> Request]
  /\ effects \in [Call -> Nat]

\* Commons changes only for what its policy allows: a model's publication needs
\* the controller's permission and an approval, evidence its own setting, the
\* operator the operator socket, and all of them a session that found Commons
\* healthy; reading changes nothing.  It holds of requests carried out late, too.
EffectsAuthorized ==
  \A c \in Call : effects[c] > 0 =>
    /\ ready
    /\ CASE call[c].kind = "write" -> config.allow /\ call[c].approved
         [] call[c].kind = "evidence" -> config.evidence
         [] call[c].kind = "operator" -> config.mode = "service"
         [] OTHER -> FALSE

\* What the caller may conclude: the code of a refused call promises that nothing
\* was or will be published, success that it was published once; any other code
\* leaves it open, the oversized answer and the lost one included.
AnswerOf(c) ==
  IF call[c].kind = "read" \/ call[c].phase # "done" THEN "none"
  ELSE IF call[c].code = "ok" THEN "ok"
  ELSE IF call[c].code \in RefusalCode THEN "refused" ELSE "error"

Remote == INSTANCE RemoteCall WITH answer <- [c \in Call |-> AnswerOf(c)]
Contract == Remote!Spec

\* Every call is answered, whatever becomes of Commons meanwhile.
CallsAnswered == \A c \in Call : call[c].phase # "idle" ~> call[c].phase = "done"
=============================================================================
