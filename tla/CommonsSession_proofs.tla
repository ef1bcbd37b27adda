----------------------- MODULE CommonsSession_proofs -----------------------
(***************************************************************************)
(* Commons changes only for what its policy allows, and what a caller is   *)
(* told of a call is what RemoteCall promises: for every number of calls,  *)
(* every setting and every Commons there may be, changing at any time.     *)
(***************************************************************************)
EXTENDS CommonsSession, TLAPS

Allowed(r) ==
  /\ ready
  /\ r.kind = "write" => config.allow /\ r.approved
  /\ r.kind = "evidence" => config.evidence
  /\ r.kind = "operator" => config.mode = "service"

\* How far a call got, against how often it was carried out: what was admitted
\* was authorized then, and stays so, for a ready session stays ready and its
\* settings stay.
Sound(r, n) ==
  /\ r \in Request
  /\ n \in {0, 1}
  /\ r.kind = "read" => n = 0
  /\ r.phase \in {"idle", "admitted", "sent"} => n = 0
  /\ r.phase = "performed" /\ r.kind # "read" => n = 1
  /\ r.phase # "done" => ~r.late /\ r.code = ""
  /\ r.code = "ok" => Validated(r)
  /\ r.late => n = 0 /\ r.code \notin RefusalCode \cup {"ok"}
  /\ r.phase = "done" /\ r.code = "ok" /\ r.kind # "read" => n = 1
  /\ r.phase = "done" /\ r.code \in RefusalCode => n = 0
  /\ r.phase \in {"admitted", "sent", "performed"} \/ r.late \/ n = 1 => r.kind = "read" \/ Allowed(r)

IInv ==
  /\ call \in [Call -> Request]
  /\ effects \in [Call -> {0, 1}]
  /\ \A c \in Call : Sound(call[c], effects[c])

\* What a caller is told, of a request alone.
Told(r) ==
  IF r.kind = "read" \/ r.phase # "done" THEN "none"
  ELSE IF r.code = "ok" THEN "ok"
  ELSE IF r.code \in RefusalCode THEN "refused" ELSE "error"

\* A step of a call as RemoteCall sees it.
Stutters(r, n, r2, n2) == Told(r2) = Told(r) /\ n2 = n
Performs(r, n, r2, n2) == Told(r) \in {"none", "error"} /\ n = 0 /\ n2 = 1 /\ Told(r2) = Told(r)
Tells(r, n, r2, n2) == /\ Told(r) = "none"
                       /\ n2 = n
                       /\ \/ Told(r2) = "ok" /\ n = 1
                          \/ Told(r2) = "refused" /\ n = 0
                          \/ Told(r2) = "error"
Maps(r, n, r2, n2) == Stutters(r, n, r2, n2) \/ Performs(r, n, r2, n2) \/ Tells(r, n, r2, n2)

\* A step that moves one call.
Moves(c, r2, n2) ==
  /\ call' = [call EXCEPT ![c] = r2]
  /\ effects' = [effects EXCEPT ![c] = n2]
  /\ UNCHANGED <<config, status>>
  /\ Sound(r2, n2)
  /\ Maps(call[c], effects[c], r2, n2)

Keeps == IInv' /\ (Remote!Next \/ UNCHANGED Remote!vars)

LEMMA AnswerIsTold == \A c \in Call : AnswerOf(c) = Told(call[c])
BY DEF AnswerOf, Told

\* A session that is ready stays ready, and its settings stay.
LEMMA AllowedStays ==
  ASSUME NEW r, Allowed(r), config' = config, ready => status' = status
  PROVE  Allowed(r)'
BY DEF Allowed, ready

LEMMA SoundStays ==
  ASSUME NEW r, NEW n, Sound(r, n), config' = config, ready => status' = status
  PROVE  Sound(r, n)'
<1>1. Allowed(r) => Allowed(r)'
  BY AllowedStays
<1>2. Validated(r) => Validated(r)'
  BY DEF Validated
<1> QED BY <1>1, <1>2 DEF Sound

\* What moves one call as RemoteCall allows is a step of RemoteCall.
LEMMA MoveKeeps ==
  ASSUME IInv, NEW c \in Call, NEW r2, NEW n2, Moves(c, r2, n2)
  PROVE  Keeps
<1>1. r2 \in Request /\ n2 \in {0, 1}
  BY DEF Moves, Sound
<1>2. /\ call' \in [Call -> Request]
      /\ effects' \in [Call -> {0, 1}]
      /\ call'[c] = r2 /\ effects'[c] = n2
      /\ \A d \in Call \ {c} : call'[d] = call[d] /\ effects'[d] = effects[d]
  BY <1>1 DEF Moves, IInv
<1>3. \A d \in Call : Sound(call'[d], effects'[d])
  BY <1>2 DEF Moves, IInv
<1>4. \A r, n : Sound(r, n) => Sound(r, n)'
  BY SoundStays DEF Moves
<1>5. IInv'
  BY <1>2, <1>3, <1>4 DEF IInv
<1> DEFINE old == [d \in Call |-> AnswerOf(d)]
           new == [d \in Call |-> AnswerOf(d)']
<1>6. old \in [Call -> {"none", "ok", "refused", "error"}]
  BY DEF AnswerOf
<1>7. new = [old EXCEPT ![c] = Told(r2)] /\ old[c] = Told(call[c])
  BY <1>2 DEF AnswerOf, Told
<1>8. effects' = [effects EXCEPT ![c] = n2] /\ effects \in [Call -> {0, 1}]
  BY DEF Moves, IInv
<1>9. CASE Stutters(call[c], effects[c], r2, n2)
  <2>1. new = old
    BY <1>6, <1>7, <1>9 DEF Stutters
  <2>2. effects' = effects
    BY <1>8, <1>9 DEF Stutters
  <2> QED BY <1>5, <2>1, <2>2 DEF Keeps, Remote!vars
<1>10. CASE Performs(call[c], effects[c], r2, n2)
  <2>1. new = old
    BY <1>6, <1>7, <1>10 DEF Performs
  <2>2. old[c] \in {"none", "error"} /\ effects[c] = 0 /\ effects' = [effects EXCEPT ![c] = 1]
    BY <1>7, <1>8, <1>10 DEF Performs
  <2>3. Remote!Perform(c)
    BY <2>1, <2>2 DEF Remote!Perform
  <2> QED BY <1>5, <2>3 DEF Keeps, Remote!Next
<1>11. CASE Tells(call[c], effects[c], r2, n2)
  <2>1. effects' = effects
    BY <1>8, <1>11 DEF Tells
  <2>2. old[c] = "none" /\ new = [old EXCEPT ![c] = Told(r2)]
    BY <1>7, <1>11 DEF Tells
  <2>3. Remote!Tell(c, Told(r2))
    BY <2>1, <2>2 DEF Remote!Tell
  <2>4. Remote!Succeed(c) \/ Remote!Refuse(c) \/ Remote!Fail(c)
    BY <1>11, <2>3 DEF Tells, Remote!Succeed, Remote!Refuse, Remote!Fail
  <2> QED BY <1>5, <2>4 DEF Keeps, Remote!Next
<1> QED BY <1>9, <1>10, <1>11 DEF Moves, Maps

\* What moves no call is a stutter of RemoteCall.
LEMMA RestKeeps ==
  ASSUME IInv, UNCHANGED <<config, call, effects>>, ready => status' = status
  PROVE  Keeps
<1>1. IInv'
  BY SoundStays DEF IInv
<1>2. UNCHANGED Remote!vars
  BY DEF Remote!vars, AnswerOf
<1> QED BY <1>1, <1>2 DEF Keeps

\* A call that is answered with a failure: it leaves open what became of it.
LEMMA FailureMoves ==
  ASSUME IInv, NEW c \in Call, NEW code \in FailureCode, NEW late \in BOOLEAN,
         call[c].phase \in {"admitted", "sent", "performed"},
         late => call[c].phase = "sent",
         call' = [call EXCEPT ![c] = [call[c] EXCEPT !.phase = "done", !.code = code, !.late = late]],
         UNCHANGED <<config, status, effects>>
  PROVE  Keeps
<1> DEFINE r == call[c]
           r2 == [r EXCEPT !.phase = "done", !.code = code, !.late = late]
<1>1. r \in Request /\ Sound(r, effects[c])
  BY DEF IInv
<1>2. /\ r2 \in Request
      /\ r2.phase = "done" /\ r2.code = code /\ r2.late = late
      /\ r2.kind = r.kind /\ r2.approved = r.approved
  BY <1>1 DEF Request
<1>3. code \notin RefusalCode \cup {"ok"}
  BY DEF FailureCode, RefusalCode
<1>4. Allowed(r) => Allowed(r2)
  BY <1>2 DEF Allowed
<1>5. Sound(r2, effects[c])
  BY <1>1, <1>2, <1>3, <1>4 DEF Sound
<1>6. Maps(r, effects[c], r2, effects[c])
  BY <1>1, <1>2, <1>3 DEF Maps, Stutters, Tells, Told
<1>7. effects' = [effects EXCEPT ![c] = effects[c]]
  BY DEF IInv
<1>8. Moves(c, r2, effects[c])
  BY <1>5, <1>6, <1>7 DEF Moves
<1> QED BY <1>8, MoveKeeps

\* The same, given up on nowhere.
LEMMA AnsweredKeeps ==
  ASSUME IInv, NEW c \in Call, NEW code \in FailureCode,
         call[c].phase \in {"admitted", "sent", "performed"},
         Answered(c, code), UNCHANGED <<config, status, effects>>
  PROVE  Keeps
<1>1. call[c] \in Request /\ call[c].late = FALSE
  BY DEF IInv, Sound, Request
<1>2. [call[c] EXCEPT !.phase = "done", !.code = code]
        = [call[c] EXCEPT !.phase = "done", !.code = code, !.late = FALSE]
  BY <1>1 DEF Request
<1> QED BY <1>2, FailureMoves DEF Answered, Set

LEMMA FailuresAreFailures == \A r \in Request : Failures(r) \subseteq FailureCode
BY DEF Failures, FailureCode

LEMMA ConnectKeeps ==
  ASSUME IInv, NEW c \in Call, Connect(c)
  PROVE  Keeps
<1> DEFINE r == call[c]
           r2 == [r EXCEPT !.phase = "sent"]
<1>1. r \in Request /\ Sound(r, effects[c]) /\ r.phase = "admitted"
  BY DEF IInv, Connect
<1>2. /\ r2 \in Request
      /\ r2.phase = "sent" /\ r2.late = r.late /\ r2.code = r.code
      /\ r2.kind = r.kind /\ r2.approved = r.approved
  BY <1>1 DEF Request
<1>3. Allowed(r) => Allowed(r2)
  BY <1>2 DEF Allowed
<1>4. Sound(r2, effects[c])
  BY <1>1, <1>2, <1>3 DEF Sound
<1>5. Maps(r, effects[c], r2, effects[c])
  BY <1>1, <1>2 DEF Maps, Stutters, Told
<1>6. effects' = [effects EXCEPT ![c] = effects[c]]
  BY DEF IInv, Connect
<1>7. Moves(c, r2, effects[c])
  BY <1>4, <1>5, <1>6 DEF Moves, Connect, Set
<1> QED BY <1>7, MoveKeeps

\* Reading has no effect, everything else has one.
LEMMA EffectCounts ==
  ASSUME IInv, NEW c \in Call, Effect(c), effects[c] = 0
  PROVE  effects' = [effects EXCEPT ![c] = IF call[c].kind = "read" THEN 0 ELSE 1]
BY DEF IInv, Effect

LEMMA PerformKeeps ==
  ASSUME IInv, NEW c \in Call, Perform(c)
  PROVE  Keeps
<1> DEFINE r == call[c]
           r2 == [r EXCEPT !.phase = "performed", !.verified = Compatible(server)]
           n2 == IF r.kind = "read" THEN 0 ELSE 1
<1>1. r \in Request /\ Sound(r, effects[c]) /\ r.phase = "sent" /\ effects[c] = 0
  BY DEF IInv, Perform, Sound
<1>2. Compatible(server) \in BOOLEAN
  BY DEF Compatible
<1>3. /\ r2 \in Request
      /\ r2.phase = "performed" /\ r2.late = r.late /\ r2.code = r.code
      /\ r2.kind = r.kind /\ r2.approved = r.approved
  BY <1>1, <1>2 DEF Request
<1>4. Allowed(r) => Allowed(r2)
  BY <1>3 DEF Allowed
<1>5. Sound(r2, n2)
  BY <1>1, <1>3, <1>4 DEF Sound
<1>6. Maps(r, effects[c], r2, n2)
  BY <1>1, <1>3 DEF Maps, Stutters, Performs, Told
<1>7. effects' = [effects EXCEPT ![c] = n2]
  BY <1>1, EffectCounts DEF Perform
<1>8. Moves(c, r2, n2)
  BY <1>5, <1>6, <1>7 DEF Moves, Perform, Set
<1> QED BY <1>8, MoveKeeps

LEMMA PerformLateKeeps ==
  ASSUME IInv, NEW c \in Call, PerformLate(c)
  PROVE  Keeps
<1> DEFINE r == call[c]
           r2 == [r EXCEPT !.late = FALSE]
           n2 == IF r.kind = "read" THEN 0 ELSE 1
<1>1. r \in Request /\ Sound(r, effects[c]) /\ r.phase = "done" /\ r.late /\ effects[c] = 0
  BY DEF IInv, PerformLate, Sound
<1>2. /\ r2 \in Request
      /\ r2.phase = "done" /\ r2.late = FALSE /\ r2.code = r.code
      /\ r2.kind = r.kind /\ r2.approved = r.approved
  BY <1>1 DEF Request
<1>3. Allowed(r) => Allowed(r2)
  BY <1>2 DEF Allowed
<1>4. Sound(r2, n2)
  BY <1>1, <1>2, <1>3 DEF Sound
<1>5. Maps(r, effects[c], r2, n2)
  BY <1>1, <1>2 DEF Maps, Stutters, Performs, Told, Sound
<1>6. effects' = [effects EXCEPT ![c] = n2]
  BY <1>1, EffectCounts DEF PerformLate
<1>7. Moves(c, r2, n2)
  BY <1>4, <1>5, <1>6 DEF Moves, PerformLate, Set
<1> QED BY <1>7, MoveKeeps

\* An answer that counts as a success was performed.
LEMMA ReturnKeeps ==
  ASSUME IInv, NEW c \in Call, Return(c)
  PROVE  Keeps
<1>1. CASE ~Validated(call[c])
  <2>1. Answered(c, "COMMONS_PROTOCOL_MISMATCH")
    BY <1>1 DEF Return
  <2>2. "COMMONS_PROTOCOL_MISMATCH" \in FailureCode
    BY DEF FailureCode
  <2> QED BY <2>1, <2>2, AnsweredKeeps DEF Return
<1>2. CASE Validated(call[c])
  <2> DEFINE r == call[c]
             r2 == [r EXCEPT !.phase = "done", !.code = "ok"]
  <2>1. r \in Request /\ Sound(r, effects[c]) /\ r.phase = "performed"
    BY DEF IInv, Return
  <2>2. /\ r2 \in Request
        /\ r2.phase = "done" /\ r2.late = r.late /\ r2.code = "ok"
        /\ r2.kind = r.kind /\ r2.approved = r.approved /\ r2.verified = r.verified
    BY <2>1 DEF Request
  <2>3. (Allowed(r) => Allowed(r2)) /\ Validated(r2)
    BY <1>2, <2>2 DEF Allowed, Validated
  <2>4. "ok" \notin RefusalCode
    BY DEF RefusalCode
  <2>5. Sound(r2, effects[c])
    BY <2>1, <2>2, <2>3, <2>4 DEF Sound
  <2>6. Maps(r, effects[c], r2, effects[c])
    BY <2>1, <2>2, <2>4 DEF Maps, Stutters, Tells, Told, Sound
  <2>7. effects' = [effects EXCEPT ![c] = effects[c]]
    BY DEF IInv, Return
  <2>8. Moves(c, r2, effects[c])
    BY <1>2, <2>5, <2>6, <2>7 DEF Moves, Return, Answered, Set
  <2> QED BY <2>8, MoveKeeps
<1> QED BY <1>1, <1>2

LEMMA GiveUpKeeps ==
  ASSUME IInv, NEW c \in Call, GiveUp(c)
  PROVE  Keeps
<1>1. call[c] \in Request
  BY DEF IInv
<1>2. PICK code \in Failures(call[c]) :
        Set(c, [call[c] EXCEPT !.phase = "done", !.code = code,
                               !.late = call[c].phase = "sent" /\ config.mode = "service"])
  BY DEF GiveUp
<1>3. code \in FailureCode
  BY <1>1, FailuresAreFailures
<1> DEFINE late == call[c].phase = "sent" /\ config.mode = "service"
<1>4. late \in BOOLEAN /\ (late => call[c].phase = "sent")
  OBVIOUS
<1>5. call' = [call EXCEPT ![c] = [call[c] EXCEPT !.phase = "done", !.code = code, !.late = late]]
  BY <1>2 DEF Set
<1> HIDE DEF late
<1> QED BY <1>3, <1>4, <1>5, FailureMoves DEF GiveUp

\* One step per action of a call that was let through.
LEMMA HandleKeeps ==
  ASSUME IInv, NEW c \in Call, Handle(c)
  PROVE  Keeps
<1>1. call[c] \in Request
  BY DEF IInv
<1>2. CASE Connect(c)
  BY <1>2, ConnectKeeps
<1>3. CASE ConnectFails(c)
  BY <1>1, <1>3, FailuresAreFailures, AnsweredKeeps DEF ConnectFails
<1>4. CASE Perform(c)
  BY <1>4, PerformKeeps
<1>5. CASE TurnedDown(c)
  <2>1. PICK code \in Failures(call[c]) \cup {"tool-error"} : Answered(c, code)
    BY <1>5 DEF TurnedDown
  <2>2. code \in FailureCode
    BY <1>1, <2>1, FailuresAreFailures DEF FailureCode
  <2> QED BY <1>5, <2>1, <2>2, AnsweredKeeps DEF TurnedDown
<1>6. CASE GiveUp(c)
  BY <1>6, GiveUpKeeps
<1>7. CASE Unusable(c)
  <2>1. PICK code \in {"COMMONS_MCP_UNAVAILABLE", "COMMONS_SERVICE_RESPONSE_OVERSIZED",
                       "COMMONS_PROTOCOL_MISMATCH"} : Answered(c, code)
    BY <1>7 DEF Unusable
  <2>2. code \in FailureCode
    BY <2>1 DEF FailureCode
  <2> QED BY <1>7, <2>1, <2>2, AnsweredKeeps DEF Unusable
<1>8. CASE Return(c)
  BY <1>8, ReturnKeeps
<1> QED BY <1>2, <1>3, <1>4, <1>5, <1>6, <1>7, <1>8 DEF Handle

\* Of three checks the first that fails is one of the three.
LEMMA FirstOfThree ==
  ASSUME NEW P(_), \E i \in 1..3 : P(i)
  PROVE  (CHOOSE i \in 1..3 : P(i) /\ \A j \in 1..(i-1) : ~P(j)) \in 1..3
<1>1. \E i \in 1..3 : P(i) /\ \A j \in 1..(i-1) : ~P(j)
  <2>1. CASE P(1)
    BY <2>1
  <2>2. CASE ~P(1) /\ P(2)
    BY <2>2
  <2>3. CASE ~P(1) /\ ~P(2) /\ P(3)
    BY <2>3
  <2> QED BY <2>1, <2>2, <2>3
<1> QED BY <1>1

\* What is turned away is told so, and what none of the checks turns away is allowed.
LEMMA RefusalsRefuse ==
  ASSUME NEW r \in Asked
  PROVE  /\ \A i \in 1..3 : Refusals(r)[i].code \in RefusalCode
         /\ (\A i \in 1..3 : ~Refusals(r)[i].fails) => Allowed(r)
<1>1. r.kind \in Kind
  BY DEF Asked
<1>2. CASE r.kind = "write"
  <2>1. Refusals(r) = WriteRefusals(r)
    BY <1>2 DEF Refusals
  <2>2. /\ WriteRefusals(r)[1].code = "COMMONS_UNKNOWN_TOOL"
        /\ WriteRefusals(r)[2].code = "COMMONS_TOOL_DENIED"
        /\ WriteRefusals(r)[3].code = "COMMONS_INVALID_ARGUMENTS"
    BY DEF WriteRefusals
  <2>3. /\ ~WriteRefusals(r)[1].fails => ready
        /\ ~WriteRefusals(r)[2].fails => config.allow /\ r.approved
    BY DEF WriteRefusals
  <2>4. \A i \in 1..3 : Refusals(r)[i].code \in RefusalCode
    BY <2>1, <2>2 DEF RefusalCode
  <2>5. (\A i \in 1..3 : ~Refusals(r)[i].fails) => Allowed(r)
    BY <1>2, <2>1, <2>3 DEF Allowed
  <2> QED BY <2>4, <2>5
<1>3. CASE r.kind = "read"
  <2>1. Refusals(r) = ReadRefusals(r)
    BY <1>3 DEF Refusals
  <2>2. /\ ReadRefusals(r)[1].code = "NOT_READY"
        /\ ReadRefusals(r)[2].code = "COMMONS_UNKNOWN_TOOL"
        /\ ReadRefusals(r)[3].code = "COMMONS_INVALID_ARGUMENTS"
    BY DEF ReadRefusals
  <2>3. /\ ~ReadRefusals(r)[1].fails => ready
    BY DEF ReadRefusals
  <2>4. \A i \in 1..3 : Refusals(r)[i].code \in RefusalCode
    BY <2>1, <2>2 DEF RefusalCode
  <2>5. (\A i \in 1..3 : ~Refusals(r)[i].fails) => Allowed(r)
    BY <1>3, <2>1, <2>3 DEF Allowed
  <2> QED BY <2>4, <2>5
<1>4. CASE r.kind = "evidence"
  <2>1. Refusals(r) = EvidenceRefusals(r)
    BY <1>4 DEF Refusals
  <2>2. /\ EvidenceRefusals(r)[1].code = "NOT_READY"
        /\ EvidenceRefusals(r)[2].code = "COMMONS_EVIDENCE_PUBLICATION_DISABLED"
        /\ EvidenceRefusals(r)[3].code = "COMMONS_FABRIC_TRANSLATION_INVALID"
    BY DEF EvidenceRefusals
  <2>3. /\ ~EvidenceRefusals(r)[1].fails => ready
        /\ ~EvidenceRefusals(r)[2].fails => config.evidence
    BY DEF EvidenceRefusals
  <2>4. \A i \in 1..3 : Refusals(r)[i].code \in RefusalCode
    BY <2>1, <2>2 DEF RefusalCode
  <2>5. (\A i \in 1..3 : ~Refusals(r)[i].fails) => Allowed(r)
    BY <1>4, <2>1, <2>3 DEF Allowed
  <2> QED BY <2>4, <2>5
<1>5. CASE r.kind = "operator"
  <2>1. Refusals(r) = OperatorRefusals(r)
    BY <1>5 DEF Refusals
  <2>2. /\ OperatorRefusals(r)[1].code = "NOT_READY"
        /\ OperatorRefusals(r)[2].code = "COMMONS_INVALID_ARGUMENTS"
        /\ OperatorRefusals(r)[3].code = "COMMONS_TOOL_DENIED"
    BY DEF OperatorRefusals
  <2>3. /\ ~OperatorRefusals(r)[1].fails => ready
        /\ ~OperatorRefusals(r)[3].fails => config.mode = "service"
    BY DEF OperatorRefusals
  <2>4. \A i \in 1..3 : Refusals(r)[i].code \in RefusalCode
    BY <2>1, <2>2 DEF RefusalCode
  <2>5. (\A i \in 1..3 : ~Refusals(r)[i].fails) => Allowed(r)
    BY <1>5, <2>1, <2>3 DEF Allowed
  <2> QED BY <2>4, <2>5
<1> QED BY <1>1, <1>2, <1>3, <1>4, <1>5 DEF Kind

LEMMA AskKeeps ==
  ASSUME IInv, NEW c \in Call, NEW r \in Asked, Ask(c, r)
  PROVE  Keeps
<1>1. r \in Request /\ r.late = FALSE /\ r.phase = "idle" /\ r.code = ""
  BY DEF Asked, Request
<1>2. Sound(call[c], effects[c]) /\ call[c].phase = "idle" /\ effects[c] = 0
  BY DEF IInv, Ask, Sound
<1>3. Told(call[c]) = "none"
  BY <1>2 DEF Told
<1>4. effects' = [effects EXCEPT ![c] = effects[c]]
  BY DEF IInv, Ask
<1>5. CASE \E i \in 1..3 : Refusals(r)[i].fails
  <2> DEFINE first == CHOOSE i \in 1..3 : /\ Refusals(r)[i].fails
                                          /\ \A j \in 1..(i-1) : ~Refusals(r)[j].fails
             code == Refusals(r)[first].code
             r2 == [r EXCEPT !.phase = "done", !.code = code]
  <2>1. first \in 1..3
    <3> DEFINE P(i) == Refusals(r)[i].fails
    <3>1. \E i \in 1..3 : P(i)
      BY <1>5
    <3>2. (CHOOSE i \in 1..3 : P(i) /\ \A j \in 1..(i-1) : ~P(j)) \in 1..3
      <4> HIDE DEF P
      <4> QED BY <3>1, FirstOfThree
    <3> QED BY <3>2
  <2>2. code \in RefusalCode
    <3> HIDE DEF first
    <3> QED BY <2>1, RefusalsRefuse
  <2>3. Set(c, r2)
    BY <1>5 DEF Ask
  <2> HIDE DEF code
  <2>4. /\ r2 \in Request
        /\ r2.phase = "done" /\ r2.late = FALSE /\ r2.code = code
    BY <1>1, <2>2 DEF Request
  <2>5. code # "ok"
    BY <2>2 DEF RefusalCode
  <2>6. Sound(r2, effects[c])
    <3>1. effects[c] = 0
      BY <1>2
    <3> HIDE DEF r2
    <3> QED BY <2>4, <2>5, <3>1 DEF Sound
  <2>7. Maps(call[c], effects[c], r2, effects[c])
    BY <1>2, <1>3, <2>2, <2>4, <2>5 DEF Maps, Stutters, Tells, Told
  <2>8. Moves(c, r2, effects[c])
    BY <1>4, <2>3, <2>6, <2>7 DEF Moves, Ask, Set
  <2> QED BY <2>8, MoveKeeps
<1>6. CASE ~\E i \in 1..3 : Refusals(r)[i].fails
  <2> DEFINE r2 == [r EXCEPT !.phase = "admitted"]
  <2>1. Set(c, r2)
    BY <1>6 DEF Ask
  <2>2. /\ r2 \in Request
        /\ r2.phase = "admitted" /\ r2.late = FALSE /\ r2.code = ""
        /\ r2.kind = r.kind /\ r2.approved = r.approved
    BY <1>1 DEF Request
  <2>3. Allowed(r2)
    BY <1>6, <2>2, RefusalsRefuse DEF Allowed
  <2>4. Sound(r2, effects[c])
    BY <1>2, <2>2, <2>3 DEF Sound
  <2>5. Maps(call[c], effects[c], r2, effects[c])
    BY <1>3, <2>2 DEF Maps, Stutters, Told
  <2>6. Moves(c, r2, effects[c])
    BY <1>4, <2>1, <2>4, <2>5 DEF Moves, Ask, Set
  <2> QED BY <2>6, MoveKeeps
<1> QED BY <1>5, <1>6

LEMMA InitIInv == Init => IInv /\ Remote!Init
<1> SUFFICES ASSUME Init PROVE IInv /\ Remote!Init
  OBVIOUS
<1>1. Idle \in Request
  BY DEF Idle, Request, Kind
<1>2. Sound(Idle, 0)
  BY <1>1 DEF Sound, Idle
<1>3. IInv
  BY <1>1, <1>2 DEF IInv, Init
<1>4. \A c \in Call : AnswerOf(c) = "none"
  BY DEF Init, AnswerOf, Idle
<1> QED BY <1>3, <1>4 DEF Remote!Init, Init

LEMMA StepIInv == IInv /\ [Next]_vars => Keeps
<1> SUFFICES ASSUME IInv, [Next]_vars PROVE Keeps
  OBVIOUS
<1>1. CASE Initialize
  BY <1>1, RestKeeps DEF Initialize, ready
<1>2. CASE \E c \in Call : \E r \in Asked : Ask(c, r)
  BY <1>2, AskKeeps
<1>3. CASE \E c \in Call : Handle(c)
  BY <1>3, HandleKeeps
<1>4. CASE \E c \in Call : PerformLate(c)
  BY <1>4, PerformLateKeeps
<1>5. CASE ServerChanges
  BY <1>5, RestKeeps DEF ServerChanges
<1>6. CASE UNCHANGED vars
  BY <1>6, RestKeeps DEF vars
<1> QED BY <1>1, <1>2, <1>3, <1>4, <1>5, <1>6 DEF Next

\* Nothing is published or changed in Commons without the permission its kind
\* needs, when it is carried out late no less than when it is answered.
THEOREM EffectsAreAuthorized == Spec => []EffectsAuthorized
<1>1. IInv => EffectsAuthorized
  <2> SUFFICES ASSUME IInv, NEW c \in Call, effects[c] > 0
               PROVE  /\ ready
                      /\ CASE call[c].kind = "write" -> config.allow /\ call[c].approved
                           [] call[c].kind = "evidence" -> config.evidence
                           [] call[c].kind = "operator" -> config.mode = "service"
                           [] OTHER -> FALSE
    BY DEF EffectsAuthorized
  <2>1. effects[c] = 1 /\ Sound(call[c], effects[c]) /\ call[c] \in Request
    BY DEF IInv
  <2>2. call[c].kind # "read"
    <3>1. call[c].kind = "read" => effects[c] = 0
      BY <2>1 DEF Sound
    <3> QED BY <2>1, <3>1
  <2>3. Allowed(call[c])
    BY <2>1, <2>2 DEF Sound
  <2>4. call[c].kind \in Kind
    BY <2>1 DEF Request
  <2> QED BY <2>2, <2>3, <2>4 DEF Allowed, Kind
<1> QED BY InitIInv, StepIInv, <1>1, PTL DEF Spec, Keeps

\* A session of Commons is a RemoteCall: what was refused is never carried out, what
\* succeeded was carried out once, and every other answer leaves it open.
THEOREM KeepsContract == Spec => Contract
<1>1. Init => IInv /\ Remote!Init
  BY InitIInv
<1>2. IInv /\ [Next]_vars => IInv' /\ [Remote!Next]_(Remote!vars)
  BY StepIInv DEF Keeps
<1> QED BY <1>1, <1>2, PTL DEF Spec, Contract, Remote!Spec
=============================================================================
