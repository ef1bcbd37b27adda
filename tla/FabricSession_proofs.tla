------------------------ MODULE FabricSession_proofs ------------------------
(***************************************************************************)
(* For every number of chats and submissions, however they overlap: what a *)
(* caller is told is what RemoteCall promises, no request is left in a     *)
(* bundle root but by a copy that failed, and a run alone with the session *)
(* reads back its own record.                                              *)
(* At the end, of the terminal interface that drives such a session: its   *)
(* buttons are disabled only while a thread is at work that will enable    *)
(* them, however many runs and inspections replace one another.            *)
(***************************************************************************)
EXTENDS FabricSession, Console, TLAPS

\* How far a chat got, against how often it was carried out.
SoundChat(x, n) ==
  /\ x \in ChatState
  /\ n \in {0, 1}
  /\ x.phase \in {"idle", "configured", "probing", "copying"} => x.result = "" /\ n = 0
  /\ x.phase = "sent" => /\ x.result \in {"", "PASS", "failed", "rejected"}
                         /\ x.result = "" => n = 0
                         /\ x.at = 0
  /\ x.phase \in {"idle", "configured", "probing"} => x.at = 0
  /\ x.phase = "cleaning" => x.result \in {"PASS", "failed", "rejected", "lost"}
  /\ x.phase \in {"returned", "done"} => x.result # ""
  /\ x.result = "PASS" => n = 1
  /\ x.result \in {"refused", "raised"} => n = 0
  /\ x.late => x.result = "lost" /\ n = 0

SoundJob(x, n) ==
  /\ x \in JobState
  /\ n \in {0, 1}
  /\ x.work = "none" => n = 0
  /\ x.work # "none" => n = 1
  /\ x.phase = "idle" => x.work = "none" /\ x.result = ""
  /\ x.phase \in {"sent", "taken"} => x.result = ""
  /\ x.phase = "taken" => n = 1
  /\ x.result \in {"lost", "accepted", "refused"} => x.phase = "done"
  /\ x.result = "accepted" => n = 1
  /\ x.result = "refused" => n = 0

CallsOK ==
  /\ chat \in [Chat -> ChatState]
  /\ job \in [Job -> JobState]
  /\ effects \in [Chat \cup Job -> {0, 1}]
  /\ \A c \in Chat : SoundChat(chat[c], effects[c])
  /\ \A j \in Job : SoundJob(job[j], effects[j])

\* A step of a call as RemoteCall sees it: a stutter, or one of its actions.
Stutters(a, n, a2, n2) == a2 = a /\ n2 = n
Performs(a, n, a2, n2) == a \in {"none", "error"} /\ n = 0 /\ n2 = 1 /\ a2 = a
Tells(a, n, a2, n2) == /\ a = "none"
                       /\ n2 = n
                       /\ \/ a2 = "ok" /\ n = 1
                          \/ a2 = "refused" /\ n = 0
                          \/ a2 = "error"
Retries(a, n, a2, n2) == a = "error" /\ a2 = "none" /\ n2 = n
Maps(a, n, a2, n2) == \/ Stutters(a, n, a2, n2)
                      \/ Performs(a, n, a2, n2)
                      \/ Tells(a, n, a2, n2)
                      \/ Retries(a, n, a2, n2)

CommonTypes == config.roots \in 0..2 /\ context \in Chat \cup {NoChat}

Implements == Fabric!Next \/ UNCHANGED Fabric!vars
Keeps == CallsOK' /\ Implements

MovesChat(c, x2, n2) ==
  /\ chat' = [chat EXCEPT ![c] = x2]
  /\ effects' = [effects EXCEPT ![c] = n2]
  /\ job' = job
  /\ SoundChat(x2, n2)
  /\ Maps(ChatAnswer(chat[c]), effects[c], ChatAnswer(x2), n2)

MovesJob(j, x2, n2) ==
  /\ job' = [job EXCEPT ![j] = x2]
  /\ effects' = [effects EXCEPT ![j] = n2]
  /\ chat' = chat
  /\ SoundJob(x2, n2)
  /\ Maps(JobAnswer(job[j]), effects[j], JobAnswer(x2), n2)

LEMMA ChatAnswers == \A c \in Chat : AnswerOf(c) = ChatAnswer(chat[c]) /\ AnswerOf(c)' = ChatAnswer(chat'[c])
<1> TAKE c \in Chat
<1>1. c \notin Job
  BY FabricAssumption
<1> QED BY <1>1 DEF AnswerOf

LEMMA JobAnswers == \A j \in Job : AnswerOf(j) = JobAnswer(job[j]) /\ AnswerOf(j)' = JobAnswer(job'[j])
BY DEF AnswerOf

\* One call moves, the others are told what they were told.
LEMMA MoveImplements ==
  ASSUME CallsOK, NEW e \in Chat \cup Job, NEW n2,
         effects' = [effects EXCEPT ![e] = n2],
         \A d \in (Chat \cup Job) \ {e} : AnswerOf(d)' = AnswerOf(d),
         Maps(AnswerOf(e), effects[e], AnswerOf(e)', n2)
  PROVE  Implements
<1> DEFINE old == [d \in Chat \cup Job |-> AnswerOf(d)]
           new == [d \in Chat \cup Job |-> AnswerOf(d)']
<1>1. effects \in [Chat \cup Job -> {0, 1}]
  BY DEF CallsOK
<1>2. new = [old EXCEPT ![e] = AnswerOf(e)'] /\ old[e] = AnswerOf(e)
  OBVIOUS
<1>3. CASE Stutters(AnswerOf(e), effects[e], AnswerOf(e)', n2)
  <2>1. \A d \in Chat \cup Job : AnswerOf(d)' = AnswerOf(d)
    BY <1>3 DEF Stutters
  <2>2. new = old
    BY <2>1
  <2>3. effects' = effects
    BY <1>1, <1>3 DEF Stutters
  <2> QED BY <2>2, <2>3 DEF Implements, Fabric!vars
<1>4. CASE Performs(AnswerOf(e), effects[e], AnswerOf(e)', n2)
  <2>1. \A d \in Chat \cup Job : AnswerOf(d)' = AnswerOf(d)
    BY <1>4 DEF Performs
  <2>2. new = old
    BY <2>1
  <2>3. old[e] \in {"none", "error"} /\ effects[e] = 0 /\ effects' = [effects EXCEPT ![e] = 1]
    BY <1>2, <1>4 DEF Performs
  <2>4. Fabric!Perform(e)
    BY <2>2, <2>3 DEF Fabric!Perform
  <2> QED BY <2>4 DEF Implements, Fabric!Next
<1>5. CASE Tells(AnswerOf(e), effects[e], AnswerOf(e)', n2)
  <2>1. effects' = effects
    BY <1>1, <1>5 DEF Tells
  <2>2. old[e] = "none"
    BY <1>2, <1>5 DEF Tells
  <2>3. Fabric!Tell(e, AnswerOf(e)')
    BY <1>2, <2>1, <2>2 DEF Fabric!Tell
  <2>4. Fabric!Succeed(e) \/ Fabric!Refuse(e) \/ Fabric!Fail(e)
    BY <1>5, <2>3 DEF Tells, Fabric!Succeed, Fabric!Refuse, Fabric!Fail
  <2> QED BY <2>4 DEF Implements, Fabric!Next
<1>6. CASE Retries(AnswerOf(e), effects[e], AnswerOf(e)', n2)
  <2>1. effects' = effects
    BY <1>1, <1>6 DEF Retries
  <2>2. old[e] = "error" /\ new = [old EXCEPT ![e] = "none"]
    BY <1>2, <1>6 DEF Retries
  <2>3. Fabric!Retry(e)
    BY <2>1, <2>2 DEF Fabric!Retry
  <2> QED BY <2>3 DEF Implements, Fabric!Next
<1> QED BY <1>3, <1>4, <1>5, <1>6 DEF Maps

LEMMA ChatKeeps ==
  ASSUME CallsOK, NEW c \in Chat, NEW x2, NEW n2, MovesChat(c, x2, n2)
  PROVE  Keeps
<1>1. x2 \in ChatState /\ n2 \in {0, 1}
  BY DEF MovesChat, SoundChat
<1>2. /\ chat' \in [Chat -> ChatState]
      /\ effects' \in [Chat \cup Job -> {0, 1}]
      /\ chat'[c] = x2 /\ effects'[c] = n2
      /\ \A d \in Chat \ {c} : chat'[d] = chat[d]
      /\ \A d \in (Chat \cup Job) \ {c} : effects'[d] = effects[d]
  BY <1>1 DEF MovesChat, CallsOK
<1>3. \A j \in Job : j # c /\ job'[j] = job[j]
  BY FabricAssumption DEF MovesChat
<1>4. CallsOK'
  BY <1>2, <1>3 DEF MovesChat, CallsOK
<1>5. \A d \in (Chat \cup Job) \ {c} : AnswerOf(d)' = AnswerOf(d)
  BY <1>2, <1>3, ChatAnswers, JobAnswers
<1>6. Maps(AnswerOf(c), effects[c], AnswerOf(c)', n2)
  BY <1>2, ChatAnswers DEF MovesChat
<1>7. Implements
  BY <1>5, <1>6, MoveImplements DEF MovesChat
<1> QED BY <1>4, <1>7 DEF Keeps

LEMMA JobKeeps ==
  ASSUME CallsOK, NEW j \in Job, NEW x2, NEW n2, MovesJob(j, x2, n2)
  PROVE  Keeps
<1>1. x2 \in JobState /\ n2 \in {0, 1}
  BY DEF MovesJob, SoundJob
<1>2. /\ job' \in [Job -> JobState]
      /\ effects' \in [Chat \cup Job -> {0, 1}]
      /\ job'[j] = x2 /\ effects'[j] = n2
      /\ \A d \in Job \ {j} : job'[d] = job[d]
      /\ \A d \in (Chat \cup Job) \ {j} : effects'[d] = effects[d]
  BY <1>1 DEF MovesJob, CallsOK
<1>3. \A c \in Chat : c # j /\ chat'[c] = chat[c]
  BY FabricAssumption DEF MovesJob
<1>4. CallsOK'
  BY <1>2, <1>3 DEF MovesJob, CallsOK
<1>5. \A d \in (Chat \cup Job) \ {j} : AnswerOf(d)' = AnswerOf(d)
  BY <1>2, <1>3, ChatAnswers, JobAnswers
<1>6. Maps(AnswerOf(j), effects[j], AnswerOf(j)', n2)
  BY <1>2, JobAnswers DEF MovesJob
<1>7. Implements
  BY <1>5, <1>6, MoveImplements DEF MovesJob
<1> QED BY <1>4, <1>7 DEF Keeps

\* What moves no call is a stutter of RemoteCall.
LEMMA RestKeeps ==
  ASSUME CallsOK, UNCHANGED <<chat, job, effects>>
  PROVE  Keeps
<1>1. UNCHANGED Fabric!vars
  BY DEF Fabric!vars, AnswerOf
<1> QED BY <1>1 DEF CallsOK, Keeps, Implements

\* A chat that goes on and tells nothing new.
LEMMA QuietKeeps ==
  ASSUME CallsOK, NEW c \in Chat, NEW x2,
         SetChat(c, x2), UNCHANGED <<job, effects>>,
         SoundChat(x2, effects[c]), ChatAnswer(x2) = ChatAnswer(chat[c])
  PROVE  Keeps
<1>1. effects' = [effects EXCEPT ![c] = effects[c]]
  BY DEF CallsOK
<1>2. MovesChat(c, x2, effects[c])
  BY <1>1 DEF MovesChat, SetChat, Maps, Stutters
<1> QED BY <1>2, ChatKeeps

\* A chat that returns.
LEMMA ReturningKeeps ==
  ASSUME CallsOK, NEW c \in Chat, NEW x2,
         SetChat(c, x2), UNCHANGED <<job, effects>>,
         SoundChat(x2, effects[c]), chat[c].phase \notin {"returned", "done"}, x2.phase = "returned"
  PROVE  Keeps
<1>1. effects' = [effects EXCEPT ![c] = effects[c]]
  BY DEF CallsOK
<1>2. Maps(ChatAnswer(chat[c]), effects[c], ChatAnswer(x2), effects[c])
  BY DEF Maps, Tells, ChatAnswer, SoundChat
<1>3. MovesChat(c, x2, effects[c])
  BY <1>1, <1>2 DEF MovesChat, SetChat
<1> QED BY <1>3, ChatKeeps

LEMMA ConfigureKeeps ==
  ASSUME CallsOK, NEW c \in Chat, Configure(c)
  PROVE  Keeps
<1> DEFINE x == chat[c]
           x2 == [x EXCEPT !.phase = "configured"]
<1>1. x \in ChatState /\ SoundChat(x, effects[c])
  BY DEF CallsOK
<1>2. /\ x2 \in ChatState
      /\ x2.phase = "configured" /\ x2.result = x.result /\ x2.at = x.at /\ x2.late = x.late /\ x2.under = x.under
  BY <1>1 DEF ChatState
<1>3. SoundChat(x2, effects[c])
  BY <1>1, <1>2 DEF SoundChat, Configure
<1>4. ChatAnswer(x2) = ChatAnswer(x)
  BY <1>1, <1>2 DEF ChatAnswer, Configure
<1> QED BY <1>3, <1>4, QuietKeeps DEF Configure

LEMMA ObserveKeeps ==
  ASSUME CallsOK, NEW c \in Chat, Observe(c)
  PROVE  Keeps
<1> DEFINE x == chat[c]
           x2 == [x EXCEPT !.phase = "copying"]
<1>1. x \in ChatState /\ SoundChat(x, effects[c])
  BY DEF CallsOK
<1>2. /\ x2 \in ChatState
      /\ x2.phase = "copying" /\ x2.result = x.result /\ x2.at = x.at /\ x2.late = x.late /\ x2.under = x.under
  BY <1>1 DEF ChatState
<1>3. SoundChat(x2, effects[c])
  BY <1>1, <1>2 DEF SoundChat, Observe
<1>4. ChatAnswer(x2) = ChatAnswer(x)
  BY <1>1, <1>2 DEF ChatAnswer, Observe
<1> QED BY <1>3, <1>4, QuietKeeps DEF Observe

LEMMA ExecuteKeeps ==
  ASSUME CallsOK, CommonTypes, NEW c \in Chat, Execute(c)
  PROVE  Keeps
<1> DEFINE x == chat[c]
           x2 == [x EXCEPT !.phase = "sent", !.at = 0, !.under = context]
<1>1. x \in ChatState /\ SoundChat(x, effects[c])
  BY DEF CallsOK
<1>0. context \in Chat \cup {NoChat} /\ 0 \in 0..2
  BY DEF CommonTypes
<1>2. /\ x2 \in ChatState
      /\ x2.phase = "sent" /\ x2.result = x.result /\ x2.at = 0 /\ x2.late = x.late /\ x2.under = context
  BY <1>0, <1>1 DEF ChatState
<1>3. SoundChat(x2, effects[c])
  BY <1>1, <1>2 DEF SoundChat, Execute
<1>4. ChatAnswer(x2) = ChatAnswer(x)
  BY <1>1, <1>2 DEF ChatAnswer, Execute
<1> QED BY <1>3, <1>4, QuietKeeps DEF Execute

LEMMA CopyKeeps ==
  ASSUME CallsOK, CommonTypes, NEW c \in Chat, Copy(c)
  PROVE  Keeps
<1> DEFINE x == chat[c]
           n == x.at + 1
           x2 == [x EXCEPT !.at = n]
<1>1. x \in ChatState /\ SoundChat(x, effects[c])
  BY DEF CallsOK
<1>2. n \in 0..2
  <2>1. x.at \in 0..2
    BY <1>1 DEF ChatState
  <2>2. x.at < config.roots
    BY DEF Copy
  <2> QED BY <2>1, <2>2 DEF CommonTypes
<1>3. SetChat(c, x2)
  BY DEF Copy
<1> HIDE DEF n
<1>4. /\ x2 \in ChatState
      /\ x2.phase = x.phase /\ x2.result = x.result /\ x2.at = n /\ x2.late = x.late /\ x2.under = x.under
  BY <1>1, <1>2 DEF ChatState
<1>5. SoundChat(x2, effects[c])
  BY <1>1, <1>4 DEF SoundChat, Copy
<1>6. ChatAnswer(x2) = ChatAnswer(x)
  BY <1>1, <1>4 DEF ChatAnswer, Copy
<1> QED BY <1>3, <1>5, <1>6, QuietKeeps DEF Copy

LEMMA CopyFailsKeeps ==
  ASSUME CallsOK, NEW c \in Chat, CopyFails(c)
  PROVE  Keeps
<1> DEFINE x == chat[c]
           x2 == [x EXCEPT !.phase = "returned", !.result = "raised"]
<1>1. x \in ChatState /\ SoundChat(x, effects[c])
  BY DEF CallsOK
<1>2. /\ x2 \in ChatState
      /\ x2.phase = "returned" /\ x2.result = "raised" /\ x2.at = x.at /\ x2.late = x.late /\ x2.under = x.under
  BY <1>1 DEF ChatState
<1>3. SoundChat(x2, effects[c])
  BY <1>1, <1>2 DEF SoundChat, CopyFails
<1> QED BY <1>2, <1>3, ReturningKeeps DEF CopyFails

LEMMA RejectKeeps ==
  ASSUME CallsOK, NEW c \in Chat, Reject(c)
  PROVE  Keeps
<1> DEFINE x == chat[c]
           x2 == [x EXCEPT !.result = "rejected"]
<1>1. x \in ChatState /\ SoundChat(x, effects[c])
  BY DEF CallsOK
<1>2. /\ x2 \in ChatState
      /\ x2.phase = x.phase /\ x2.result = "rejected" /\ x2.at = x.at /\ x2.late = x.late /\ x2.under = x.under
  BY <1>1 DEF ChatState
<1>3. SoundChat(x2, effects[c])
  BY <1>1, <1>2 DEF SoundChat, Reject
<1>4. ChatAnswer(x2) = ChatAnswer(x)
  BY <1>1, <1>2 DEF ChatAnswer, Reject
<1> QED BY <1>3, <1>4, QuietKeeps DEF Reject

LEMMA CleanKeeps ==
  ASSUME CallsOK, CommonTypes, NEW c \in Chat, Clean(c)
  PROVE  Keeps
<1> DEFINE x == chat[c]
           n == x.at + 1
           x2 == [x EXCEPT !.at = n]
<1>1. x \in ChatState /\ SoundChat(x, effects[c])
  BY DEF CallsOK
<1>2. n \in 0..2
  <2>1. x.at \in 0..2
    BY <1>1 DEF ChatState
  <2>2. x.at < config.roots
    BY DEF Clean
  <2> QED BY <2>1, <2>2 DEF CommonTypes
<1>3. SetChat(c, x2)
  BY DEF Clean
<1> HIDE DEF n
<1>4. /\ x2 \in ChatState
      /\ x2.phase = x.phase /\ x2.result = x.result /\ x2.at = n /\ x2.late = x.late /\ x2.under = x.under
  BY <1>1, <1>2 DEF ChatState
<1>5. SoundChat(x2, effects[c])
  BY <1>1, <1>4 DEF SoundChat, Clean
<1>6. ChatAnswer(x2) = ChatAnswer(x)
  BY <1>1, <1>4 DEF ChatAnswer, Clean
<1> QED BY <1>3, <1>5, <1>6, QuietKeeps DEF Clean

LEMMA CollectKeeps ==
  ASSUME CallsOK, NEW c \in Chat, Collect(c)
  PROVE  Keeps
<1> DEFINE x == chat[c]
           x2 == [x EXCEPT !.phase = "returned"]
<1>1. x \in ChatState /\ SoundChat(x, effects[c])
  BY DEF CallsOK
<1>2. /\ x2 \in ChatState
      /\ x2.phase = "returned" /\ x2.result = x.result /\ x2.at = x.at /\ x2.late = x.late /\ x2.under = x.under
  BY <1>1 DEF ChatState
<1>3. SoundChat(x2, effects[c])
  BY <1>1, <1>2 DEF SoundChat, Collect
<1> QED BY <1>2, <1>3, ReturningKeeps DEF Collect

LEMMA PublishKeeps ==
  ASSUME CallsOK, NEW c \in Chat, Publish(c)
  PROVE  Keeps
<1> DEFINE x == chat[c]
           x2 == [x EXCEPT !.phase = "done", !.at = 0, !.under = NoChat]
<1>1. x \in ChatState /\ SoundChat(x, effects[c])
  BY DEF CallsOK
<1>0. NoChat \in Chat \cup {NoChat} /\ 0 \in 0..2
  OBVIOUS
<1>2. /\ x2 \in ChatState
      /\ x2.phase = "done" /\ x2.result = x.result /\ x2.at = 0 /\ x2.late = x.late /\ x2.under = NoChat
  BY <1>0, <1>1 DEF ChatState
<1>3. SoundChat(x2, effects[c])
  BY <1>1, <1>2 DEF SoundChat, Publish
<1>4. ChatAnswer(x2) = ChatAnswer(x)
  BY <1>1, <1>2 DEF ChatAnswer, Publish
<1> QED BY <1>3, <1>4, QuietKeeps DEF Publish

LEMMA BeginKeeps ==
  ASSUME CallsOK, NEW c \in Chat, Begin(c)
  PROVE  Keeps
<1>1. chat[c] \in ChatState /\ SoundChat(chat[c], effects[c]) /\ chat[c].phase = "configured"
  BY DEF CallsOK, Begin
<1>2. CASE Usable
  <2> DEFINE x2 == [chat[c] EXCEPT !.phase = "probing"]
  <2>1. /\ x2 \in ChatState
        /\ x2.phase = "probing" /\ x2.result = chat[c].result /\ x2.at = chat[c].at /\ x2.late = chat[c].late
    BY <1>1 DEF ChatState
  <2>2. SoundChat(x2, effects[c])
    BY <1>1, <2>1 DEF SoundChat
  <2>3. ChatAnswer(x2) = ChatAnswer(chat[c])
    BY <1>1, <2>1 DEF ChatAnswer
  <2> QED BY <1>2, <2>2, <2>3, QuietKeeps DEF Begin
<1>3. CASE ~Usable
  <2> DEFINE x2 == [chat[c] EXCEPT !.phase = "returned", !.result = "refused"]
  <2>1. /\ x2 \in ChatState
        /\ x2.phase = "returned" /\ x2.result = "refused" /\ x2.at = chat[c].at /\ x2.late = chat[c].late
    BY <1>1 DEF ChatState
  <2>2. SoundChat(x2, effects[c])
    BY <1>1, <2>1 DEF SoundChat
  <2> QED BY <1>1, <1>3, <2>1, <2>2, ReturningKeeps DEF Begin
<1> QED BY <1>2, <1>3

\* A bundle that runs was not run before.
LEMMA RunKeeps ==
  ASSUME CallsOK, NEW c \in Chat, RunModel(c)
  PROVE  Keeps
<1>1. PICK result \in {"PASS", "failed"} : SetChat(c, [chat[c] EXCEPT !.result = result])
  BY DEF RunModel
<1> DEFINE x == chat[c]
           x2 == [x EXCEPT !.result = result]
<1>2. x \in ChatState /\ SoundChat(x, effects[c]) /\ effects[c] = 0
  BY DEF CallsOK, RunModel, SoundChat
<1>3. /\ x2 \in ChatState
      /\ x2.phase = x.phase /\ x2.result = result /\ x2.at = x.at /\ x2.late = x.late
  BY <1>1, <1>2 DEF ChatState
<1>4. SoundChat(x2, 1)
  BY <1>1, <1>2, <1>3 DEF SoundChat, RunModel
<1>5. Maps(ChatAnswer(x), effects[c], ChatAnswer(x2), 1)
  BY <1>2, <1>3 DEF Maps, Performs, ChatAnswer, RunModel
<1>6. effects' = [effects EXCEPT ![c] = 1]
  <2>1. effects' = [effects EXCEPT ![c] = effects[c] + 1]
    BY DEF RunModel, Effect
  <2> QED BY <1>2, <2>1
<1>7. MovesChat(c, x2, 1)
  BY <1>1, <1>4, <1>5, <1>6 DEF MovesChat, SetChat, RunModel
<1> QED BY <1>7, ChatKeeps

\* Nor was one that runs when nobody waits for it any more.
LEMMA RunLateKeeps ==
  ASSUME CallsOK, NEW c \in Chat, RunLate(c)
  PROVE  Keeps
<1> DEFINE x == chat[c]
           x2 == [x EXCEPT !.late = FALSE]
<1>1. x \in ChatState /\ SoundChat(x, effects[c]) /\ x.result = "lost" /\ effects[c] = 0
  BY DEF CallsOK, RunLate, SoundChat
<1>2. /\ x2 \in ChatState
      /\ x2.phase = x.phase /\ x2.result = "lost" /\ x2.at = x.at /\ x2.late = FALSE
  BY <1>1 DEF ChatState
<1>3. SoundChat(x2, 1)
  BY <1>1, <1>2 DEF SoundChat
<1>4. Maps(ChatAnswer(x), effects[c], ChatAnswer(x2), 1)
  BY <1>1, <1>2 DEF Maps, Performs, ChatAnswer
<1>5. effects' = [effects EXCEPT ![c] = 1]
  <2>1. effects' = [effects EXCEPT ![c] = effects[c] + 1]
    BY DEF RunLate, Effect
  <2> QED BY <1>1, <2>1
<1>6. MovesChat(c, x2, 1)
  BY <1>3, <1>4, <1>5 DEF MovesChat, SetChat, RunLate
<1> QED BY <1>6, ChatKeeps

LEMMA ExecuteReturnsKeeps ==
  ASSUME CallsOK, NEW c \in Chat, ExecuteReturns(c)
  PROVE  Keeps
<1> DEFINE x == chat[c]
<1>1. x \in ChatState /\ SoundChat(x, effects[c]) /\ x.phase = "sent" /\ ~x.late
  BY DEF CallsOK, ExecuteReturns, SoundChat
<1>2. CASE x.result # "" /\ SetChat(c, [chat[c] EXCEPT !.phase = "cleaning"])
  <2> DEFINE x2 == [x EXCEPT !.phase = "cleaning"]
  <2>1. /\ x2 \in ChatState
        /\ x2.phase = "cleaning" /\ x2.result = x.result /\ x2.at = x.at /\ x2.late = x.late
    BY <1>1 DEF ChatState
  <2>2. SoundChat(x2, effects[c])
    BY <1>1, <1>2, <2>1 DEF SoundChat
  <2>3. ChatAnswer(x2) = ChatAnswer(x)
    BY <1>1, <2>1 DEF ChatAnswer
  <2> QED BY <1>2, <2>2, <2>3, QuietKeeps DEF ExecuteReturns
<1>3. CASE SetChat(c, [chat[c] EXCEPT !.phase = "cleaning", !.result = "lost",
                                     !.late = chat[c].result = ""])
  <2> DEFINE late == chat[c].result = ""
             x2 == [x EXCEPT !.phase = "cleaning", !.result = "lost", !.late = late]
  <2>1. late \in BOOLEAN /\ (late => effects[c] = 0)
    BY <1>1 DEF SoundChat
  <2>2. SetChat(c, x2)
    BY <1>3
  <2> HIDE DEF late
  <2>3. /\ x2 \in ChatState
        /\ x2.phase = "cleaning" /\ x2.result = "lost" /\ x2.at = x.at /\ x2.late = late
    BY <1>1, <2>1 DEF ChatState
  <2>4. SoundChat(x2, effects[c])
    BY <1>1, <2>1, <2>3 DEF SoundChat
  <2>5. ChatAnswer(x2) = ChatAnswer(x)
    BY <1>1, <2>3 DEF ChatAnswer
  <2> QED BY <2>2, <2>4, <2>5, QuietKeeps DEF ExecuteReturns
<1> QED BY <1>2, <1>3 DEF ExecuteReturns

\* One step per action of a submission.
LEMMA JobMoves ==
  ASSUME CallsOK, NEW j \in Job, NEW x2,
         SetJob(j, x2), UNCHANGED <<chat, effects>>,
         SoundJob(x2, effects[j]),
         Maps(JobAnswer(job[j]), effects[j], JobAnswer(x2), effects[j])
  PROVE  Keeps
<1>1. effects' = [effects EXCEPT ![j] = effects[j]]
  BY DEF CallsOK
<1>2. MovesJob(j, x2, effects[j])
  BY <1>1 DEF MovesJob, SetJob
<1> QED BY <1>2, JobKeeps

LEMMA SubmitKeeps ==
  ASSUME CallsOK, FabricAssumption, NEW j \in Job, Submit(j)
  PROVE  Keeps
<1> DEFINE x == job[j]
           tries == IF x.phase = "idle" THEN x.tries ELSE x.tries + 1
           x2 == [x EXCEPT !.phase = "sent", !.result = "", !.tries = tries]
<1>1. x \in JobState /\ SoundJob(x, effects[j])
  BY DEF CallsOK
<1>2. x.phase = "idle" \/ (x.result = "lost" /\ x.tries < MaxRetries)
  BY DEF Submit
<1>3. tries \in 0..MaxRetries
  <2>1. x.tries \in 0..MaxRetries /\ MaxRetries \in Nat
    BY <1>1, FabricAssumption DEF JobState
  <2>2. CASE x.phase = "idle"
    BY <2>1, <2>2
  <2>3. CASE x.phase # "idle" /\ x.tries < MaxRetries
    BY <2>1, <2>3
  <2> QED BY <1>2, <2>2, <2>3
<1>4. SetJob(j, x2)
  BY DEF Submit
<1> HIDE DEF tries
<1>5. /\ x2 \in JobState
      /\ x2.phase = "sent" /\ x2.result = "" /\ x2.work = x.work
  BY <1>1, <1>3 DEF JobState
<1>6. SoundJob(x2, effects[j])
  BY <1>1, <1>2, <1>5 DEF SoundJob
<1>7. JobAnswer(x) \in {"none", "error"} /\ JobAnswer(x2) = "none"
  BY <1>1, <1>2, <1>5 DEF JobAnswer, SoundJob
<1>8. Maps(JobAnswer(x), effects[j], JobAnswer(x2), effects[j])
  BY <1>7 DEF Maps, Stutters, Retries
<1> QED BY <1>4, <1>6, <1>8, JobMoves DEF Submit

LEMMA SubmitRefusedKeeps ==
  ASSUME CallsOK, NEW j \in Job, SubmitRefused(j)
  PROVE  Keeps
<1> DEFINE x == job[j]
           x2 == [x EXCEPT !.phase = "done", !.result = "refused"]
<1>1. x \in JobState /\ SoundJob(x, effects[j]) /\ x.phase = "idle" /\ effects[j] = 0
  BY DEF CallsOK, SubmitRefused, SoundJob
<1>2. /\ x2 \in JobState
      /\ x2.phase = "done" /\ x2.result = "refused" /\ x2.work = x.work
  BY <1>1 DEF JobState
<1>3. SoundJob(x2, effects[j])
  BY <1>1, <1>2 DEF SoundJob
<1>4. Maps(JobAnswer(x), effects[j], JobAnswer(x2), effects[j])
  BY <1>1, <1>2 DEF Maps, Tells, JobAnswer
<1> QED BY <1>3, <1>4, JobMoves DEF SubmitRefused

\* The controller takes a submission once.
LEMMA TakeKeeps ==
  ASSUME CallsOK, NEW j \in Job, Take(j)
  PROVE  Keeps
<1> DEFINE x == job[j]
           phase == IF x.phase = "sent" THEN "taken" ELSE x.phase
           work == IF x.work = "none" THEN "queued" ELSE x.work
           x2 == [x EXCEPT !.phase = phase, !.work = work]
<1>1. x \in JobState /\ SoundJob(x, effects[j])
  BY DEF CallsOK
<1>2. x.phase = "sent" \/ (x.result = "lost" /\ x.work = "none")
  BY DEF Take
<1>3. SetJob(j, x2)
  BY DEF Take
<1>4. phase \in {"taken", "done"} /\ work \in {"queued", "PASS", "failed"}
  BY <1>1, <1>2 DEF SoundJob, JobState
<1>5. phase = "taken" <=> x.phase = "sent"
  BY <1>1, <1>2 DEF SoundJob
<1> HIDE DEF phase, work
<1>6. /\ x2 \in JobState
      /\ x2.phase = phase /\ x2.result = x.result /\ x2.work = work
  BY <1>1, <1>4 DEF JobState
<1>7. SoundJob(x2, 1)
  <2>1. \/ phase = "taken" /\ x.result = ""
        \/ phase = "done" /\ x.result = "lost"
    BY <1>1, <1>2, <1>4, <1>5 DEF SoundJob
  <2> HIDE DEF x2
  <2> QED BY <1>4, <1>6, <2>1 DEF SoundJob
<1>8. JobAnswer(x2) = JobAnswer(x) /\ JobAnswer(x) \in {"none", "error"}
  BY <1>1, <1>2, <1>4, <1>5, <1>6 DEF JobAnswer, SoundJob
<1>9. Maps(JobAnswer(x), effects[j], JobAnswer(x2), 1)
  BY <1>1, <1>8 DEF Maps, Stutters, Performs, SoundJob
<1>10. effects' = [effects EXCEPT ![j] = 1]
  <2>1. effects \in [Chat \cup Job -> {0, 1}]
    BY DEF CallsOK
  <2>2. CASE x.work = "none"
    <3>1. effects[j] = 0
      BY <1>1, <2>2 DEF SoundJob
    <3>2. effects' = [effects EXCEPT ![j] = effects[j] + 1]
      BY <2>2 DEF Take, Effect
    <3> QED BY <3>1, <3>2
  <2>3. CASE x.work # "none"
    <3>1. effects[j] = 1
      BY <1>1, <2>3 DEF SoundJob
    <3>2. effects' = effects
      BY <2>3 DEF Take
    <3> QED BY <2>1, <3>1, <3>2
  <2> QED BY <2>2, <2>3
<1>11. MovesJob(j, x2, 1)
  BY <1>3, <1>7, <1>9, <1>10 DEF MovesJob, SetJob, Take
<1> QED BY <1>11, JobKeeps

LEMMA SubmittedKeeps ==
  ASSUME CallsOK, NEW j \in Job, Submitted(j)
  PROVE  Keeps
<1> DEFINE x == job[j]
           x2(result) == [x EXCEPT !.phase = "done", !.result = result]
<1>1. x \in JobState /\ SoundJob(x, effects[j])
  BY DEF CallsOK
<1>2. PICK result \in {"accepted", "lost"} :
        /\ SetJob(j, x2(result))
        /\ x.phase \in {"sent", "taken"}
        /\ result = "accepted" => x.phase = "taken"
  BY DEF Submitted
<1>3. /\ x2(result) \in JobState
      /\ x2(result).phase = "done" /\ x2(result).result = result /\ x2(result).work = x.work
  BY <1>1, <1>2 DEF JobState
<1>4. SoundJob(x2(result), effects[j])
  BY <1>1, <1>2, <1>3 DEF SoundJob
<1>5. Maps(JobAnswer(x), effects[j], JobAnswer(x2(result)), effects[j])
  BY <1>1, <1>2, <1>3 DEF Maps, Tells, JobAnswer, SoundJob
<1> QED BY <1>2, <1>4, <1>5, JobMoves DEF Submitted

LEMMA WorkKeeps ==
  ASSUME CallsOK, NEW j \in Job, Work(j) \/ AskWork(j)
  PROVE  Keeps
<1> DEFINE x == job[j]
<1>1. x \in JobState /\ SoundJob(x, effects[j])
  BY DEF CallsOK
<1>2. CASE Work(j)
  <2> DEFINE x2(outcome) == [x EXCEPT !.work = outcome]
  <2>1. PICK outcome \in {"PASS", "failed"} : SetJob(j, x2(outcome))
    BY <1>2 DEF Work
  <2>2. /\ x2(outcome) \in JobState
        /\ x2(outcome).phase = x.phase /\ x2(outcome).result = x.result /\ x2(outcome).work = outcome
    BY <1>1, <2>1 DEF JobState
  <2>3. SoundJob(x2(outcome), effects[j])
    BY <1>1, <1>2, <2>1, <2>2 DEF SoundJob, Work
  <2>4. Maps(JobAnswer(x), effects[j], JobAnswer(x2(outcome)), effects[j])
    BY <2>2 DEF Maps, Stutters, JobAnswer
  <2> QED BY <1>2, <2>1, <2>3, <2>4, JobMoves DEF Work
<1>3. CASE AskWork(j)
  <2> DEFINE x2 == [x EXCEPT !.told = x.work]
  <2>1. /\ x2 \in JobState
        /\ x2.phase = x.phase /\ x2.result = x.result /\ x2.work = x.work
    BY <1>1 DEF JobState
  <2>2. SoundJob(x2, effects[j])
    BY <1>1, <2>1 DEF SoundJob
  <2>3. Maps(JobAnswer(x), effects[j], JobAnswer(x2), effects[j])
    BY <2>1 DEF Maps, Stutters, JobAnswer
  <2> QED BY <1>3, <2>2, <2>3, JobMoves DEF AskWork
<1> QED BY <1>2, <1>3

\* One step per action of a chat that was configured.
LEMMA ThreadKeeps ==
  ASSUME CallsOK, CommonTypes, NEW c \in Chat, Thread(c)
  PROVE  Keeps
BY BeginKeeps, ObserveKeeps, CopyKeeps, CopyFailsKeeps, ExecuteKeeps, RunKeeps, RejectKeeps,
   ExecuteReturnsKeeps, CleanKeeps, CollectKeeps, PublishKeeps DEF Thread

LEMMA DetachedKeeps ==
  ASSUME CallsOK, NEW j \in Job, Detached(j)
  PROVE  Keeps
BY SubmitKeeps, SubmitRefusedKeeps, TakeKeeps, SubmittedKeeps, WorkKeeps, FabricAssumption DEF Detached

LEMMA CallsStep == CallsOK /\ CommonTypes /\ [Next]_vars => Keeps
<1> SUFFICES ASSUME CallsOK, CommonTypes, [Next]_vars PROVE Keeps
  OBVIOUS
<1>1. CASE Initialize
  BY <1>1, RestKeeps DEF Initialize
<1>2. CASE AskWorkers \/ CollectAnswers
  BY <1>2, RestKeeps DEF AskWorkers, CollectAnswers
<1>3. CASE \E w \in Remote : WorkerAnswers(w)
  BY <1>3, RestKeeps DEF WorkerAnswers
<1>4. CASE \E c \in Chat : Configure(c)
  BY <1>4, ConfigureKeeps
<1>5. CASE \E c \in Chat : Thread(c)
  BY <1>5, ThreadKeeps
<1>6. CASE \E c \in Chat : RunLate(c)
  BY <1>6, RunLateKeeps
<1>7. CASE \E j \in Job : Detached(j)
  BY <1>7, DetachedKeeps
<1>8. CASE UNCHANGED vars
  BY <1>8, RestKeeps DEF vars
<1> QED BY <1>1, <1>2, <1>3, <1>4, <1>5, <1>6, <1>7, <1>8 DEF Next

\* Where a chat's request may lie: in any root until the chat cleans up, then in
\* those it has not come to; a copy that failed leaves it.
Holds(x, r) ==
  \/ x.phase \in {"copying", "sent"}
  \/ x.phase = "cleaning" /\ x.at < r
  \/ x.phase \in {"returned", "done"} /\ x.result = "raised"

RootsOK ==
  /\ root \in [Root -> Chat \cup {NoChat}]
  /\ \A r \in Root : root[r] # NoChat => r <= config.roots /\ Holds(chat[root[r]], r)

\* What a chat that has the session to itself finds there.
Own(c, x, record) ==
  /\ x.under \in {c, NoChat}
  /\ x.phase \in {"probing", "copying", "sent", "cleaning"} => record = NoChat
  /\ x.phase = "returned" /\ x.result # "refused" => record \in {c, NoChat}

Active(x) == x.phase \notin {"idle", "done"}

RecordOK ==
  /\ \A c \in Chat : chat[c].phase = "idle" => chat[c].under = NoChat
  /\ \A c \in Chat \ overlapped : Active(chat[c]) =>
       /\ \A d \in Chat \ {c} : ~Active(chat[d])
       /\ context = c
       /\ Own(c, chat[c], lastRecord)

Others(c) == \A d \in Chat \ {c} : chat'[d] = chat[d]

\* A chat adds its request to a root, or a root is cleared; and where the request
\* of the chat lies afterwards, it may.
RootsGrow(c) ==
  /\ root' \in [Root -> Chat \cup {NoChat}]
  /\ \A r \in Root : root'[r] \in {root[r], NoChat} \/ (root'[r] = c /\ r <= config.roots)
RootsHeld(c) == \A r \in Root : root'[r] = c /\ r <= config.roots => Holds(chat'[c], r)

\* Roots of others keep what they hold; a chat adds its request, or it is removed.
LEMMA RootsMove ==
  ASSUME RootsOK, CommonTypes, NEW c \in Chat, Others(c), config' = config,
         RootsGrow(c), RootsHeld(c)
  PROVE  RootsOK'
<1> SUFFICES ASSUME NEW r \in Root, root'[r] # NoChat
             PROVE  r <= config.roots /\ Holds(chat'[root'[r]], r)
  BY DEF RootsOK, RootsGrow
<1>1. CASE root'[r] = c
  <2>1. r <= config.roots
    BY <1>1, FabricAssumption DEF RootsOK, RootsGrow
  <2> QED BY <1>1, <2>1 DEF RootsHeld
<1>2. CASE root'[r] # c
  <2>1. root'[r] = root[r] /\ root[r] \in Chat
    BY <1>2 DEF RootsOK, RootsGrow
  <2> QED BY <1>2, <2>1 DEF RootsOK, Others
<1> QED BY <1>1, <1>2

\* A chat under way goes on: whoever has the session to itself is that chat.
LEMMA RecordMove ==
  ASSUME RecordOK, NEW c \in Chat, Others(c), Active(chat[c]),
         UNCHANGED <<context, overlapped>>,
         chat'[c].phase # "idle",
         Own(c, chat[c], lastRecord) /\ Active(chat'[c]) => Own(c, chat'[c], lastRecord')
  PROVE  RecordOK'
<1>1. \A d \in Chat : chat'[d].phase = "idle" => chat'[d].under = NoChat
  BY DEF RecordOK, Others
<1>2. ASSUME NEW d \in Chat \ overlapped, Active(chat'[d])
      PROVE  /\ \A e \in Chat \ {d} : ~Active(chat'[e])
             /\ context = d
             /\ Own(d, chat'[d], lastRecord')
  <2>1. Active(chat[d])
    BY <1>2 DEF Others
  <2>2. d = c
    BY <1>2, <2>1 DEF RecordOK
  <2>3. \A e \in Chat \ {c} : ~Active(chat'[e])
    BY <1>2, <2>1, <2>2 DEF RecordOK, Others
  <2>4. Own(c, chat'[c], lastRecord')
    BY <1>2, <2>1, <2>2 DEF RecordOK
  <2> QED BY <1>2, <2>1, <2>2, <2>3, <2>4 DEF RecordOK
<1> QED BY <1>1, <1>2 DEF RecordOK

\* What a step of a chat under way does to the roots and to the record.
LEMMA ThreadLeaves ==
  ASSUME CallsOK, CommonTypes, RootsOK, RecordOK, NEW c \in Chat, Thread(c)
  PROVE  RootsOK' /\ RecordOK'
<1> DEFINE x == chat[c]
<1>0. x \in ChatState /\ SoundChat(x, effects[c]) /\ chat \in [Chat -> ChatState]
  BY DEF CallsOK
<1>a. UNCHANGED <<config, context, overlapped>>
  BY DEF Thread, Begin, Observe, Copy, CopyFails, Execute, RunModel, Reject, ExecuteReturns, Clean,
         Collect, Publish, sessionVars, recordVars
<1>b. Others(c) /\ Active(x)
  BY <1>0 DEF Thread, Begin, Observe, Copy, CopyFails, Execute, RunModel, Reject, ExecuteReturns, Clean,
         Collect, Publish, SetChat, Others, Active
<1>c. ASSUME root' = root,
             \A r \in Root : r <= config.roots /\ Holds(x, r) => Holds(chat'[c], r)
      PROVE  RootsOK'
  <2>1. RootsHeld(c)
    BY <1>c, FabricAssumption DEF RootsOK, RootsHeld
  <2>2. RootsGrow(c)
    BY <1>c DEF RootsOK, RootsGrow
  <2> QED BY <1>a, <1>b, <2>1, <2>2, RootsMove
<1>d. ASSUME chat'[c].phase # "idle",
             Own(c, x, lastRecord) /\ Active(chat'[c]) => Own(c, chat'[c], lastRecord')
      PROVE  RecordOK'
  BY <1>a, <1>b, <1>d, RecordMove
<1>1. CASE Begin(c)
  <2>1. /\ x.phase = "configured" /\ chat'[c].under = x.under /\ root' = root
        /\ \/ chat'[c].phase = "probing" /\ lastRecord' = NoChat
           \/ chat'[c].phase = "returned" /\ chat'[c].result = "refused"
    <3>1. CASE Usable
      BY <1>0, <1>1, <3>1 DEF Begin, SetChat, ChatState
    <3>2. CASE ~Usable
      <4>1. SetChat(c, [x EXCEPT !.phase = "returned", !.result = "refused"])
        BY <1>1, <3>2 DEF Begin
      <4>2. chat'[c] = [x EXCEPT !.phase = "returned", !.result = "refused"]
        BY <1>0, <4>1 DEF SetChat
      <4>3. x.phase = "configured" /\ root' = root
        BY <1>1 DEF Begin
      <4> QED BY <1>0, <4>2, <4>3 DEF ChatState
    <3> QED BY <3>1, <3>2
  <2>2. \A r \in Root : Holds(x, r) => Holds(chat'[c], r)
    BY <2>1 DEF Holds, Root
  <2>3. Own(c, x, lastRecord) /\ Active(chat'[c]) => Own(c, chat'[c], lastRecord')
    BY <2>1 DEF Own, Active
  <2> QED BY <1>c, <1>d, <2>1, <2>2, <2>3
<1>2. CASE Observe(c)
  <2>1. /\ x.phase = "probing" /\ chat'[c].phase = "copying" /\ chat'[c].under = x.under
        /\ lastRecord' = lastRecord /\ root' = root
    BY <1>0, <1>2 DEF Observe, SetChat, ChatState, recordVars
  <2>2. \A r \in Root : Holds(x, r) => Holds(chat'[c], r)
    BY <2>1 DEF Holds, Root
  <2>3. Own(c, x, lastRecord) /\ Active(chat'[c]) => Own(c, chat'[c], lastRecord')
    BY <2>1 DEF Own, Active
  <2> QED BY <1>c, <1>d, <2>1, <2>2, <2>3
<1>3. CASE Copy(c)
  <2>1. /\ x.phase = "copying" /\ chat'[c].phase = "copying" /\ chat'[c].under = x.under
        /\ lastRecord' = lastRecord
    BY <1>0, <1>3 DEF Copy, SetChat, ChatState, recordVars
  <2> DEFINE n == x.at + 1
  <2>2. n \in Root /\ n <= config.roots
    <3>1. x.at \in 0..2
      BY <1>0 DEF ChatState
    <3>2. x.at < config.roots
      BY <1>3 DEF Copy
    <3> QED BY <3>1, <3>2 DEF CommonTypes, Root
  <2>3. root' = [root EXCEPT ![n] = c]
    BY <1>3 DEF Copy
  <2> HIDE DEF n
  <2>4. root' \in [Root -> Chat \cup {NoChat}]
    BY <2>3 DEF RootsOK
  <2>5. \A r \in Root : root'[r] \in {root[r], NoChat} \/ (root'[r] = c /\ r <= config.roots)
    BY <2>2, <2>3 DEF RootsOK
  <2>6. RootsOK'
    <3>1. RootsGrow(c)
      BY <2>4, <2>5 DEF RootsGrow
    <3>2. RootsHeld(c)
      BY <2>1 DEF RootsHeld, Holds
    <3> QED BY <1>a, <1>b, <3>1, <3>2, RootsMove
  <2>7. Own(c, x, lastRecord) => Own(c, chat'[c], lastRecord')
    BY <2>1 DEF Own
  <2> QED BY <1>d, <2>1, <2>6, <2>7
<1>4. CASE CopyFails(c)
  <2>1. /\ x.phase = "copying" /\ chat'[c].phase = "returned" /\ chat'[c].result = "raised"
        /\ chat'[c].under = x.under /\ lastRecord' = lastRecord
    BY <1>0, <1>4 DEF CopyFails, SetChat, ChatState, recordVars
  <2> DEFINE n == x.at + 1
  <2>2. n \in Root /\ n <= config.roots
    <3>1. x.at \in 0..2
      BY <1>0 DEF ChatState
    <3>2. x.at < config.roots
      BY <1>4 DEF CopyFails
    <3> QED BY <3>1, <3>2 DEF CommonTypes, Root
  <2>3. root' \in {root, [root EXCEPT ![n] = c]}
    BY <1>4 DEF CopyFails
  <2> HIDE DEF n
  <2>4. root' \in [Root -> Chat \cup {NoChat}]
    BY <2>3 DEF RootsOK
  <2>5. \A r \in Root : root'[r] \in {root[r], NoChat} \/ (root'[r] = c /\ r <= config.roots)
    BY <2>2, <2>3 DEF RootsOK
  <2>6. RootsOK'
    <3>1. RootsGrow(c)
      BY <2>4, <2>5 DEF RootsGrow
    <3>2. RootsHeld(c)
      BY <2>1 DEF RootsHeld, Holds
    <3> QED BY <1>a, <1>b, <3>1, <3>2, RootsMove
  <2>7. Own(c, x, lastRecord) => Own(c, chat'[c], lastRecord')
    BY <2>1 DEF Own
  <2> QED BY <1>d, <2>1, <2>6, <2>7
<1>5. CASE Execute(c)
  <2>1. /\ x.phase = "copying" /\ chat'[c].phase = "sent" /\ chat'[c].under = context
        /\ lastRecord' = lastRecord /\ root' = root
    BY <1>0, <1>5 DEF Execute, SetChat, ChatState, recordVars
  <2>2. \A r \in Root : Holds(x, r) => Holds(chat'[c], r)
    BY <2>1 DEF Holds
  <2>3. RecordOK'
    <3>1. CASE c \in overlapped
      <4>1. \A d \in Chat \ overlapped : ~Active(chat[d])
        BY <1>b, <3>1 DEF RecordOK
      <4>2. \A d \in Chat \ overlapped : ~Active(chat'[d])
        BY <1>b, <3>1, <4>1 DEF Others
      <4> QED BY <1>a, <1>b, <2>1, <4>2 DEF RecordOK, Others
    <3>2. CASE c \notin overlapped
      <4>1. context = c
        BY <1>b, <3>2 DEF RecordOK
      <4>2. Own(c, x, lastRecord) => Own(c, chat'[c], lastRecord')
        BY <2>1, <4>1 DEF Own
      <4> QED BY <1>d, <2>1, <4>2
    <3> QED BY <3>1, <3>2
  <2> QED BY <1>c, <2>1, <2>2, <2>3
<1>6. CASE RunModel(c)
  <2>1. /\ x.phase = "sent" /\ chat'[c].phase = "sent" /\ chat'[c].under = x.under
        /\ lastRecord' = lastRecord /\ root' = root
    BY <1>0, <1>6 DEF RunModel, SetChat, ChatState, recordVars
  <2>2. \A r \in Root : Holds(x, r) => Holds(chat'[c], r)
    BY <2>1 DEF Holds, Root
  <2>3. Own(c, x, lastRecord) /\ Active(chat'[c]) => Own(c, chat'[c], lastRecord')
    BY <2>1 DEF Own, Active
  <2> QED BY <1>c, <1>d, <2>1, <2>2, <2>3
<1>7. CASE Reject(c)
  <2>1. /\ x.phase = "sent" /\ chat'[c].phase = "sent" /\ chat'[c].under = x.under
        /\ lastRecord' = lastRecord /\ root' = root
    BY <1>0, <1>7 DEF Reject, SetChat, ChatState, recordVars
  <2>2. \A r \in Root : Holds(x, r) => Holds(chat'[c], r)
    BY <2>1 DEF Holds, Root
  <2>3. Own(c, x, lastRecord) /\ Active(chat'[c]) => Own(c, chat'[c], lastRecord')
    BY <2>1 DEF Own, Active
  <2> QED BY <1>c, <1>d, <2>1, <2>2, <2>3
<1>8. CASE ExecuteReturns(c)
  <2>1. /\ x.phase = "sent" /\ chat'[c].phase = "cleaning" /\ chat'[c].at = 0 /\ chat'[c].under = x.under
        /\ lastRecord' = lastRecord /\ root' = root
    <3>1. x.phase = "sent" /\ x.at = 0 /\ UNCHANGED <<root, lastRecord>>
      BY <1>0, <1>8 DEF ExecuteReturns, SoundChat, recordVars
    <3>2. CASE SetChat(c, [chat[c] EXCEPT !.phase = "cleaning"])
      BY <1>0, <3>1, <3>2 DEF SetChat, ChatState
    <3>3. CASE SetChat(c, [chat[c] EXCEPT !.phase = "cleaning", !.result = "lost",
                                         !.late = chat[c].result = ""])
      BY <1>0, <3>1, <3>3 DEF SetChat, ChatState
    <3> QED BY <1>8, <3>2, <3>3 DEF ExecuteReturns
  <2>2. \A r \in Root : Holds(x, r) => Holds(chat'[c], r)
    BY <2>1 DEF Holds, Root
  <2>3. Own(c, x, lastRecord) /\ Active(chat'[c]) => Own(c, chat'[c], lastRecord')
    BY <2>1 DEF Own, Active
  <2> QED BY <1>c, <1>d, <2>1, <2>2, <2>3
<1>9. CASE Clean(c)
  <2> DEFINE n == x.at + 1
  <2>1. x.at \in 0..2 /\ n \in Root
    <3>1. x.at \in 0..2
      BY <1>0 DEF ChatState
    <3>2. x.at < config.roots
      BY <1>9 DEF Clean
    <3> QED BY <3>1, <3>2 DEF CommonTypes, Root
  <2>2. root' = [root EXCEPT ![n] = NoChat] /\ SetChat(c, [x EXCEPT !.at = n])
    BY <1>9 DEF Clean
  <2>3. \A r \in Root : x.at < r => r = n \/ n < r
    BY <2>1 DEF Root
  <2> HIDE DEF n
  <2>4. /\ x.phase = "cleaning" /\ chat'[c].phase = "cleaning" /\ chat'[c].under = x.under
        /\ chat'[c].at = n /\ lastRecord' = lastRecord
    <3>1. x.phase = "cleaning" /\ lastRecord' = lastRecord
      BY <1>9 DEF Clean, recordVars
    <3>2. chat'[c] = [x EXCEPT !.at = n]
      BY <1>0, <2>2 DEF SetChat
    <3> QED BY <1>0, <3>1, <3>2 DEF ChatState
  <2>5. /\ root' \in [Root -> Chat \cup {NoChat}]
        /\ \A r \in Root : root'[r] \in {root[r], NoChat}
        /\ root'[n] = NoChat
    BY <2>1, <2>2 DEF RootsOK
  <2>6. ASSUME NEW r \in Root, root'[r] = c PROVE Holds(chat'[c], r)
    <3>1. root[r] = c /\ r # n
      BY <2>5, <2>6, FabricAssumption
    <3>2. Holds(x, r)
      BY <3>1, FabricAssumption DEF RootsOK
    <3> QED BY <2>3, <2>4, <3>1, <3>2 DEF Holds
  <2>7. RootsOK'
    <3>1. RootsGrow(c)
      BY <2>5 DEF RootsGrow
    <3>2. RootsHeld(c)
      BY <2>6 DEF RootsHeld
    <3> QED BY <1>a, <1>b, <3>1, <3>2, RootsMove
  <2>8. Own(c, x, lastRecord) => Own(c, chat'[c], lastRecord')
    BY <2>4 DEF Own
  <2> QED BY <1>d, <2>4, <2>7, <2>8
<1>10. CASE Collect(c)
  <2>1. /\ x.phase = "cleaning" /\ x.at = config.roots /\ chat'[c].phase = "returned"
        /\ chat'[c].under = x.under /\ lastRecord' \in {lastRecord, NoChat, c} /\ root' = root
    BY <1>0, <1>10 DEF Collect, SetChat, ChatState
  <2>2. \A r \in Root : r <= config.roots => ~Holds(x, r)
    BY <2>1 DEF Holds, CommonTypes, Root
  <2>3. Own(c, x, lastRecord) => Own(c, chat'[c], lastRecord')
    BY <2>1 DEF Own
  <2> QED BY <1>c, <1>d, <2>1, <2>2, <2>3
<1>11. CASE Publish(c)
  <2>1. /\ x.phase = "returned" /\ chat'[c].phase = "done" /\ chat'[c].result = x.result
        /\ root' = root
    BY <1>0, <1>11 DEF Publish, SetChat, ChatState, recordVars
  <2>2. \A r \in Root : Holds(x, r) => Holds(chat'[c], r)
    BY <2>1 DEF Holds, Root
  <2>3. Own(c, x, lastRecord) /\ Active(chat'[c]) => Own(c, chat'[c], lastRecord')
    BY <2>1 DEF Own, Active
  <2> QED BY <1>c, <1>d, <2>1, <2>2, <2>3
<1> QED BY <1>1, <1>2, <1>3, <1>4, <1>5, <1>6, <1>7, <1>8, <1>9, <1>10, <1>11 DEF Thread

\* A run that is configured takes the session over, and shares it with whoever is there.
LEMMA ConfigureLeaves ==
  ASSUME CallsOK, CommonTypes, RootsOK, RecordOK, NEW c \in Chat, Configure(c)
  PROVE  RootsOK' /\ RecordOK'
<1>0. chat[c] \in ChatState /\ chat \in [Chat -> ChatState]
  BY DEF CallsOK
<1>1. /\ chat[c].phase = "idle" /\ chat'[c].phase = "configured" /\ chat'[c].under = chat[c].under
      /\ Others(c) /\ root' = root /\ config' = config /\ context' = c
  BY <1>0 DEF Configure, SetChat, ChatState, Others, sessionVars
<1>2. RootsOK'
  <2>1. \A r \in Root : root[r] # c
    BY <1>1, FabricAssumption DEF RootsOK, Holds
  <2>2. RootsGrow(c) /\ RootsHeld(c)
    BY <1>1, <2>1 DEF RootsGrow, RootsHeld, RootsOK
  <2> QED BY <1>1, <2>2, RootsMove
<1>3. RecordOK'
  <2>1. \A d \in Chat : chat'[d].phase = "idle" => chat'[d].under = NoChat
    BY <1>1 DEF RecordOK, Others
  <2>2. ASSUME NEW d \in Chat \ overlapped', Active(chat'[d])
        PROVE  /\ \A e \in Chat \ {d} : ~Active(chat'[e])
               /\ context' = d
               /\ Own(d, chat'[d], lastRecord')
    <3> DEFINE others == {e \in Chat : UnderWay(e)}
    <3>1. others = {}
      BY <1>1, <2>2 DEF Configure, Others, UnderWay, Active
    <3>2. \A e \in Chat : ~Active(chat[e])
      BY <3>1 DEF UnderWay, Active
    <3>3. d = c
      BY <1>1, <2>2, <3>2 DEF Others
    <3>4. Own(c, chat'[c], lastRecord')
      BY <1>1 DEF Own, RecordOK
    <3> QED BY <1>1, <3>2, <3>3, <3>4 DEF Others
  <2> QED BY <2>1, <2>2 DEF RecordOK
<1> QED BY <1>2, <1>3

\* What runs late, and what other processes do, leaves the session alone.
LEMMA RunLateLeaves ==
  ASSUME CallsOK, CommonTypes, RootsOK, RecordOK, NEW c \in Chat, RunLate(c)
  PROVE  RootsOK' /\ RecordOK'
<1>0. chat[c] \in ChatState /\ chat \in [Chat -> ChatState]
  BY DEF CallsOK
<1>1. /\ chat'[c].phase = chat[c].phase /\ chat'[c].result = chat[c].result
      /\ chat'[c].at = chat[c].at /\ chat'[c].under = chat[c].under
      /\ Others(c) /\ root' = root /\ UNCHANGED <<config, context, lastRecord, overlapped>>
  BY <1>0 DEF RunLate, SetChat, ChatState, Others, sessionVars, recordVars
<1>2. \A d \in Chat : /\ Active(chat'[d]) <=> Active(chat[d])
                      /\ \A r \in Root : Holds(chat[d], r) => Holds(chat'[d], r)
                      /\ Own(d, chat[d], lastRecord) => Own(d, chat'[d], lastRecord')
                      /\ chat'[d].phase = "idle" => chat[d].phase = "idle" /\ chat'[d].under = chat[d].under
  BY <1>1 DEF Others, Active, Holds, Own
<1>3. RootsOK'
  BY <1>1, <1>2 DEF RootsOK
<1>4. RecordOK'
  BY <1>1, <1>2 DEF RecordOK
<1> QED BY <1>3, <1>4

LEMMA RestLeaves ==
  ASSUME RootsOK, RecordOK, UNCHANGED <<config, context, lastRecord, overlapped, root, chat>>
  PROVE  RootsOK' /\ RecordOK'
BY DEF RootsOK, RecordOK

IInv == CallsOK /\ CommonTypes /\ RootsOK /\ RecordOK

LEMMA InitIInv == Init => IInv /\ Fabric!Init
<1> SUFFICES ASSUME Init PROVE IInv /\ Fabric!Init
  OBVIOUS
<1>1. IdleChat \in ChatState /\ SoundChat(IdleChat, 0)
  <2>1. 0 \in 0..2
    OBVIOUS
  <2> QED BY <2>1 DEF IdleChat, ChatState, SoundChat
<1>2. IdleJob \in JobState /\ SoundJob(IdleJob, 0)
  <2>1. 0 \in 0..MaxRetries
    BY FabricAssumption
  <2> QED BY <2>1 DEF IdleJob, JobState, SoundJob
<1>3. CallsOK
  BY <1>1, <1>2 DEF CallsOK, Init
<1>4. CommonTypes
  BY FabricAssumption DEF CommonTypes, Init, Config
<1>5. RootsOK
  BY DEF RootsOK, Init
<1>6. RecordOK
  BY DEF RecordOK, Init, IdleChat, Active
<1>7. \A c \in Chat \cup Job : AnswerOf(c) = "none"
  BY DEF Init, AnswerOf, ChatAnswer, JobAnswer, IdleChat, IdleJob
<1> QED BY <1>3, <1>4, <1>5, <1>6, <1>7 DEF IInv, Fabric!Init, Init

LEMMA StepIInv == IInv /\ [Next]_vars => IInv' /\ Implements
<1> SUFFICES ASSUME IInv, [Next]_vars PROVE IInv' /\ Implements
  OBVIOUS
<1>1. CallsOK' /\ Implements
  BY CallsStep DEF IInv, Keeps
<1>2. CommonTypes'
  <2>1. config' = config
    BY DEF Next, Initialize, AskWorkers, CollectAnswers, WorkerAnswers, Configure, Thread, Begin, Observe,
           Copy, CopyFails, Execute, RunModel, Reject, ExecuteReturns, Clean, Collect, Publish, RunLate,
           Detached, Submit, SubmitRefused, Take, Submitted, Work, AskWork, sessionVars, vars
  <2>2. context' \in Chat \cup {NoChat}
    BY DEF IInv, CommonTypes, Next, Initialize, AskWorkers, CollectAnswers, WorkerAnswers, Configure, Thread,
           Begin, Observe, Copy, CopyFails, Execute, RunModel, Reject, ExecuteReturns, Clean, Collect,
           Publish, RunLate, Detached, Submit, SubmitRefused, Take, Submitted, Work, AskWork, recordVars, vars
  <2> QED BY <2>1, <2>2 DEF IInv, CommonTypes
<1>3. RootsOK' /\ RecordOK'
  <2>1. CASE Initialize
    BY <2>1, RestLeaves DEF IInv, Initialize, recordVars
  <2>2. CASE AskWorkers \/ CollectAnswers
    BY <2>2, RestLeaves DEF IInv, AskWorkers, CollectAnswers, sessionVars, recordVars
  <2>3. CASE \E w \in Remote : WorkerAnswers(w)
    BY <2>3, RestLeaves DEF IInv, WorkerAnswers, sessionVars, recordVars
  <2>4. CASE \E c \in Chat : Configure(c)
    BY <2>4, ConfigureLeaves DEF IInv
  <2>5. CASE \E c \in Chat : Thread(c)
    BY <2>5, ThreadLeaves DEF IInv
  <2>6. CASE \E c \in Chat : RunLate(c)
    BY <2>6, RunLateLeaves DEF IInv
  <2>7. CASE \E j \in Job : Detached(j)
    BY <2>7, RestLeaves DEF IInv, Detached, Submit, SubmitRefused, Take, Submitted, Work, AskWork,
                            sessionVars, recordVars
  <2>8. CASE UNCHANGED vars
    BY <2>8, RestLeaves DEF IInv, vars, sessionVars, recordVars
  <2> QED BY <2>1, <2>2, <2>3, <2>4, <2>5, <2>6, <2>7, <2>8 DEF Next
<1> QED BY <1>1, <1>2, <1>3 DEF IInv

\* However chats overlap, a request is left in a bundle root only by a copy that failed.
THEOREM NothingLeftInRoots == Spec => []RootsAreCleared
<1>1. IInv => RootsAreCleared
  BY DEF IInv, RootsOK, Holds, RootsAreCleared
<1> QED BY InitIInv, StepIInv, <1>1, PTL DEF Spec

\* A run that had the session to itself ran under its own provenance, and reads back
\* its own record or none.
THEOREM OwnRecord == Spec => []RecordIsOwn
<1>1. IInv => RecordIsOwn
  BY DEF IInv, RecordOK, Own, Active, RecordIsOwn
<1> QED BY InitIInv, StepIInv, <1>1, PTL DEF Spec

\* Chats and submissions are RemoteCalls: a success was carried out once, what was
\* refused never is, and a repeated submission is not carried out twice.
THEOREM KeepsContract == Spec => Contract
<1>1. IInv /\ [Next]_vars => IInv' /\ [Fabric!Next]_(Fabric!vars)
  BY StepIInv DEF Implements
<1> QED BY InitIInv, <1>1, PTL DEF Spec, Contract, Fabric!Spec
-----------------------------------------------------------------------------
\* The terminal interface (Console).
ThreadsOK ==
  /\ thread \in [Task -> Stage]
  /\ busy \in BOOLEAN

\* A worker is cancelled only after it was started: a thread started later is
\* never born cancelled.
CancelledStarted == cancelled \subseteq {t \in Task : thread[t] # "idle"}

ConsoleInv == ThreadsOK /\ CancelledStarted /\ BusyMeansWorking

\* A thread that starts is the one that will enable the buttons.
LEMMA StartKeeps ==
  ASSUME ConsoleInv, NEW t \in Task, Start(t)
  PROVE  ConsoleInv'
<1>1. thread[t] = "idle" /\ thread' = [thread EXCEPT ![t] = "running"]
  BY DEF Start, SetThread
<1>2. ThreadsOK'
  BY <1>1 DEF ConsoleInv, ThreadsOK, Start, Stage
<1>3. t \notin cancelled'
  BY <1>1 DEF ConsoleInv, CancelledStarted, Start, Live, Group
<1>4. CancelledStarted'
  <2>1. SUFFICES ASSUME NEW u \in cancelled' PROVE u \in Task /\ thread'[u] # "idle"
    BY DEF CancelledStarted
  <2>2. u \in Task /\ thread[u] # "idle"
    BY DEF ConsoleInv, CancelledStarted, Start, Live, Group, Task
  <2> QED BY <1>1, <2>2 DEF ConsoleInv, ThreadsOK
<1>5. thread'[t] = "running"
  BY <1>1 DEF ConsoleInv, ThreadsOK
<1>6. BusyMeansWorking'
  BY <1>3, <1>5 DEF BusyMeansWorking, Live
<1> QED BY <1>2, <1>4, <1>6 DEF ConsoleInv

\* A thread that goes on is still at work, or was cancelled.
LEMMA StageKeeps ==
  ASSUME ConsoleInv, NEW t \in Task, Live(t), NEW s \in Stage \ {"idle"}, SetThread(t, s),
         UNCHANGED <<busy, cancelled>>,
         s = "done" => t \in cancelled
  PROVE  ConsoleInv'
<1>1. thread' = [thread EXCEPT ![t] = s]
  BY DEF SetThread
<1>2. ThreadsOK'
  BY <1>1 DEF ConsoleInv, ThreadsOK
<1>3. CancelledStarted'
  BY <1>1 DEF ConsoleInv, ThreadsOK, CancelledStarted
<1>4. ASSUME busy PROVE \E u \in Task : thread'[u] \notin {"idle", "done"} /\ u \notin cancelled
  <2>1. PICK u \in Task : Live(u) /\ u \notin cancelled
    BY <1>4 DEF ConsoleInv, BusyMeansWorking
  <2>2. CASE u = t
    BY <1>1, <2>1, <2>2 DEF ConsoleInv, ThreadsOK, Live
  <2>3. CASE u # t
    BY <1>1, <2>1, <2>3 DEF ConsoleInv, ThreadsOK, Live
  <2> QED BY <2>2, <2>3
<1>5. BusyMeansWorking'
  BY <1>4 DEF BusyMeansWorking, Live
<1> QED BY <1>2, <1>3, <1>5 DEF ConsoleInv

\* Whoever enables the buttons owes nothing.
LEMMA EnablingKeeps ==
  ASSUME ConsoleInv, busy' = FALSE, thread' \in [Task -> Stage],
         cancelled' \subseteq {t \in Task : thread'[t] # "idle"}
  PROVE  ConsoleInv'
BY DEF ConsoleInv, ThreadsOK, CancelledStarted, BusyMeansWorking

\* A thread that ends on the event loop enables the buttons.
LEMMA EndingKeeps ==
  ASSUME ConsoleInv, NEW t \in Task, SetThread(t, "done"), busy' = FALSE, UNCHANGED cancelled
  PROVE  ConsoleInv'
<1>1. thread' = [thread EXCEPT ![t] = "done"]
  BY DEF SetThread
<1>2. thread' \in [Task -> Stage]
  BY <1>1 DEF ConsoleInv, ThreadsOK, Stage
<1>3. cancelled' \subseteq {u \in Task : thread'[u] # "idle"}
  BY <1>1 DEF ConsoleInv, ThreadsOK, CancelledStarted
<1> QED BY <1>2, <1>3, EnablingKeeps

\* What touches neither the threads nor the buttons disturbs nothing.
LEMMA OthersKeep ==
  ASSUME ConsoleInv, UNCHANGED <<busy, thread, cancelled>>
  PROVE  ConsoleInv'
BY DEF ConsoleInv, ThreadsOK, CancelledStarted, BusyMeansWorking, Live

LEMMA CheckKeeps ==
  ASSUME ConsoleInv, NEW t \in Task, Check(t)
  PROVE  ConsoleInv'
<1> DEFINE s == IF t \in cancelled THEN "done" ELSE "checked"
<1>1. Live(t) /\ SetThread(t, s) /\ UNCHANGED <<busy, cancelled>>
  BY DEF Check, Live
<1>2. s \in Stage \ {"idle"} /\ (s = "done" => t \in cancelled)
  BY DEF Stage
<1> HIDE DEF s
<1> QED BY <1>1, <1>2, StageKeeps

\* One step per action of a run's thread.
LEMMA RunStepKeeps ==
  ASSUME ConsoleInv, NEW r \in Run, RunStep(r)
  PROVE  ConsoleInv'
<1>0. r \in Task
  BY DEF Task
<1>1. CASE EndRun(r)
  <2>1. PICK s \in {"raised", "returned"} : SetThread(r, s)
    BY <1>1 DEF EndRun
  <2>2. s \in Stage \ {"idle"} /\ s # "done"
    BY <2>1 DEF Stage
  <2>3. Live(r) /\ UNCHANGED <<busy, cancelled>>
    BY <1>1 DEF EndRun, Live
  <2> QED BY <1>0, <2>1, <2>2, <2>3, StageKeeps
<1>2. CASE Check(r)
  BY <1>0, <1>2, CheckKeeps
<1>3. CASE Display(r)
  BY <1>0, <1>3, EndingKeeps DEF Display
<1>4. CASE ShowError(r)
  BY <1>0, <1>4, EndingKeeps DEF ShowError
<1> QED BY <1>1, <1>2, <1>3, <1>4 DEF RunStep

\* One step per action of an inspection's thread.
LEMMA InspectionStepKeeps ==
  ASSUME ConsoleInv, NEW i \in Inspection, InspectionStep(i)
  PROVE  ConsoleInv'
<1>0. i \in Task
  BY DEF Task
<1>1. CASE RefreshInventory(i)
  <2>1. Live(i) /\ SetThread(i, "refreshed") /\ UNCHANGED <<busy, cancelled>>
    BY <1>1 DEF RefreshInventory, Live
  <2>2. "refreshed" \in Stage \ {"idle"}
    BY DEF Stage
  <2> QED BY <1>0, <2>1, <2>2, StageKeeps
<1>2. CASE EndInspection(i)
  <2>1. PICK s \in {"raised", "returned"} : SetThread(i, s)
    BY <1>2 DEF EndInspection
  <2>2. s \in Stage \ {"idle"} /\ s # "done"
    BY <2>1 DEF Stage
  <2>3. Live(i) /\ UNCHANGED <<busy, cancelled>>
    BY <1>2 DEF EndInspection, Live
  <2> QED BY <1>0, <2>1, <2>2, <2>3, StageKeeps
<1>3. CASE Check(i)
  BY <1>0, <1>3, CheckKeeps
<1>4. CASE Finish(i)
  BY <1>0, <1>4, EndingKeeps DEF Finish
<1>5. CASE ShowError(i)
  BY <1>0, <1>5, EndingKeeps DEF ShowError
<1> QED BY <1>1, <1>2, <1>3, <1>4, <1>5 DEF InspectionStep

LEMMA InitConsoleInv == ConsoleInit => ConsoleInv
BY DEF ConsoleInit, ConsoleInv, ThreadsOK, Stage, CancelledStarted, BusyMeansWorking

LEMMA StepConsoleInv == ConsoleInv /\ [ConsoleNext]_consoleVars => ConsoleInv'
<1> SUFFICES ASSUME ConsoleInv, [ConsoleNext]_consoleVars PROVE ConsoleInv'
  OBVIOUS
<1>1. CASE \E mode \in Mode : PickMode(mode)
  BY <1>1, OthersKeep DEF PickMode
<1>2. CASE \E w \in Worker : PickWorker(w)
  BY <1>2, OthersKeep DEF PickWorker
<1>3. CASE \E m \in Model : PickModel(m)
  BY <1>3, OthersKeep DEF PickModel
<1>4. CASE \E r \in Run : Send(r)
  BY <1>4, StartKeeps DEF Send, Task
<1>5. CASE \E r \in Run : RunStep(r)
  BY <1>5, RunStepKeeps
<1>6. CASE \E i \in Inspection : Inspect(i)
  BY <1>6, StartKeeps DEF Inspect, Task
<1>7. CASE \E i \in Inspection : InspectionStep(i)
  BY <1>7, InspectionStepKeeps
<1>8. CASE Refuse
  BY <1>8, EnablingKeeps DEF Refuse, ConsoleInv, ThreadsOK, CancelledStarted
<1>9. CASE CancelWork
  <2>1. cancelled' \subseteq {t \in Task : thread'[t] # "idle"}
    BY <1>9 DEF CancelWork, ConsoleInv, CancelledStarted, Live
  <2>2. busy' = FALSE /\ thread' \in [Task -> Stage]
    BY <1>9 DEF CancelWork, ConsoleInv, ThreadsOK
  <2> QED BY <2>1, <2>2, EnablingKeeps
<1>10. CASE FleetChanges
  BY <1>10, OthersKeep DEF FleetChanges
<1>11. CASE UNCHANGED consoleVars
  BY <1>11, OthersKeep DEF consoleVars
<1> QED
  BY <1>1, <1>2, <1>3, <1>4, <1>5, <1>6, <1>7, <1>8, <1>9, <1>10, <1>11 DEF ConsoleNext

\* Whatever is sent, inspected, replaced and cancelled, and in whatever order
\* threads end, disabled buttons have a thread that will enable them.
THEOREM BusyIsEarned == ConsoleSpec => []BusyMeansWorking
<1>1. ConsoleInv => BusyMeansWorking
  BY DEF ConsoleInv
<1> QED BY InitConsoleInv, StepConsoleInv, <1>1, PTL DEF ConsoleSpec
=============================================================================
