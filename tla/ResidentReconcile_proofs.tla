---------------------- MODULE ResidentReconcile_proofs ----------------------
(***************************************************************************)
(* A worker reported warmed held its declared model while the              *)
(* reconciliation ran, and what is said of each warm is what RemoteCall    *)
(* promises: for every fleet, every pool and every number of               *)
(* reconciliations that overlap.                                           *)
(***************************************************************************)
EXTENDS ResidentReconcile, TLAPS, WellFoundedInduction

\* How far a warm got, against what its caller was told, how far the caller is and
\* how often the worker carried the warm out.
Answered == {"listing", "scanning", "probing", "publishing"}
Seen(t) == t.phase \in Answered \/ t.result = "warmed"

Sound(t, told, calling, n) ==
  /\ t.phase # "none" => calling # "idle"
  /\ t.phase = "queued" => calling = "waiting"
  /\ t.phase \in {"probing", "publishing"} => t.at \in Worker
  /\ t.phase = "done" <=> t.result # "none"
  /\ n = 1 => t.phase \in {"sent"} \cup Answered \/ t.result \in {"failed", "warmed"}
  /\ Seen(t) => n = 1
  /\ told \in {"none", "timeout", t.result}
  /\ told # "none" => t.phase # "none"

PairOK(c, w) ==
  /\ Sound(thread[c][w], call[c].told[w], call[c].phase, effects[<<c, w>>])
  /\ w \in call[c].pending <=> thread[c][w].phase # "none"
  /\ thread[c][w].phase # "none" => Chosen(w) \in Model
  /\ Seen(thread[c][w]) => w \in witness[c]

\* The history misses no moment: what a worker holds now was seen.
SeenOK(c, w) == call[c].phase # "idle" /\ Chosen(w) \in loaded[w] => w \in witness[c]

IInv == TypeOK /\ \A c \in Call, w \in Worker : PairOK(c, w) /\ SeenOK(c, w)

\* What a caller is told, of a warm alone.
Says(told, t, calling) ==
  IF told = "none" THEN "none"
  ELSE IF told = "warmed" THEN "ok"
  ELSE IF "refused" \in {told, t.result} \/ t.phase = "cancelled" THEN "refused"
  ELSE IF t.phase = "queued" THEN IF calling = "returned" THEN "refused" ELSE "none"
  ELSE "error"

\* A step of one warm as RemoteCall sees it.
Stutters(a, n, a2, n2) == a2 = a /\ n2 = n
Performs(a, n, a2, n2) == a \in {"none", "error"} /\ n = 0 /\ n2 = 1 /\ a2 = a
Tells(a, n, a2, n2) == /\ a = "none"
                       /\ n2 = n
                       /\ \/ a2 = "ok" /\ n = 1
                          \/ a2 = "refused" /\ n = 0
                          \/ a2 = "error"
Maps(a, n, a2, n2) == Stutters(a, n, a2, n2) \/ Performs(a, n, a2, n2) \/ Tells(a, n, a2, n2)

Keeps == IInv' /\ (Warming!Next \/ UNCHANGED Warming!vars)

-----------------------------------------------------------------------------
\* The least of the queued warms, or of the unresolved ones, is one of them.
LEMMA MinIsLeast ==
  ASSUME NEW S \in SUBSET Nat, S # {}
  PROVE  Min(S) \in S /\ \A n \in S : Min(S) =< n
<1> DEFINE R == {p \in Nat \X Nat : p[1] < p[2]}
<1>1. R = OpToRel(<, Nat)
  BY Zenon DEF OpToRel
<1>2. IsWellFoundedOn(R, Nat)
  BY <1>1, NatLessThanWellFounded, Zenon
<1>3. PICK m \in S : \A n \in S : ~(<<n, m>> \in R)
  <2> HIDE DEF R
  <2> QED BY <1>2, WFMin
<1>4. ASSUME NEW n \in S PROVE m =< n
  <2>1. m \in Nat /\ n \in Nat
    OBVIOUS
  <2>2. <<n, m>> \in R <=> n < m
    BY <2>1
  <2> QED BY <1>3, <2>1, <2>2
<1> QED BY <1>4 DEF Min

LEMMA AnswerSays ==
  /\ \A c, w : AnswerOf(c, w) = Says(call[c].told[w], thread[c][w], call[c].phase)
  /\ \A c, w : AnswerOf(c, w)' = Says(call'[c].told[w], thread'[c][w], call'[c].phase)
BY DEF AnswerOf, Says

\* What moves one warm as RemoteCall allows, and no other, is a step of RemoteCall.
LEMMA PairMaps ==
  ASSUME IInv, NEW c \in Call, NEW w \in Worker, NEW n2,
         effects' = [effects EXCEPT ![<<c, w>>] = n2],
         \A d \in Call, v \in Worker : <<d, v>> # <<c, w>> => AnswerOf(d, v)' = AnswerOf(d, v),
         Maps(AnswerOf(c, w), effects[<<c, w>>], AnswerOf(c, w)', n2)
  PROVE  Warming!Next \/ UNCHANGED Warming!vars
<1> DEFINE x == <<c, w>>
           old == [y \in Call \X Worker |-> AnswerOf(y[1], y[2])]
           new == [y \in Call \X Worker |-> AnswerOf(y[1], y[2])']
           a2 == AnswerOf(c, w)'
<1>1. x \in Call \X Worker /\ effects \in [Call \X Worker -> {0, 1}]
  BY DEF IInv, TypeOK
<1>2. old[x] = AnswerOf(c, w)
  BY <1>1
<1>3. new = [old EXCEPT ![x] = a2]
  <2>1. ASSUME NEW y \in Call \X Worker PROVE new[y] = [old EXCEPT ![x] = a2][y]
    <3>1. PICK d \in Call, v \in Worker : y = <<d, v>>
      OBVIOUS
    <3>2. old[y] = AnswerOf(d, v) /\ new[y] = AnswerOf(d, v)'
      BY <3>1
    <3>3. CASE y = x
      BY <3>1, <3>2, <3>3
    <3>4. CASE y # x
      BY <3>1, <3>2, <3>4
    <3> QED BY <3>3, <3>4
  <2> QED BY <2>1
<1> HIDE DEF old, new, a2
<1>4. CASE Stutters(AnswerOf(c, w), effects[x], a2, n2)
  <2>1. new = old
    BY <1>1, <1>2, <1>3, <1>4 DEF Stutters, old
  <2>2. effects' = effects
    BY <1>1, <1>4 DEF Stutters
  <2> QED BY <2>1, <2>2 DEF Warming!vars, old, new
<1>5. CASE Performs(AnswerOf(c, w), effects[x], a2, n2)
  <2>1. new = old
    BY <1>1, <1>2, <1>3, <1>5 DEF Performs, old
  <2>2. old[x] \in {"none", "error"} /\ effects[x] = 0 /\ effects' = [effects EXCEPT ![x] = 1]
    BY <1>2, <1>5 DEF Performs
  <2>3. Warming!Perform(x)
    BY <2>1, <2>2 DEF Warming!Perform, old, new
  <2> QED BY <1>1, <2>3 DEF Warming!Next
<1>6. CASE Tells(AnswerOf(c, w), effects[x], a2, n2)
  <2>1. effects' = effects
    BY <1>1, <1>6 DEF Tells
  <2>2. old[x] = "none" /\ new = [old EXCEPT ![x] = a2]
    BY <1>2, <1>3, <1>6 DEF Tells
  <2>3. Warming!Tell(x, a2)
    BY <2>1, <2>2 DEF Warming!Tell, old, new
  <2>4. Warming!Succeed(x) \/ Warming!Refuse(x) \/ Warming!Fail(x)
    BY <1>6, <2>3 DEF Tells, Warming!Succeed, Warming!Refuse, Warming!Fail
  <2> QED BY <1>1, <2>4 DEF Warming!Next
<1> QED BY <1>4, <1>5, <1>6 DEF Maps, a2

\* The part of the type invariant that warms do not depend on.
FleetOK ==
  /\ up \subseteq Worker
  /\ published \in [Worker -> Observation]
  /\ errors \subseteq Worker
  /\ timeout \in {"short", "long"}
  /\ pool \in Nat \ {0}
  /\ outside \in Nat

\* A thread may go from here to t2.
Advances(c, w, t2) ==
  LET t == thread[c][w]
      told == call[c].told[w]
      calling == call[c].phase
      n == effects[<<c, w>>]
  IN  /\ t2 \in ThreadState
      /\ t.phase # "none" /\ t2.phase # "none"
      /\ Sound(t2, told, calling, n)
      /\ Seen(t2) => w \in witness[c]
      /\ Maps(Says(told, t, calling), n, Says(told, t2, calling), n)

\* A thread that advances keeps the invariant, and is a step or a stutter of
\* RemoteCall.
LEMMA AdvanceKeeps ==
  ASSUME IInv, NEW c \in Call, NEW w \in Worker, NEW t2, Advances(c, w, t2), SetThread(c, w, t2),
         UNCHANGED <<loaded, witness, call, effects>>, FleetOK'
  PROVE  Keeps
<1>1. /\ t2 \in ThreadState
      /\ thread \in [Call -> [Worker -> ThreadState]]
      /\ thread' = [thread EXCEPT ![c][w] = t2]
  BY DEF IInv, TypeOK, Advances, SetThread
<1>2. /\ thread' \in [Call -> [Worker -> ThreadState]]
      /\ thread'[c][w] = t2
      /\ \A d \in Call, v \in Worker : <<d, v>> # <<c, w>> => thread'[d][v] = thread[d][v]
  BY <1>1
<1>3. TypeOK'
  BY <1>2 DEF IInv, TypeOK, FleetOK
<1>4. PairOK(c, w)'
  BY <1>2 DEF IInv, PairOK, Advances
<1>5. ASSUME NEW d \in Call, NEW v \in Worker, <<d, v>> # <<c, w>> PROVE PairOK(d, v)'
  BY <1>2, <1>5 DEF IInv, PairOK
<1>6. IInv'
  <2>1. \A d \in Call, v \in Worker : SeenOK(d, v)'
    BY DEF IInv, SeenOK
  <2> QED BY <1>3, <1>4, <1>5, <2>1 DEF IInv
<1>7. \A d \in Call, v \in Worker : <<d, v>> # <<c, w>> => AnswerOf(d, v)' = AnswerOf(d, v)
  BY <1>2, AnswerSays
<1>8. Maps(AnswerOf(c, w), effects[<<c, w>>], AnswerOf(c, w)', effects[<<c, w>>])
  BY <1>2, AnswerSays DEF Advances
<1>9. effects' = [effects EXCEPT ![<<c, w>>] = effects[<<c, w>>]]
  BY DEF IInv, TypeOK
<1> QED BY <1>6, <1>7, <1>8, <1>9, PairMaps DEF Keeps

\* What is known of a thread and its answer.
LEMMA PairFacts ==
  ASSUME IInv, NEW c \in Call, NEW w \in Worker
  PROVE  /\ thread[c][w] \in ThreadState
         /\ call[c] \in CallState
         /\ effects[<<c, w>>] \in {0, 1}
         /\ call[c].told[w] \in {"none", "timeout", "refused", "failed", "warmed"}
         /\ Sound(thread[c][w], call[c].told[w], call[c].phase, effects[<<c, w>>])
         /\ w \in call[c].pending <=> thread[c][w].phase # "none"
         /\ Seen(thread[c][w]) => w \in witness[c]
<1>1. call[c] \in CallState /\ thread[c][w] \in ThreadState /\ effects[<<c, w>>] \in {0, 1}
  BY DEF IInv, TypeOK
<1>2. call[c].told[w] \in {"none", "timeout", "refused", "failed", "warmed"}
  BY <1>1 DEF CallState
<1> QED BY <1>1, <1>2 DEF IInv, PairOK

LEMMA FleetStays == ASSUME IInv, UNCHANGED <<up, published, errors, timeout, pool, outside>>
                    PROVE  FleetOK'
BY DEF IInv, TypeOK, FleetOK

LEMMA StartWarmKeeps ==
  ASSUME IInv, NEW c \in Call, NEW w \in Worker, StartWarm(c, w)
  PROVE  Keeps
<1> DEFINE t == thread[c][w]
           told == call[c].told[w]
           calling == call[c].phase
           n == effects[<<c, w>>]
<1>1. t.phase = "queued"
  <2>1. Queued(c) \in SUBSET Nat /\ Queued(c) # {} /\ w = Min(Queued(c))
    BY ReconcileAssumption DEF StartWarm, Queued
  <2> QED BY <2>1, MinIsLeast DEF Queued
<1>2. /\ t \in ThreadState /\ n \in {0, 1}
      /\ told \in {"none", "timeout", "refused", "failed", "warmed"}
      /\ Sound(t, told, calling, n)
  BY PairFacts
<1>3. n = 0 /\ t.result = "none" /\ told \in {"none", "timeout"} /\ calling = "waiting"
  BY <1>1, <1>2 DEF Sound, Answered
<1>4. UNCHANGED <<loaded, witness, call, effects, up, published, errors, pool, outside>>
  BY DEF StartWarm, fleetVars
<1>5. CASE ~Current(w)
  <2> DEFINE t2 == [t EXCEPT !.phase = "done", !.result = "refused"]
  <2>1. SetThread(c, w, t2) /\ UNCHANGED timeout
    BY <1>5 DEF StartWarm
  <2>2. t2 \in ThreadState /\ t2.phase = "done" /\ t2.result = "refused"
    BY <1>2 DEF ThreadState
  <2>3. Sound(t2, told, calling, n) /\ ~Seen(t2)
    BY <1>3, <2>2 DEF Sound, Seen, Answered
  <2>4. Maps(Says(told, t, calling), n, Says(told, t2, calling), n)
    BY <1>1, <1>3, <2>2 DEF Maps, Stutters, Tells, Says
  <2>5. Advances(c, w, t2)
    BY <1>1, <2>2, <2>3, <2>4 DEF Advances
  <2> QED BY <1>4, <2>1, <2>5, AdvanceKeeps, FleetStays
<1>6. CASE Current(w)
  <2> DEFINE t2 == [t EXCEPT !.phase = "sent", !.saved = timeout]
  <2>1. SetThread(c, w, t2) /\ timeout' = "long"
    BY <1>6 DEF StartWarm, Extend
  <2>2. t2 \in ThreadState /\ t2.phase = "sent" /\ t2.result = "none"
    BY <1>2, <1>3 DEF ThreadState, IInv, TypeOK
  <2>3. Sound(t2, told, calling, n) /\ ~Seen(t2)
    BY <1>3, <2>2 DEF Sound, Seen, Answered
  <2>4. Maps(Says(told, t, calling), n, Says(told, t2, calling), n)
    BY <1>1, <1>3, <2>2 DEF Maps, Stutters, Tells, Says
  <2>5. Advances(c, w, t2)
    BY <1>1, <2>2, <2>3, <2>4 DEF Advances
  <2>6. FleetOK'
    BY <1>4, <2>1 DEF FleetOK, IInv, TypeOK
  <2> QED BY <1>4, <2>1, <2>5, <2>6, AdvanceKeeps
<1> QED BY <1>5, <1>6

LEMMA WarmAnswersKeeps ==
  ASSUME IInv, NEW c \in Call, NEW w \in Worker, WarmAnswers(c, w)
  PROVE  Keeps
<1> DEFINE t == thread[c][w]
           told == call[c].told[w]
           calling == call[c].phase
           n == effects[<<c, w>>]
<1>1. t.phase = "sent" /\ n = 1
  BY DEF WarmAnswers
<1>2. /\ t \in ThreadState
      /\ told \in {"none", "timeout", "refused", "failed", "warmed"}
      /\ Sound(t, told, calling, n)
  BY PairFacts
<1>3. t.result = "none" /\ told \in {"none", "timeout"} /\ calling # "idle"
  BY <1>1, <1>2 DEF Sound
<1>4. UNCHANGED <<loaded, witness, call, effects>>
  BY DEF WarmAnswers, fleetVars
<1>5. FleetOK'
  BY <1>2 DEF WarmAnswers, fleetVars, Restore, FleetOK, IInv, TypeOK, ThreadState
<1>6. CASE Verified(w)
  <2> DEFINE t2 == [t EXCEPT !.phase = "listing"]
  <2>1. SetThread(c, w, t2)
    BY <1>6 DEF WarmAnswers
  <2>2. t2 \in ThreadState /\ t2.phase = "listing" /\ t2.result = "none"
    BY <1>2, <1>3 DEF ThreadState
  <2>3. w \in witness[c]
    BY <1>3, <1>6 DEF Verified, IInv, SeenOK
  <2>4. Sound(t2, told, calling, n)
    BY <1>1, <1>3, <2>2 DEF Sound, Seen, Answered
  <2>5. Maps(Says(told, t, calling), n, Says(told, t2, calling), n)
    BY <1>1, <1>3, <2>2 DEF Maps, Stutters, Says
  <2>6. Advances(c, w, t2)
    BY <1>1, <2>2, <2>3, <2>4, <2>5 DEF Advances
  <2> QED BY <1>4, <1>5, <2>1, <2>6, AdvanceKeeps
<1>7. CASE ~Verified(w)
  <2> DEFINE t2 == [t EXCEPT !.phase = "done", !.result = "failed"]
  <2>1. SetThread(c, w, t2)
    BY <1>7 DEF WarmAnswers
  <2>2. t2 \in ThreadState /\ t2.phase = "done" /\ t2.result = "failed"
    BY <1>2 DEF ThreadState
  <2>3. Sound(t2, told, calling, n) /\ ~Seen(t2)
    BY <1>1, <1>3, <2>2 DEF Sound, Seen, Answered
  <2>4. Maps(Says(told, t, calling), n, Says(told, t2, calling), n)
    BY <1>1, <1>3, <2>2 DEF Maps, Stutters, Says
  <2>5. Advances(c, w, t2)
    BY <1>1, <2>2, <2>3, <2>4 DEF Advances
  <2> QED BY <1>4, <1>5, <2>1, <2>5, AdvanceKeeps
<1> QED BY <1>6, <1>7

LEMMA WarmFailsKeeps ==
  ASSUME IInv, NEW c \in Call, NEW w \in Worker, WarmFails(c, w)
  PROVE  Keeps
<1> DEFINE t == thread[c][w]
           t2 == [t EXCEPT !.phase = "done", !.result = "failed"]
           told == call[c].told[w]
           calling == call[c].phase
           n == effects[<<c, w>>]
<1>1. /\ t.phase = "sent" /\ t \in ThreadState
      /\ told \in {"none", "timeout", "refused", "failed", "warmed"}
      /\ Sound(t, told, calling, n)
  BY PairFacts DEF WarmFails
<1>2. t.result = "none" /\ told \in {"none", "timeout"} /\ calling # "idle"
  BY <1>1 DEF Sound
<1>3. t2 \in ThreadState /\ t2.phase = "done" /\ t2.result = "failed"
  BY <1>1 DEF ThreadState
<1>4. Sound(t2, told, calling, n) /\ ~Seen(t2)
  BY <1>2, <1>3 DEF Sound, Seen, Answered
<1>5. Maps(Says(told, t, calling), n, Says(told, t2, calling), n)
  BY <1>1, <1>2, <1>3 DEF Maps, Stutters, Says
<1>6. Advances(c, w, t2)
  BY <1>1, <1>3, <1>4, <1>5 DEF Advances
<1>7. FleetOK'
  BY <1>1 DEF WarmFails, fleetVars, Restore, FleetOK, IInv, TypeOK, ThreadState
<1>8. SetThread(c, w, t2) /\ UNCHANGED <<loaded, witness, call, effects>>
  BY DEF WarmFails, fleetVars
<1> QED BY <1>6, <1>7, <1>8, AdvanceKeeps

\* A warm whose answer was verified refreshes, or is done, and stays verified.
LEMMA RefreshAdvances ==
  ASSUME IInv, NEW c \in Call, NEW w \in Worker, NEW t2 \in ThreadState,
         thread[c][w].phase \in Answered,
         \/ t2.phase \in Answered /\ t2.result = "none"
         \/ t2.phase = "done" /\ t2.result = "warmed",
         t2.phase \in {"probing", "publishing"} => t2.at \in Worker
  PROVE  Advances(c, w, t2)
<1> DEFINE t == thread[c][w]
           told == call[c].told[w]
           calling == call[c].phase
           n == effects[<<c, w>>]
<1>1. /\ told \in {"none", "timeout", "refused", "failed", "warmed"}
      /\ Sound(t, told, calling, n) /\ Seen(t)
      /\ w \in witness[c]
  BY PairFacts DEF Seen
<1>2. n = 1 /\ t.result = "none" /\ told \in {"none", "timeout"} /\ calling # "idle"
  BY <1>1 DEF Sound, Answered
<1>3. Sound(t2, told, calling, n)
  BY <1>2 DEF Sound, Seen, Answered
<1>4. Maps(Says(told, t, calling), n, Says(told, t2, calling), n)
  BY <1>2 DEF Maps, Stutters, Says, Answered
<1> QED BY <1>1, <1>3, <1>4 DEF Advances, Answered

LEMMA ScannedFacts ==
  ASSUME NEW t \in ThreadState, t.result = "none"
  PROVE  /\ Scanned(t) \in ThreadState
         /\ \/ Scanned(t).phase = "scanning" /\ Scanned(t).result = "none"
            \/ Scanned(t).phase = "done" /\ Scanned(t).result = "warmed"
BY DEF Scanned, ThreadState

\* An answered warm has no result yet.
LEMMA AnsweredFacts ==
  ASSUME IInv, NEW c \in Call, NEW w \in Worker, thread[c][w].phase \in Answered
  PROVE  /\ thread[c][w] \in ThreadState
         /\ thread[c][w].result = "none"
         /\ thread[c][w].phase \in {"probing", "publishing"} => thread[c][w].at \in Worker
BY PairFacts DEF Sound, Answered

LEMMA ListWorkersKeeps ==
  ASSUME IInv, NEW c \in Call, NEW w \in Worker, ListWorkers(c, w)
  PROVE  Keeps
<1>1. PICK left \in {{}, up} : SetThread(c, w, Scanned([thread[c][w] EXCEPT !.left = left]))
  BY DEF ListWorkers
<1> DEFINE t == thread[c][w]
           t1 == [t EXCEPT !.left = left]
<1>2. t.phase \in Answered /\ t \in ThreadState /\ t.result = "none"
  BY AnsweredFacts DEF ListWorkers, Answered
<1>3. left \subseteq Worker
  BY DEF IInv, TypeOK
<1>4. t1 \in ThreadState /\ t1.result = "none"
  BY <1>2, <1>3 DEF ThreadState
<1> HIDE DEF t1
<1>5. Advances(c, w, Scanned(t1))
  BY <1>2, <1>4, ScannedFacts, RefreshAdvances DEF Answered
<1>6. FleetOK'
  BY FleetStays DEF ListWorkers, fleetVars
<1> QED BY <1>1, <1>5, <1>6, AdvanceKeeps DEF ListWorkers, fleetVars, t1

LEMMA ProbeKeeps ==
  ASSUME IInv, NEW c \in Call, NEW w \in Worker, Probe(c, w)
  PROVE  Keeps
<1>1. PICK v \in thread[c][w].left :
        SetThread(c, w, [thread[c][w] EXCEPT !.phase = "probing", !.at = v, !.left = @ \ {v},
                                             !.saved = timeout])
  BY DEF Probe
<1> DEFINE t == thread[c][w]
           t2 == [t EXCEPT !.phase = "probing", !.at = v, !.left = @ \ {v}, !.saved = timeout]
<1>2. t.phase \in Answered /\ t \in ThreadState /\ t.result = "none"
  BY AnsweredFacts DEF Probe, Answered
<1>3. v \in Worker /\ timeout \in {"short", "long"}
  BY <1>1, <1>2 DEF ThreadState, IInv, TypeOK
<1>4. t2 \in ThreadState /\ t2.phase = "probing" /\ t2.result = "none" /\ t2.at = v
  BY <1>2, <1>3 DEF ThreadState
<1>5. SetThread(c, w, t2) /\ UNCHANGED <<loaded, witness, call, effects>>
  BY <1>1 DEF Probe, fleetVars
<1>6. FleetOK'
  BY DEF Probe, Extend, fleetVars, FleetOK, IInv, TypeOK
<1> HIDE DEF t2
<1>7. Advances(c, w, t2)
  BY <1>2, <1>3, <1>4, RefreshAdvances DEF Answered
<1> QED BY <1>5, <1>6, <1>7, AdvanceKeeps

LEMMA ProbeAnswersKeeps ==
  ASSUME IInv, NEW c \in Call, NEW w \in Worker, ProbeAnswers(c, w)
  PROVE  Keeps
<1>1. PICK ok \in BOOLEAN :
        SetThread(c, w, [thread[c][w] EXCEPT !.phase = "publishing", !.seen =
          [ok |-> ok, models |-> IF ok THEN loaded[thread[c][w].at] ELSE {}]])
  BY DEF ProbeAnswers
<1> DEFINE t == thread[c][w]
           models == IF ok THEN loaded[t.at] ELSE {}
           seen == [ok |-> ok, models |-> models]
           t2 == [t EXCEPT !.phase = "publishing", !.seen = seen]
<1>2. t.phase \in Answered /\ t \in ThreadState /\ t.result = "none" /\ t.at \in Worker
  BY AnsweredFacts DEF ProbeAnswers, Answered
<1>3. models \subseteq Model
  BY <1>2 DEF IInv, TypeOK
<1>4. seen \in [ok : BOOLEAN, models : SUBSET Model]
  <2> HIDE DEF models
  <2> QED BY <1>3
<1>5. SetThread(c, w, t2) /\ UNCHANGED <<loaded, witness, call, effects>>
  BY <1>1 DEF ProbeAnswers, fleetVars
<1>6. t2 \in ThreadState /\ t2.phase = "publishing" /\ t2.result = "none" /\ t2.at = t.at
  <2> HIDE DEF seen
  <2> QED BY <1>2, <1>4 DEF ThreadState
<1>7. FleetOK'
  BY <1>2 DEF ProbeAnswers, Restore, fleetVars, FleetOK, IInv, TypeOK, ThreadState
<1> HIDE DEF t2
<1>8. Advances(c, w, t2)
  BY <1>2, <1>6, RefreshAdvances DEF Answered
<1> QED BY <1>5, <1>7, <1>8, AdvanceKeeps

LEMMA PublishKeeps ==
  ASSUME IInv, NEW c \in Call, NEW w \in Worker, Publish(c, w)
  PROVE  Keeps
<1> DEFINE t == thread[c][w]
           t1 == [t EXCEPT !.at = Everyone, !.saved = "short", !.seen = NoThread.seen]
<1>1. t.phase \in Answered /\ t \in ThreadState /\ t.result = "none" /\ t.at \in Worker
  BY AnsweredFacts DEF Publish, Answered
<1>2. NoThread.seen \in [ok : BOOLEAN, models : SUBSET Model]
  BY DEF NoThread
<1>3. t1 \in ThreadState /\ t1.result = "none"
  BY <1>1, <1>2 DEF ThreadState
<1>4. SetThread(c, w, Scanned(t1)) /\ UNCHANGED <<loaded, witness, call, effects>>
  BY DEF Publish
<1>5. errors' \subseteq Worker
  BY <1>1 DEF Publish, IInv, TypeOK
<1>6. published' \in [Worker -> Observation]
  <2> DEFINE o == [status |-> IF t.seen.ok THEN "CURRENT" ELSE "UNAVAILABLE", models |-> t.seen.models]
  <2>1. o \in Observation
    BY <1>1 DEF Observation, ThreadState
  <2>2. published' = published \/ published' = [published EXCEPT ![t.at] = o]
    BY DEF Publish
  <2> HIDE DEF o
  <2> QED BY <2>1, <2>2 DEF IInv, TypeOK
<1>7. FleetOK'
  BY <1>5, <1>6 DEF Publish, FleetOK, IInv, TypeOK
<1> HIDE DEF t1
<1>8. Advances(c, w, Scanned(t1))
  BY <1>1, <1>3, ScannedFacts, RefreshAdvances DEF Answered
<1> QED BY <1>4, <1>7, <1>8, AdvanceKeeps

\* A warm that is cancelled was queued, and its caller no longer waits for it.
LEMMA CancelKeeps ==
  ASSUME IInv, NEW c \in Call, Cancel(c)
  PROVE  Keeps
<1> DEFINE w == Min(Queued(c))
           t2 == [NoThread EXCEPT !.phase = "cancelled"]
<1>1. w \in Queued(c)
  <2>1. Queued(c) \in SUBSET Nat /\ Queued(c) # {}
    BY ReconcileAssumption DEF Cancel, Queued
  <2> QED BY <2>1, MinIsLeast
<1>2. SetThread(c, w, t2) /\ UNCHANGED <<loaded, witness, call, effects>>
  BY DEF Cancel, fleetVars
<1>3. w \in Worker /\ thread[c][w].phase = "queued" /\ Resolved(c)
  BY <1>1 DEF Queued, Cancel
<1> HIDE DEF w
<1> DEFINE t == thread[c][w]
           told == call[c].told[w]
           calling == call[c].phase
           n == effects[<<c, w>>]
<1>4. /\ t \in ThreadState /\ n \in {0, 1}
      /\ told \in {"none", "timeout", "refused", "failed", "warmed"}
      /\ Sound(t, told, calling, n)
      /\ w \in call[c].pending
  BY <1>3, PairFacts
<1>5. n = 0 /\ told = "timeout" /\ calling = "waiting"
  BY <1>3, <1>4 DEF Sound, Answered, Resolved, Unresolved
<1>6. t2 \in ThreadState /\ t2.phase = "cancelled" /\ t2.result = "none"
  BY DEF NoThread, ThreadState
<1>7. Sound(t2, told, calling, n) /\ ~Seen(t2)
  BY <1>5, <1>6 DEF Sound, Seen, Answered
<1>8. Maps(Says(told, t, calling), n, Says(told, t2, calling), n)
  BY <1>3, <1>4, <1>5, <1>6 DEF Maps, Tells, Says, Sound
<1>9. FleetOK'
  BY FleetStays DEF Cancel, fleetVars
<1>10. Advances(c, w, t2)
  BY <1>3, <1>6, <1>7, <1>8 DEF Advances
<1> QED BY <1>2, <1>3, <1>9, <1>10, AdvanceKeeps

\* What the caller is told agrees with what the thread came to.
LEMMA ToldKeeps ==
  ASSUME IInv, NEW c \in Call, NEW w \in Worker, NEW a \in {"timeout", thread[c][w].result},
         a # "none",
         w \in call[c].pending, call[c].told[w] = "none",
         call' = [call EXCEPT ![c].told[w] = a],
         UNCHANGED <<fleetVars, errors, timeout, thread, effects>>
  PROVE  Keeps
<1> DEFINE t == thread[c][w]
           calling == call[c].phase
           n == effects[<<c, w>>]
<1>1. /\ t \in ThreadState /\ n \in {0, 1} /\ call[c] \in CallState
      /\ Sound(t, "none", calling, n)
      /\ t.phase # "none"
  BY PairFacts
<1>2. a \in {"timeout", "refused", "failed", "warmed"}
  BY <1>1 DEF ThreadState
<1>3. /\ call' \in [Call -> CallState]
      /\ call'[c].told[w] = a
      /\ \A d \in Call : call'[d].phase = call[d].phase /\ call'[d].pending = call[d].pending
      /\ \A d \in Call, v \in Worker : <<d, v>> # <<c, w>> => call'[d].told[v] = call[d].told[v]
  <2> DEFINE r == [call[c] EXCEPT !.told[w] = a]
  <2>1. /\ r \in CallState /\ r.told[w] = a
        /\ r.phase = call[c].phase /\ r.pending = call[c].pending
        /\ \A v \in Worker \ {w} : r.told[v] = call[c].told[v]
    BY <1>1, <1>2 DEF CallState
  <2>2. call' = [call EXCEPT ![c] = r] /\ call \in [Call -> CallState]
    BY DEF IInv, TypeOK
  <2> HIDE DEF r
  <2> QED BY <2>1, <2>2
<1>4. TypeOK'
  BY <1>3 DEF IInv, TypeOK, fleetVars
<1>5. Sound(t, a, calling, n)
  BY <1>1, <1>2 DEF Sound
<1>6. PairOK(c, w)'
  BY <1>3, <1>5 DEF IInv, PairOK, fleetVars
<1>7. ASSUME NEW d \in Call, NEW v \in Worker, <<d, v>> # <<c, w>> PROVE PairOK(d, v)'
  BY <1>3, <1>7 DEF IInv, PairOK, fleetVars
<1>8. ASSUME NEW d \in Call, NEW v \in Worker PROVE SeenOK(d, v)'
  BY <1>3 DEF IInv, SeenOK, fleetVars
<1>9. IInv'
  BY <1>4, <1>6, <1>7, <1>8 DEF IInv
<1>10. \A d \in Call, v \in Worker : <<d, v>> # <<c, w>> => AnswerOf(d, v)' = AnswerOf(d, v)
  BY <1>3, AnswerSays
<1>11. Maps(Says("none", t, calling), n, Says(a, t, calling), n)
  BY <1>1, <1>2 DEF Maps, Stutters, Tells, Says, Sound, Seen, Answered
<1>12. Maps(AnswerOf(c, w), n, AnswerOf(c, w)', n)
  BY <1>3, <1>11, AnswerSays
<1>13. effects' = [effects EXCEPT ![<<c, w>>] = n]
  BY DEF IInv, TypeOK
<1> QED BY <1>9, <1>10, <1>12, <1>13, PairMaps DEF Keeps

LEMMA AwaitingFacts ==
  ASSUME IInv, NEW c \in Call, NEW w \in Worker, Awaiting(c, w)
  PROVE  w \in call[c].pending /\ call[c].told[w] = "none"
<1>1. Unresolved(c) \in SUBSET Nat /\ Unresolved(c) # {} /\ w = Min(Unresolved(c))
  <2>1. call[c].pending \subseteq Worker
    BY PairFacts DEF CallState
  <2> QED BY <2>1, ReconcileAssumption DEF Awaiting, Unresolved
<1> QED BY <1>1, MinIsLeast DEF Unresolved

LEMMA AwaitKeeps ==
  ASSUME IInv, NEW c \in Call, NEW w \in Worker, Await(c, w)
  PROVE  Keeps
<1>1. w \in call[c].pending /\ call[c].told[w] = "none"
  BY AwaitingFacts DEF Await
<1>2. thread[c][w].result # "none"
  BY PairFacts DEF Await, Sound
<1> QED BY <1>1, <1>2, ToldKeeps DEF Await

LEMMA GiveUpKeeps ==
  ASSUME IInv, NEW c \in Call, NEW w \in Worker, GiveUp(c, w)
  PROVE  Keeps
BY AwaitingFacts, ToldKeeps DEF GiveUp

\* With nothing queued, no answer depends on whether the caller returned.
LEMMA ReturnKeeps ==
  ASSUME IInv, NEW c \in Call, Return(c)
  PROVE  Keeps
<1>1. /\ call \in [Call -> CallState] /\ call[c].phase = "waiting"
      /\ call' = [call EXCEPT ![c].phase = "returned"]
      /\ UNCHANGED <<fleetVars, errors, timeout, thread, effects>>
  BY DEF IInv, TypeOK, Return, Resolved
<1>2. /\ call' \in [Call -> CallState]
      /\ call'[c].phase = "returned"
      /\ \A d \in Call : call'[d].told = call[d].told /\ call'[d].pending = call[d].pending
      /\ \A d \in Call \ {c} : call'[d].phase = call[d].phase
  <2> DEFINE r == [call[c] EXCEPT !.phase = "returned"]
  <2>1. /\ r \in CallState /\ r.phase = "returned"
        /\ r.told = call[c].told /\ r.pending = call[c].pending
    BY <1>1 DEF CallState
  <2>2. call' = [call EXCEPT ![c] = r]
    BY <1>1
  <2> HIDE DEF r
  <2> QED BY <1>1, <2>1, <2>2
<1>3. \A w \in Worker : thread[c][w].phase # "queued"
  BY DEF Return, Queued
<1>4. TypeOK'
  BY <1>1, <1>2 DEF IInv, TypeOK, fleetVars
<1>5. ASSUME NEW d \in Call, NEW w \in Worker PROVE PairOK(d, w)'
  <2>1. /\ PairOK(d, w)
        /\ thread'[d][w] = thread[d][w] /\ effects'[<<d, w>>] = effects[<<d, w>>]
        /\ witness'[d] = witness[d]
        /\ call'[d].told[w] = call[d].told[w] /\ call'[d].pending = call[d].pending
    BY <1>1, <1>2 DEF IInv, fleetVars
  <2>2. CASE d = c
    BY <1>1, <1>2, <1>3, <2>1, <2>2 DEF PairOK, Sound
  <2>3. CASE d # c
    BY <1>2, <2>1, <2>3 DEF PairOK
  <2> QED BY <2>2, <2>3
<1>6. ASSUME NEW d \in Call, NEW w \in Worker PROVE SeenOK(d, w)'
  BY <1>1, <1>2 DEF IInv, SeenOK, fleetVars
<1>7. \A d \in Call, w \in Worker : AnswerOf(d, w)' = AnswerOf(d, w)
  BY <1>1, <1>2, <1>3, AnswerSays DEF Says
<1>8. UNCHANGED Warming!vars
  BY <1>1, <1>7 DEF Warming!vars
<1> QED BY <1>4, <1>5, <1>6, <1>8 DEF Keeps, IInv

\* Who waits sees what a provider takes in.
LEMMA LoadingIsSeen ==
  ASSUME IInv, NEW w \in Worker, NEW ms \in SUBSET Model, SetLoaded(w, ms), UNCHANGED call
  PROVE  /\ loaded' \in [Worker -> SUBSET Model]
         /\ witness' \in [Call -> SUBSET Worker]
         /\ \A d \in Call : witness[d] \subseteq witness'[d]
         /\ \A d \in Call, v \in Worker : SeenOK(d, v)'
<1>1. /\ loaded \in [Worker -> SUBSET Model] /\ witness \in [Call -> SUBSET Worker]
      /\ loaded' = [loaded EXCEPT ![w] = ms]
      /\ witness' = [d \in Call |-> witness[d] \cup {v \in {w} : Chosen(v) \in ms}]
  BY DEF IInv, TypeOK, SetLoaded
<1>2. ASSUME NEW d \in Call, NEW v \in Worker PROVE SeenOK(d, v)'
  <2>1. SeenOK(d, v) /\ witness'[d] = witness[d] \cup {u \in {w} : Chosen(u) \in ms}
    BY <1>1 DEF IInv
  <2>2. CASE v = w
    BY <1>1, <2>1, <2>2 DEF SeenOK
  <2>3. CASE v # w
    BY <1>1, <2>1, <2>3 DEF SeenOK
  <2> QED BY <2>2, <2>3
<1> QED BY <1>1, <1>2

LEMMA WorkerWarmsKeeps ==
  ASSUME IInv, NEW c \in Call, NEW w \in Worker, WorkerWarms(c, w)
  PROVE  Keeps
<1> DEFINE t == thread[c][w]
           told == call[c].told[w]
           calling == call[c].phase
<1>1. /\ effects[<<c, w>>] = 0 /\ effects' = [effects EXCEPT ![<<c, w>>] = 1]
      /\ effects \in [Call \X Worker -> {0, 1}]
      /\ UNCHANGED <<up, published, outside, pool, errors, timeout, call, thread>>
  BY DEF WorkerWarms, IInv, TypeOK
<1>2. /\ effects' \in [Call \X Worker -> {0, 1}]
      /\ effects'[<<c, w>>] = 1
      /\ \A d \in Call, v \in Worker : <<d, v>> # <<c, w>> => effects'[<<d, v>>] = effects[<<d, v>>]
  BY <1>1
<1>3. t.phase = "sent" \/ (t.phase = "done" /\ t.result = "failed")
  BY DEF WorkerWarms
<1>4. /\ t \in ThreadState /\ told \in {"none", "timeout", "refused", "failed", "warmed"}
      /\ Sound(t, told, calling, 0)
  BY <1>1, PairFacts
<1>5. Chosen(w) \in Model
  BY <1>3 DEF IInv, PairOK
<1>6. PICK ms \in SUBSET Model : SetLoaded(w, ms)
  BY <1>5 DEF WorkerWarms, IInv, TypeOK
<1>7. /\ loaded' \in [Worker -> SUBSET Model]
      /\ witness' \in [Call -> SUBSET Worker]
      /\ \A d \in Call : witness[d] \subseteq witness'[d]
      /\ \A d \in Call, v \in Worker : SeenOK(d, v)'
  BY <1>1, <1>6, LoadingIsSeen
<1>8. TypeOK'
  BY <1>1, <1>2, <1>7 DEF IInv, TypeOK
<1>9. Sound(t, told, calling, 1)
  BY <1>3, <1>4 DEF Sound, Answered
<1>10. PairOK(c, w)'
  BY <1>1, <1>2, <1>7, <1>9 DEF IInv, PairOK
<1>11. ASSUME NEW d \in Call, NEW v \in Worker, <<d, v>> # <<c, w>> PROVE PairOK(d, v)'
  BY <1>1, <1>2, <1>7, <1>11 DEF IInv, PairOK
<1>12. IInv'
  BY <1>7, <1>8, <1>10, <1>11 DEF IInv
<1>13. \A d \in Call, v \in Worker : AnswerOf(d, v)' = AnswerOf(d, v)
  BY <1>1, AnswerSays
<1>14. Says(told, t, calling) \in {"none", "error"}
  BY <1>3, <1>4 DEF Says, Sound
<1>15. Maps(AnswerOf(c, w), effects[<<c, w>>], AnswerOf(c, w)', 1)
  BY <1>1, <1>13, <1>14, AnswerSays DEF Maps, Performs
<1> QED BY <1>1, <1>12, <1>13, <1>15, PairMaps DEF Keeps

\* What moves no warm is a stutter of RemoteCall.
LEMMA RestKeeps ==
  ASSUME IInv, FleetOK', UNCHANGED <<call, thread, effects>>,
         loaded' \in [Worker -> SUBSET Model],
         witness' \in [Call -> SUBSET Worker],
         \A d \in Call : witness[d] \subseteq witness'[d],
         \A d \in Call, v \in Worker : SeenOK(d, v)'
  PROVE  Keeps
<1>1. TypeOK'
  BY DEF IInv, TypeOK, FleetOK
<1>2. \A d \in Call, v \in Worker : PairOK(d, v)'
  BY DEF IInv, PairOK
<1>3. UNCHANGED Warming!vars
  BY AnswerSays DEF Warming!vars
<1> QED BY <1>1, <1>2, <1>3 DEF Keeps, IInv

LEMMA OthersUseKeeps ==
  ASSUME IInv, NEW w \in Worker, OthersUse(w)
  PROVE  Keeps
<1>1. PICK ms \in SUBSET Model : SetLoaded(w, ms)
  BY DEF OthersUse, IInv, TypeOK
<1>2. FleetOK'
  BY DEF OthersUse, IInv, TypeOK, FleetOK
<1> QED BY <1>1, <1>2, LoadingIsSeen, RestKeeps DEF OthersUse

LEMMA FleetChangesKeeps ==
  ASSUME IInv, NEW w \in Worker, FleetChanges(w)
  PROVE  Keeps
<1>1. published' \in [Worker -> Observation]
  <2>1. \A o \in Observation : [o EXCEPT !.status = "STALE"] \in Observation
    BY DEF Observation
  <2>2. published' = published
          \/ published' = [published EXCEPT ![w] = [published[w] EXCEPT !.status = "STALE"]]
    BY DEF FleetChanges
  <2> QED BY <2>1, <2>2 DEF IInv, TypeOK
<1>2. up' \subseteq Worker
  BY DEF FleetChanges, IInv, TypeOK
<1>3. FleetOK'
  BY <1>1, <1>2 DEF FleetChanges, IInv, TypeOK, FleetOK
<1>4. \A d \in Call, v \in Worker : SeenOK(d, v)'
  BY DEF FleetChanges, IInv, SeenOK
<1> QED BY <1>3, <1>4, RestKeeps DEF FleetChanges, IInv, TypeOK

\* A reconciliation begins knowing what every worker holds.
LEMMA BeginKeeps ==
  ASSUME IInv, NEW c \in Call, NEW force \in Worker \cup {Everyone}, NEW answers \in BOOLEAN,
         Begin(c, force, answers)
  PROVE  Keeps
<1> DEFINE pending == {w \in Worker : answers /\ force \in {w, Everyone} /\ ReadyToWarm(w)}
           queued == [NoThread EXCEPT !.phase = "queued"]
           fresh == [w \in Worker |-> IF w \in pending THEN queued ELSE NoThread]
           r == [call[c] EXCEPT !.phase = IF pending = {} THEN "returned" ELSE "waiting",
                                !.pending = pending]
           seen == {w \in Worker : Chosen(w) \in loaded[w]}
<1>1. /\ call[c].phase = "idle"
      /\ call' = [call EXCEPT ![c] = r]
      /\ thread' = [thread EXCEPT ![c] = fresh]
      /\ witness' = [witness EXCEPT ![c] = seen]
      /\ UNCHANGED <<loaded, up, published, outside, pool, errors, timeout, effects>>
  BY DEF Begin
<1>2. \A w \in pending : Chosen(w) \in Model
  BY ReconcileAssumption DEF ReadyToWarm
<1>3. NoThread \in ThreadState /\ queued \in ThreadState
  BY DEF NoThread, ThreadState
<1>4. /\ NoThread.phase = "none" /\ NoThread.result = "none"
      /\ queued.phase = "queued" /\ queued.result = "none"
  BY DEF NoThread
<1>5. /\ call \in [Call -> CallState] /\ thread \in [Call -> [Worker -> ThreadState]]
      /\ witness \in [Call -> SUBSET Worker]
      /\ effects \in [Call \X Worker -> {0, 1}]
  BY DEF IInv, TypeOK
<1>6. /\ r \in CallState /\ r.told = call[c].told /\ r.pending = pending
      /\ r.phase = IF pending = {} THEN "returned" ELSE "waiting"
  <2>1. pending \subseteq Worker
    OBVIOUS
  <2> HIDE DEF pending
  <2> QED BY <1>5, <2>1 DEF CallState
<1>7. seen \subseteq Worker /\ pending \subseteq Worker
  OBVIOUS
<1> HIDE DEF pending, queued, seen, r
<1>8. fresh \in [Worker -> ThreadState]
  BY <1>3
<1>9. /\ call' \in [Call -> CallState] /\ call'[c] = r
      /\ thread' \in [Call -> [Worker -> ThreadState]] /\ thread'[c] = fresh
      /\ witness' \in [Call -> SUBSET Worker] /\ witness'[c] = seen
      /\ \A d \in Call \ {c} : call'[d] = call[d] /\ thread'[d] = thread[d] /\ witness'[d] = witness[d]
  BY <1>1, <1>5, <1>6, <1>7, <1>8
<1>10. TypeOK'
  BY <1>1, <1>9 DEF IInv, TypeOK
<1>11. ASSUME NEW w \in Worker PROVE effects[<<c, w>>] = 0 /\ call[c].told[w] = "none"
  BY <1>1, PairFacts DEF Sound, Answered, Seen
<1>12. ASSUME NEW w \in Worker PROVE PairOK(c, w)'
  <2>1. /\ effects'[<<c, w>>] = 0 /\ call'[c].told[w] = "none"
        /\ call'[c].pending = pending /\ call'[c].phase = r.phase
        /\ thread'[c][w] = IF w \in pending THEN queued ELSE NoThread
    BY <1>1, <1>6, <1>9, <1>11
  <2>2. CASE w \in pending
    <3>1. thread'[c][w].phase = "queued" /\ thread'[c][w].result = "none" /\ r.phase = "waiting"
      BY <1>4, <1>6, <2>1, <2>2
    <3>2. Sound(thread'[c][w], "none", "waiting", 0) /\ ~Seen(thread'[c][w])
      BY <3>1 DEF Sound, Seen, Answered
    <3> QED BY <1>2, <2>1, <2>2, <3>1, <3>2 DEF PairOK
  <2>3. CASE w \notin pending
    <3>1. thread'[c][w].phase = "none" /\ thread'[c][w].result = "none"
      BY <1>4, <2>1, <2>3
    <3>2. Sound(thread'[c][w], "none", r.phase, 0) /\ ~Seen(thread'[c][w])
      BY <3>1 DEF Sound, Seen, Answered
    <3> QED BY <2>1, <2>3, <3>1, <3>2 DEF PairOK
  <2> QED BY <2>2, <2>3
<1>13. ASSUME NEW d \in Call \ {c}, NEW w \in Worker PROVE PairOK(d, w)'
  BY <1>1, <1>9 DEF IInv, PairOK
<1>14. ASSUME NEW d \in Call, NEW w \in Worker PROVE SeenOK(d, w)'
  <2>1. CASE d = c
    BY <1>1, <1>9, <2>1 DEF SeenOK, seen
  <2>2. CASE d # c
    BY <1>1, <1>9, <2>2 DEF IInv, SeenOK
  <2> QED BY <2>1, <2>2
<1>15. IInv'
  BY <1>10, <1>12, <1>13, <1>14 DEF IInv
<1>16. ASSUME NEW d \in Call, NEW w \in Worker PROVE AnswerOf(d, w)' = AnswerOf(d, w)
  <2>1. CASE d = c
    BY <1>6, <1>9, <1>11, <2>1, AnswerSays DEF Says
  <2>2. CASE d # c
    BY <1>9, <2>2, AnswerSays
  <2> QED BY <2>1, <2>2
<1>17. UNCHANGED Warming!vars
  BY <1>1, <1>16 DEF Warming!vars
<1> QED BY <1>15, <1>17 DEF Keeps

-----------------------------------------------------------------------------
LEMMA InitIInv == Init => IInv /\ Warming!Init
<1> SUFFICES ASSUME Init PROVE IInv /\ Warming!Init
  OBVIOUS
<1>1. NoThread \in ThreadState /\ NoCall \in CallState
  BY DEF NoThread, ThreadState, NoCall, CallState
<1>2. \A w \in Worker : loaded[w] \in SUBSET Model
  BY DEF Init
<1>3. published \in [Worker -> Observation]
  BY <1>2 DEF Init, Observation
<1>4. TypeOK
  BY <1>1, <1>3, ReconcileAssumption DEF Init, TypeOK
<1>5. ASSUME NEW c \in Call, NEW w \in Worker PROVE PairOK(c, w) /\ SeenOK(c, w)
  BY DEF Init, PairOK, SeenOK, Sound, Seen, Answered, NoThread, NoCall
<1>6. \A c \in Call, w \in Worker : AnswerOf(c, w) = "none"
  BY DEF Init, AnswerOf, NoCall
<1> QED BY <1>4, <1>5, <1>6 DEF IInv, Init, Warming!Init

\* One step per action of a thread.
LEMMA ThreadKeeps ==
  ASSUME IInv, NEW c \in Call, NEW w \in Worker, Thread(c, w)
  PROVE  Keeps
<1>1. CASE StartWarm(c, w)
  BY <1>1, StartWarmKeeps
<1>2. CASE WarmAnswers(c, w)
  BY <1>2, WarmAnswersKeeps
<1>3. CASE WarmFails(c, w)
  BY <1>3, WarmFailsKeeps
<1>4. CASE ListWorkers(c, w)
  BY <1>4, ListWorkersKeeps
<1>5. CASE Probe(c, w)
  BY <1>5, ProbeKeeps
<1>6. CASE ProbeAnswers(c, w)
  BY <1>6, ProbeAnswersKeeps
<1>7. CASE Publish(c, w)
  BY <1>7, PublishKeeps
<1> QED BY <1>1, <1>2, <1>3, <1>4, <1>5, <1>6, <1>7 DEF Thread

\* One step per action of the caller, of the fleet and of others.
LEMMA StepIInv == IInv /\ [Next]_vars => Keeps
<1> SUFFICES ASSUME IInv, [Next]_vars PROVE Keeps
  OBVIOUS
<1>1. CASE \E c \in Call : Cancel(c)
  BY <1>1, CancelKeeps
<1>2. CASE \E c \in Call : Return(c)
  BY <1>2, ReturnKeeps
<1>3. CASE \E c \in Call, w \in Worker : Await(c, w)
  BY <1>3, AwaitKeeps
<1>4. CASE \E c \in Call, w \in Worker : GiveUp(c, w)
  BY <1>4, GiveUpKeeps
<1>5. CASE \E c \in Call, force \in Worker \cup {Everyone}, answers \in BOOLEAN : Begin(c, force, answers)
  BY <1>5, BeginKeeps
<1>6. CASE \E c \in Call, w \in Worker : Thread(c, w)
  BY <1>6, ThreadKeeps
<1>7. CASE \E c \in Call, w \in Worker : WorkerWarms(c, w)
  BY <1>7, WorkerWarmsKeeps
<1>8. CASE \E w \in Worker : OthersUse(w)
  BY <1>8, OthersUseKeeps
<1>9. CASE \E w \in Worker : FleetChanges(w)
  BY <1>9, FleetChangesKeeps
<1>10. CASE UNCHANGED vars
  <2>1. FleetOK'
    BY <1>10, FleetStays DEF vars, fleetVars
  <2>2. \A d \in Call, v \in Worker : SeenOK(d, v)'
    BY <1>10 DEF vars, fleetVars, IInv, SeenOK
  <2> QED BY <1>10, <2>1, <2>2, RestKeeps DEF vars, fleetVars, IInv, TypeOK
<1> QED
  BY <1>1, <1>2, <1>3, <1>4, <1>5, <1>6, <1>7, <1>8, <1>9, <1>10 DEF Next, Caller

\* Every reconciliation, thread and provider stays in the states described.
THEOREM Typed == Spec => []TypeOK
<1>1. IInv => TypeOK
  BY DEF IInv
<1> QED BY InitIInv, StepIInv, <1>1, PTL DEF Spec, Keeps

\* Whoever else uses the workers and however late a provider answers: a worker
\* reported warmed held its declared model while the reconciliation ran.
THEOREM WarmedHeldItsModel == Spec => []WarmedWasSeen
<1>1. IInv => WarmedWasSeen
  <2> SUFFICES ASSUME IInv, NEW c \in Call, NEW w \in call[c].pending, call[c].told[w] = "warmed"
               PROVE  w \in witness[c]
    BY DEF WarmedWasSeen
  <2>1. w \in Worker
    BY DEF IInv, TypeOK, CallState
  <2>2. /\ Sound(thread[c][w], "warmed", call[c].phase, effects[<<c, w>>])
        /\ Seen(thread[c][w]) => w \in witness[c]
    BY <2>1, PairFacts
  <2> QED BY <2>2 DEF Sound, Seen
<1> QED BY InitIInv, StepIInv, <1>1, PTL DEF Spec, Keeps

\* Every warm is a RemoteCall: reported warmed it was carried out once, refused or
\* cancelled in the queue it never is, and one given up on is carried out once at
\* most, however late.
THEOREM KeepsContract == Spec => Contract
<1>1. Init => IInv /\ Warming!Init
  BY InitIInv
<1>2. IInv /\ [Next]_vars => IInv' /\ [Warming!Next]_(Warming!vars)
  BY StepIInv DEF Keeps
<1> QED BY <1>1, <1>2, PTL DEF Spec, Contract, Warming!Spec
=============================================================================
