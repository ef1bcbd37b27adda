-------------------------- MODULE Placement_proofs --------------------------
(***************************************************************************)
(* Proofs about Placement, for every fleet, configuration, selection       *)
(* policy, request, evidence file and bound: what a resolution may answer, *)
(* then that the rankings have exactly one first element, hence that some  *)
(* answer is always there and that warming what was placed changes none.   *)
(***************************************************************************)
EXTENDS Placement, SequenceTheorems, FiniteSetTheorems, WellFoundedInduction, TLAPS

\* Concatenations of short sequences.
LEMMA Joined ==
  ASSUME NEW a, NEW b, NEW c
  PROVE  /\ <<>> \o <<>> = <<>> /\ <<>> \o <<a>> = <<a>> /\ <<a>> \o <<>> = <<a>>
         /\ <<a>> \o <<b>> = <<a, b>> /\ <<a>> \o <<b, c>> = <<a, b, c>>
<1>1. <<>> \o <<>> = <<>> OBVIOUS
<1>2. <<>> \o <<a>> = <<a>> OBVIOUS
<1>3. <<a>> \o <<>> = <<a>> OBVIOUS
<1> DEFINE S == {a, b, c}
<1>4. <<a>> \o <<b>> = <<a, b>>
  <2>1. <<a>> \in Seq(S) /\ <<b>> \in Seq(S) /\ <<a, b>> \in Seq(S)
    OBVIOUS
  <2>2. /\ <<a>> \o <<b>> \in Seq(S)
        /\ Len(<<a>> \o <<b>>) = 2
        /\ (<<a>> \o <<b>>)[1] = a /\ (<<a>> \o <<b>>)[2] = b
    BY <2>1, ConcatProperties
  <2> DEFINE s == <<a>> \o <<b>>
             t == <<a, b>>
  <2>3. Len(s) = Len(t) /\ \A i \in 1 .. Len(s) : s[i] = t[i]
    BY <2>2
  <2> HIDE DEF s, t
  <2>4. s = t
    BY <2>1, <2>2, <2>3, SeqEqual DEF s, t
  <2> QED BY <2>4 DEF s, t
<1>5. <<a>> \o <<b, c>> = <<a, b, c>>
  <2>1. <<a>> \in Seq(S) /\ <<b, c>> \in Seq(S) /\ <<a, b, c>> \in Seq(S)
    OBVIOUS
  <2>2. /\ <<a>> \o <<b, c>> \in Seq(S)
        /\ Len(<<a>> \o <<b, c>>) = 3
        /\ (<<a>> \o <<b, c>>)[1] = a
        /\ (<<a>> \o <<b, c>>)[2] = b /\ (<<a>> \o <<b, c>>)[3] = c
    BY <2>1, ConcatProperties
  <2> DEFINE s == <<a>> \o <<b, c>>
             t == <<a, b, c>>
  <2>3. Len(s) = Len(t) /\ \A i \in 1 .. Len(s) : s[i] = t[i]
    BY <2>2
  <2> HIDE DEF s, t
  <2>4. s = t
    BY <2>1, <2>2, <2>3, SeqEqual DEF s, t
  <2> QED BY <2>4 DEF s, t
<1> QED BY <1>1, <1>2, <1>3, <1>4, <1>5

\* The escalations are configured roles, at most two of them, in a fixed order.
LEMMA EscalationsShape ==
  ASSUME PlacementAssumption, NEW p \in Profile
  PROVE  /\ Escalations(p) \in Seq(DOMAIN Configured)
         /\ Escalations(p) \in {<<>>, <<"coder">>, <<"reviewer">>, <<"coder", "reviewer">>,
                                <<"e4b">>, <<"e4b", "reviewer">>}
         /\ ClassifyRoute(p) = "reviewer" => Escalations(p) = <<>>
         /\ ClassifyRoute(p) = "e2b" => Escalations(p) \in {<<>>, <<"e4b">>, <<"reviewer">>,
                                                            <<"e4b", "reviewer">>}
         /\ ClassifyRoute(p) = "e4b" => Escalations(p) \in {<<>>, <<"coder">>, <<"reviewer">>,
                                                            <<"coder", "reviewer">>}
<1> DEFINE C == DOMAIN Configured
           coder == IF Specialist /\ p.code THEN IfConfigured("coder") ELSE <<>>
<1>1. ASSUME NEW role \in Role
      PROVE  IfConfigured(role) \in {<<>>, <<role>>} /\ IfConfigured(role) \in Seq(C)
  <2>1. CASE role \in C BY <2>1 DEF IfConfigured
  <2>2. CASE role \notin C BY <2>2 DEF IfConfigured
  <2> QED BY <2>1, <2>2
<1>2. CASE ClassifyRoute(p) = "reviewer"
  BY <1>2 DEF Escalations
<1>3. CASE ClassifyRoute(p) = "e4b"
  <2>1. Escalations(p) = coder \o IfConfigured("reviewer")
    BY <1>3 DEF Escalations
  <2>2. /\ coder \in {<<>>, <<"coder">>} /\ coder \in Seq(C)
        /\ IfConfigured("reviewer") \in {<<>>, <<"reviewer">>}
        /\ IfConfigured("reviewer") \in Seq(C)
    <3>1. CASE Specialist /\ p.code
      <4>1. coder = IfConfigured("coder") BY <3>1
      <4> HIDE DEF coder
      <4> QED BY <1>1, <4>1 DEF Role
    <3>2. CASE ~(Specialist /\ p.code)
      <4>1. coder = <<>> BY <3>2
      <4> HIDE DEF coder
      <4> QED BY <1>1, <4>1 DEF Role
    <3> QED BY <3>1, <3>2
  <2>3. Escalations(p) \in Seq(C)
    BY <2>1, <2>2
  <2>4. Escalations(p) \in {<<>>, <<"coder">>, <<"reviewer">>, <<"coder", "reviewer">>}
    <3> HIDE DEF coder
    <3> QED BY <2>1, <2>2, Joined, Zenon
  <2> QED BY <1>3, <2>3, <2>4
<1>4. CASE ClassifyRoute(p) = "e2b"
  <2>1. Escalations(p) = IfConfigured("e4b") \o IfConfigured("reviewer")
    BY <1>4 DEF Escalations
  <2>2. /\ IfConfigured("e4b") \in {<<>>, <<"e4b">>} /\ IfConfigured("e4b") \in Seq(C)
        /\ IfConfigured("reviewer") \in {<<>>, <<"reviewer">>}
        /\ IfConfigured("reviewer") \in Seq(C)
    BY <1>1 DEF Role
  <2>3. Escalations(p) \in Seq(C)
    BY <2>1, <2>2
  <2>4. Escalations(p) \in {<<>>, <<"e4b">>, <<"reviewer">>, <<"e4b", "reviewer">>}
    BY <2>1, <2>2, Joined, Zenon
  <2> QED BY <1>4, <2>3, <2>4
<1>5. ClassifyRoute(p) \in {"reviewer", "e4b", "e2b"}
  BY DEF ClassifyRoute
<1> QED BY <1>2, <1>3, <1>4, <1>5

Distinct(s) == \A i, j \in DOMAIN s : s[i] = s[j] => i = j

\* The deterministic route is not empty, keeps to max_attempts and, with the two
\* working roles configured, names no role twice.
LEMMA DeterministicRouteFacts ==
  ASSUME PlacementAssumption, NEW p \in Profile
  PROVE  /\ DeterministicRoute(p) \in Seq(DOMAIN Configured)
         /\ DeterministicRoute(p) # <<>>
         /\ Len(DeterministicRoute(p)) <= MaxAttempts \/ Len(DeterministicRoute(p)) = 1
         /\ {"e2b", "e4b"} \subseteq DOMAIN Configured => Distinct(DeterministicRoute(p))
<1> DEFINE C == DOMAIN Configured
           first == Available(ClassifyRoute(p))
           all == <<first>> \o Escalations(p)
           most == IF MaxAttempts < 1 THEN 1 ELSE MaxAttempts
           n == IF most < Len(all) THEN most ELSE Len(all)
<1>1. DeterministicRoute(p) = SubSeq(all, 1, n)
  BY DEF DeterministicRoute
<1>2. first \in C
  BY DEF Available, PlacementAssumption
<1>3. all \in Seq(C) /\ Len(all) >= 1
  BY <1>2, EscalationsShape
<1>4. most \in Nat /\ most >= 1 /\ (most = 1 \/ most <= MaxAttempts)
  BY DEF PlacementAssumption
<1>5. n \in 1 .. Len(all) /\ n <= most
  BY <1>3, <1>4
<1>6. /\ SubSeq(all, 1, n) \in Seq(C) /\ Len(SubSeq(all, 1, n)) = n
      /\ \A i \in 1 .. n : SubSeq(all, 1, n)[i] = all[i]
  <2> HIDE DEF all, n, C
  <2> QED BY <1>3, <1>5
<1>7. ASSUME {"e2b", "e4b"} \subseteq C PROVE Distinct(all)
  <2>1. CASE ClassifyRoute(p) = "reviewer"
    <3>1. all = <<first>> BY <2>1, EscalationsShape, Joined
    <3> QED BY <3>1 DEF Distinct
  <2>2. CASE ClassifyRoute(p) = "e4b"
    <3>1. first = "e4b" BY <2>2, <1>7 DEF Available
    <3>2. all \in {<<"e4b">>, <<"e4b", "coder">>, <<"e4b", "reviewer">>,
                  <<"e4b", "coder", "reviewer">>}
      <4>1. Escalations(p) \in {<<>>, <<"coder">>, <<"reviewer">>, <<"coder", "reviewer">>}
        BY <2>2, EscalationsShape
      <4>2. all = <<"e4b">> \o Escalations(p) BY <3>1
      <4> HIDE DEF all
      <4>3. <<"e4b">> \o <<>> = <<"e4b">> /\ <<"e4b">> \o <<"coder">> = <<"e4b", "coder">>
        BY Joined
      <4>4. <<"e4b">> \o <<"reviewer">> = <<"e4b", "reviewer">>
        BY Joined
      <4>5. <<"e4b">> \o <<"coder", "reviewer">> = <<"e4b", "coder", "reviewer">>
        BY Joined
      <4> QED BY <4>1, <4>2, <4>3, <4>4, <4>5, Zenon
    <3> HIDE DEF all
    <3> QED BY <3>2 DEF Distinct
  <2>3. CASE ClassifyRoute(p) = "e2b"
    <3>1. first = "e2b" BY <2>3, <1>7 DEF Available
    <3>2. all \in {<<"e2b">>, <<"e2b", "e4b">>, <<"e2b", "reviewer">>,
                  <<"e2b", "e4b", "reviewer">>}
      <4>1. Escalations(p) \in {<<>>, <<"e4b">>, <<"reviewer">>, <<"e4b", "reviewer">>}
        BY <2>3, EscalationsShape
      <4>2. all = <<"e2b">> \o Escalations(p) BY <3>1
      <4> HIDE DEF all
      <4>3. <<"e2b">> \o <<>> = <<"e2b">> /\ <<"e2b">> \o <<"e4b">> = <<"e2b", "e4b">>
        BY Joined
      <4>4. <<"e2b">> \o <<"reviewer">> = <<"e2b", "reviewer">>
        BY Joined
      <4>5. <<"e2b">> \o <<"e4b", "reviewer">> = <<"e2b", "e4b", "reviewer">>
        BY Joined
      <4> QED BY <4>1, <4>2, <4>3, <4>4, <4>5, Zenon
    <3> HIDE DEF all
    <3> QED BY <3>2 DEF Distinct
  <2>4. ClassifyRoute(p) \in {"reviewer", "e4b", "e2b"} BY DEF ClassifyRoute
  <2> QED BY <2>1, <2>2, <2>3, <2>4
<1>8. ASSUME {"e2b", "e4b"} \subseteq C PROVE Distinct(SubSeq(all, 1, n))
  <2> HIDE DEF all, n, C
  <2>1. DOMAIN SubSeq(all, 1, n) = 1 .. n /\ 1 .. n \subseteq DOMAIN all
    BY <1>3, <1>5, <1>6
  <2> QED BY <1>6, <1>7, <1>8, <2>1 DEF Distinct
<1> HIDE DEF all, n
<1> QED BY <1>1, <1>4, <1>5, <1>6, <1>8

\* A planned route is not empty; a pin plans one role.
LEMMA PlanRouteFacts ==
  ASSUME PlacementAssumption, NEW p \in Profile, NEW q \in Request,
         NEW roles \in PlanRoute(p, q)
  PROVE  /\ roles \in Seq(DOMAIN Configured)
         /\ roles # <<>>
         /\ q.mode # "AUTO" => Len(roles) = 1
         /\ Len(roles) <= MaxAttempts \/ Len(roles) = 1
         /\ (Lanes = {} /\ {"e2b", "e4b"} \subseteq DOMAIN Configured) => Distinct(roles)
<1> DEFINE C == DOMAIN Configured
           D == DeterministicRoute(p)
<1>1. D \in Seq(C) /\ D # <<>> /\ Len(D) >= 1
  BY DeterministicRouteFacts
<1>2. CASE q.role # NoRole
  <2>1. roles = <<q.role>> /\ q.role \in C
    BY <1>2 DEF PlanRoute
  <2>2. roles \in Seq(C) /\ Len(roles) = 1 /\ roles # <<>>
    BY <2>1
  <2>3. Distinct(roles)
    BY <2>1 DEF Distinct
  <2> QED BY <2>2, <2>3 DEF Distinct
<1>3. CASE q.role = NoRole /\ IsExactPin(q.mode)
  <2>1. roles = SubSeq(D, 1, 1)
    BY <1>3 DEF PlanRoute
  <2>2. roles \in Seq(C) /\ Len(roles) = 1
    <3> HIDE DEF D, C
    <3> QED BY <1>1, <2>1
  <2>3. roles # <<>> /\ DOMAIN roles = 1 .. 1
    <3> HIDE DEF C
    <3>1. DOMAIN roles = 1 .. 1 BY <2>2
    <3>2. ASSUME roles = <<>> PROVE FALSE BY <2>2, <3>2, EmptySeq
    <3> QED BY <3>1, <3>2
  <2>4. Distinct(roles)
    BY <2>3 DEF Distinct
  <2> QED BY <2>2, <2>3, <2>4
<1>4. CASE q.role = NoRole /\ ~IsExactPin(q.mode)
  <2>1. q.mode = "AUTO"
    BY <1>4 DEF IsExactPin, Request
  <2>2. roles = D \/ \E lane \in Lanes : roles = <<lane>> \o Tail(D)
    BY <1>4 DEF PlanRoute
  <2>3. CASE roles = D
    BY <2>1, <2>3, DeterministicRouteFacts
  <2>4. ASSUME NEW lane \in Lanes, roles = <<lane>> \o Tail(D)
        PROVE  roles \in Seq(C) /\ Len(roles) = Len(D)
    <3>1. lane \in C BY DEF PlacementAssumption
    <3>2. <<lane>> \in Seq(C) /\ Len(<<lane>>) = 1 BY <3>1
    <3>3. Tail(D) \in Seq(C) /\ Len(Tail(D)) = Len(D) - 1
      <4> HIDE DEF D, C
      <4> QED BY <1>1, HeadTailProperties
    <3> HIDE DEF D, C
    <3> QED BY <1>1, <2>4, <3>2, <3>3, ConcatProperties
  <2>5. CASE \E lane \in Lanes : roles = <<lane>> \o Tail(D)
    <3>1. roles \in Seq(C) /\ Len(roles) = Len(D) /\ Lanes # {}
      BY <2>4, <2>5
    <3> HIDE DEF D, C
    <3>2. roles # <<>> BY <1>1, <3>1
    <3>3. Len(D) <= MaxAttempts \/ Len(D) = 1
      BY DeterministicRouteFacts DEF D
    <3> QED BY <2>1, <3>1, <3>2, <3>3 DEF C
  <2> QED BY <2>2, <2>3, <2>5
<1> QED BY <1>2, <1>3, <1>4

\* What select_installed_model answers is listed on one of the workers it saw.
LEMMA SelectedListed ==
  ASSUME NEW st, NEW records, NEW role, NEW W,
         NEW m \in SelectInstalled(records, role, Merged(st, W))
  PROVE  m \in Model /\ \E w \in W : m \in Listed(st.rows[w])
<1>1. DOMAIN Merged(st, W) = UNION {Listed(st.rows[w]) : w \in W}
  BY DEF Merged
<1>2. m \in DOMAIN Merged(st, W)
  BY DEF SelectInstalled, Admissible
<1>3. PICK w \in W : m \in Listed(st.rows[w])
  BY <1>1, <1>2
<1> QED BY <1>3 DEF Listed

\* A worker that Place puts first holds the model.
LEMMA PlacedHolds ==
  ASSUME NEW st, NEW W, NEW m, NEW warm, NEW w \in Place(st, W, m, warm)
  PROVE  w \in W /\ m \in Listed(st.rows[w])
BY DEF Place, Holders

\* A placement is real in a status: the worker is up and lists the model.
Real(st, p) ==
  /\ p.worker \in Worker /\ p.model \in Model
  /\ st.rows[p.worker].up
  /\ p.model \in Listed(st.rows[p.worker])

\* An honoured pin is real, is what the pin names, and is current where it must be.
LEMMA PinnedReal ==
  ASSUME PlacementAssumption, NEW st, NEW records, NEW role, NEW q \in Request,
         NEW p \in Pinned(st, records, role, q)
  PROVE  /\ Real(st, p)
         /\ q.worker \in {NoWorker, p.worker} /\ q.model \in {NoModel, p.model}
         /\ q.mode \in {"WORKER", "MODEL", "WORKER_MODEL_ROLE"}
              => st.rows[p.worker].freshness = "CURRENT"
<1>1. CASE q.mode = "WORKER"
  <2>1. q.worker \in Worker /\ q.model = NoModel
    BY <1>1 DEF Request
  <2>2. PICK m \in {n \in SelectInstalled(records, role, Merged(st, {q.worker})) :
                     PinHolds(st.rows[q.worker], q.mode)} :
          p = [model |-> m, worker |-> q.worker]
    BY <1>1 DEF Pinned
  <2>3. m \in Model /\ m \in Listed(st.rows[q.worker])
    BY SelectedListed
  <2>4. st.rows[q.worker].up /\ st.rows[q.worker].freshness = "CURRENT"
    BY <1>1, <2>2 DEF PinHolds
  <2> QED BY <1>1, <2>1, <2>2, <2>3, <2>4 DEF Real
<1>2. CASE q.mode \in {"WORKER_MODEL", "WORKER_MODEL_ROLE"}
  <2>1. q.worker \in Worker /\ q.model \in Model
    BY <1>2, PlacementAssumption DEF Request
  <2>2. PICK w \in {v \in {q.worker} : /\ PinHolds(st.rows[v], q.mode)
                                      /\ q.model \in Listed(st.rows[v])} :
          p = [model |-> q.model, worker |-> w]
    BY <1>2 DEF Pinned
  <2>3. w = q.worker /\ PinHolds(st.rows[w], q.mode) /\ q.model \in Listed(st.rows[w])
    BY <2>2
  <2>4. st.rows[w].up /\ (q.mode = "WORKER_MODEL_ROLE" => st.rows[w].freshness = "CURRENT")
    BY <2>3 DEF PinHolds
  <2> QED BY <1>2, <2>1, <2>2, <2>3, <2>4 DEF Real
<1>3. CASE q.mode = "MODEL"
  <2> DEFINE W == {v \in Candidates(st) : st.rows[v].freshness = "CURRENT"}
  <2>1. q.worker = NoWorker /\ q.model \in Model
    BY <1>3 DEF Request
  <2>2. PICK w \in Place(st, W, q.model, TRUE) : p = [model |-> q.model, worker |-> w]
    BY <1>3 DEF Pinned
  <2>3. w \in W /\ q.model \in Listed(st.rows[w])
    <3> HIDE DEF W
    <3> QED BY <2>2, PlacedHolds
  <2>4. w \in Worker /\ st.rows[w].up
    BY <2>3 DEF Candidates, PlacementAssumption
  <2> QED BY <2>1, <2>2, <2>3, <2>4 DEF Real
<1>4. q.mode \notin {"AUTO", "ROLE"}
  <2>1. CASE q.mode \in {"AUTO", "ROLE"} BY <2>1 DEF Pinned
  <2> QED BY <2>1
<1>5. q.mode \in Mode BY DEF Request
<1> QED BY <1>1, <1>2, <1>3, <1>4, <1>5 DEF Mode

\* An automatic placement is real, on a candidate.
LEMMA AutomaticReal ==
  ASSUME PlacementAssumption, NEW st, NEW records, NEW role,
         NEW p \in Automatic(st, records, role)
  PROVE  /\ Real(st, p)
         /\ p.worker \in Candidates(st)
         /\ p.model \in SelectInstalled(records, role, Merged(st, Candidates(st)))
<1>1. PICK m \in SelectInstalled(records, role, Merged(st, Candidates(st))) :
        p \in {[model |-> m, worker |-> w] : w \in Place(st, Candidates(st), m, PreferResident)}
  BY DEF Automatic
<1>2. PICK w \in Place(st, Candidates(st), m, PreferResident) :
        p = [model |-> m, worker |-> w]
  BY <1>1
<1>3. w \in Candidates(st) /\ m \in Listed(st.rows[w])
  BY PlacedHolds
<1>4. m \in Model /\ w \in Worker /\ st.rows[w].up
  BY <1>3 DEF Listed, Candidates, PlacementAssumption
<1> QED BY <1>1, <1>2, <1>3, <1>4 DEF Real

\* The model a refused pin is reported with.
Shown(role, q) == IF q.model # NoModel THEN q.model ELSE Configured[role]

\* How a decision came about: an honoured pin, an automatic placement that the
\* request allowed, a refused pin, or the absence of a placement.
ByPin(st, records, role, q, d) ==
  \E p \in Pinned(st, records, role, q) : d = Decision(st, role, p.model, p.worker, TRUE)
ByAutomatic(st, records, role, q, d) ==
  /\ q.mode \in {"AUTO", "ROLE"} \/ q.fallback
  /\ \E p \in Automatic(st, records, role) : d = Decision(st, role, p.model, p.worker, TRUE)
ByRefusal(st, role, q, d) ==
  /\ IsExactPin(q.mode) /\ ~q.fallback
  /\ d = Decision(st, role, Shown(role, q), q.worker, FALSE)
ByAbsence(st, records, role, q, d) ==
  /\ q.mode \in {"AUTO", "ROLE"} \/ q.fallback
  /\ Automatic(st, records, role) = {}
  /\ d = Decision(st, role, Configured[role], NoWorker, ~Enabled)

\* There is no fifth way.
LEMMA ResolutionCases ==
  ASSUME NEW st, NEW records, NEW role, NEW q,
         NEW d \in Resolutions(st, records, role, q)
  PROVE  \/ ByPin(st, records, role, q, d)
         \/ ByAutomatic(st, records, role, q, d)
         \/ ByRefusal(st, role, q, d)
         \/ ByAbsence(st, records, role, q, d)
BY Zenon DEF Resolutions, IsExactPin, Shown, ByPin, ByAutomatic, ByRefusal, ByAbsence

\* A decision is well typed.
LEMMA ResolutionType ==
  ASSUME PlacementAssumption, NEW st, NEW records, NEW role \in DOMAIN Configured,
         NEW q \in Request, NEW d \in Resolutions(st, records, role, q)
  PROVE  d \in Resolution
<1>1. ASSUME NEW m \in Model, NEW w \in Worker \cup {NoWorker}, NEW a \in BOOLEAN
      PROVE  Decision(st, role, m, w, a) \in Resolution
  <2>1. PICK b \in BOOLEAN : b = EffectiveThink(st, role, m, w)
    BY Zenon DEF EffectiveThink, PlacementAssumption
  <2>2. Decision(st, role, m, w, a) = [decided |-> TRUE, model |-> m, worker |-> w,
                                       available |-> a, think |-> b]
    BY <2>1, Zenon DEF Decision
  <2> QED BY <2>2 DEF Resolution
<1>2. Configured[role] \in Model /\ (~Enabled) \in BOOLEAN
  BY DEF PlacementAssumption
<1>3. Shown(role, q) \in Model
  BY <1>2 DEF Request, Shown
<1>4. q.worker \in Worker \cup {NoWorker}
  BY DEF Request
<1>5. ASSUME NEW p \in Pinned(st, records, role, q)
      PROVE  p.model \in Model /\ p.worker \in Worker
  BY PinnedReal DEF Real
<1>6. ASSUME NEW p \in Automatic(st, records, role)
      PROVE  p.model \in Model /\ p.worker \in Worker
  BY AutomaticReal DEF Real
<1>7. CASE ByPin(st, records, role, q, d)
  <2>1. PICK p \in Pinned(st, records, role, q) : d = Decision(st, role, p.model, p.worker, TRUE)
    BY <1>7 DEF ByPin
  <2>2. p.model \in Model /\ p.worker \in Worker \cup {NoWorker} BY <1>5
  <2>3. Decision(st, role, p.model, p.worker, TRUE) \in Resolution BY <1>1, <2>2, Zenon
  <2> QED BY <2>1, <2>3, Zenon
<1>8. CASE ByAutomatic(st, records, role, q, d)
  <2>1. PICK p \in Automatic(st, records, role) : d = Decision(st, role, p.model, p.worker, TRUE)
    BY <1>8 DEF ByAutomatic
  <2>2. p.model \in Model /\ p.worker \in Worker \cup {NoWorker} BY <1>6
  <2>3. Decision(st, role, p.model, p.worker, TRUE) \in Resolution BY <1>1, <2>2, Zenon
  <2> QED BY <2>1, <2>3, Zenon
<1>9. CASE ByRefusal(st, role, q, d)
  BY <1>1, <1>3, <1>4, <1>9, Zenon DEF ByRefusal
<1>10. CASE ByAbsence(st, records, role, q, d)
  <2>1. Configured[role] \in Model /\ NoWorker \in Worker \cup {NoWorker} BY <1>2
  <2>2. Decision(st, role, Configured[role], NoWorker, ~Enabled) \in Resolution
    BY <1>1, <1>2, <2>1, Zenon
  <2> QED BY <1>10, <2>2, Zenon DEF ByAbsence
<1> QED BY <1>7, <1>8, <1>9, <1>10, ResolutionCases, Zenon

\* A new session is idle and undecided.
LEMMA InitType == ASSUME PlacementAssumption, Init PROVE TypeOK
<1>1. [mode |-> "AUTO", role |-> NoRole, worker |-> NoWorker, model |-> NoModel,
       fallback |-> FALSE] \in Request
  BY DEF Request, Mode, NoRole
<1>2. Idle \in [roles : Seq(DOMAIN Configured), request : Request]
  BY <1>1 DEF Idle
<1>3. fleet \in [Worker -> Row]
  BY DEF Init, PlacementAssumption
<1> QED BY <1>2, <1>3 DEF Init, TypeOK, PlacementAssumption

\* Every step keeps the types.
LEMMA StepType == ASSUME PlacementAssumption, TypeOK, [Next]_vars PROVE TypeOK'
<1>1. ASSUME NEW p \in Profiles, NEW q \in Requests, Plan(p, q) PROVE TypeOK'
  <2>1. p \in Profile /\ q \in Request BY DEF PlacementAssumption
  <2>2. PICK roles \in PlanRoute(p, q) : task' = [roles |-> roles, request |-> q]
    BY <1>1 DEF Plan
  <2>3. roles \in Seq(DOMAIN Configured) /\ roles # <<>>
    BY <2>1, PlanRouteFacts
  <2>4. task' \in [roles : Seq(DOMAIN Configured), request : Request] /\ task'.roles # <<>>
    BY <2>1, <2>2, <2>3
  <2>5. status = NotCaptured
    BY <1>1 DEF Plan, TypeOK
  <2> QED BY <1>1, <2>4, <2>5 DEF Plan, TypeOK
<1>2. ASSUME NEW order \in Orders, Capture(order) PROVE TypeOK'
  <2>1. status' \in Captured
    BY <1>2 DEF Capture, Captured, TypeOK, PlacementAssumption
  <2> QED BY <1>2, <2>1 DEF Capture, TypeOK
<1>3. ASSUME Resolve PROVE TypeOK'
  <2>1. task # Idle /\ task.roles \in Seq(DOMAIN Configured) /\ task.roles # <<>>
    BY <1>3 DEF Resolve, TypeOK
  <2>2. Head(task.roles) \in DOMAIN Configured /\ task.request \in Request
    BY <2>1, HeadTailProperties DEF TypeOK
  <2>3. decision' \in Resolution
    BY <1>3, <2>2, ResolutionType DEF Resolve
  <2> QED BY <1>3, <2>3 DEF Resolve, TypeOK
<1>4. ASSUME NEW over \in BOOLEAN, Attempted(over) PROVE TypeOK'
  <2>1. task # Idle /\ task.roles \in Seq(DOMAIN Configured) /\ task.roles # <<>>
    BY <1>4 DEF Attempted, TypeOK
  <2>2. Idle \in [roles : Seq(DOMAIN Configured), request : Request]
    <3>1. [mode |-> "AUTO", role |-> NoRole, worker |-> NoWorker, model |-> NoModel,
           fallback |-> FALSE] \in Request
      BY DEF Request, Mode, NoRole
    <3> QED BY <3>1 DEF Idle
  <2>3. CASE over \/ Len(task.roles) = 1
    <3>1. task' = Idle BY <1>4, <2>3 DEF Attempted
    <3> QED BY <1>4, <2>2, <3>1 DEF Attempted, TypeOK
  <2>4. CASE ~(over \/ Len(task.roles) = 1)
    <3>1. task' = [task EXCEPT !.roles = Tail(@)] BY <1>4, <2>4 DEF Attempted
    <3> DEFINE C == DOMAIN Configured
               s == task.roles
    <3>a. s \in Seq(C) /\ s # <<>> /\ Len(s) # 1 BY <2>1, <2>4
    <3> HIDE DEF C, s
    <3>b. Tail(s) \in Seq(C) /\ Len(Tail(s)) = Len(s) - 1 BY <3>a, HeadTailProperties
    <3>c. ASSUME Tail(s) = <<>> PROVE FALSE
      <4>1. Len(Tail(s)) = 0 BY <3>c, EmptySeq
      <4>2. Len(s) \in Nat BY <3>a
      <4>3. Len(s) - 1 = 0 BY <3>b, <4>1
      <4>4. Len(s) = 1 BY <4>2, <4>3
      <4> QED BY <3>a, <4>4
    <3>2. Tail(task.roles) \in Seq(DOMAIN Configured) /\ Tail(task.roles) # <<>>
      BY <3>b, <3>c, Zenon DEF C, s
    <3>3. task'.roles = Tail(task.roles)
          /\ task' \in [roles : Seq(DOMAIN Configured), request : Request]
      BY <3>1, <3>2 DEF TypeOK
    <3>4. task'.roles # <<>>
      BY <3>2, <3>3
    <3> QED BY <1>4, <3>3, <3>4 DEF Attempted, TypeOK
  <2> QED BY <2>3, <2>4
<1>5. ASSUME NEW w \in Worker, Refresh(w) PROVE TypeOK'
  <2>1. PICK row \in Rows[w] : fleet' = [fleet EXCEPT ![w] = row]
    BY <1>5 DEF Refresh
  <2>2. row \in Row BY DEF PlacementAssumption
  <2>3. fleet' \in [Worker -> Row] BY <2>1, <2>2 DEF TypeOK
  <2>4. refreshes' \in 0 .. MaxRefreshes
    <3>1. refreshes \in 0 .. MaxRefreshes /\ MaxRefreshes \in Nat
      BY DEF TypeOK, PlacementAssumption
    <3>2. refreshes < MaxRefreshes /\ refreshes' = refreshes + 1
      BY <1>5 DEF Refresh
    <3> QED BY <3>1, <3>2
  <2> QED BY <1>5, <2>3, <2>4 DEF Refresh, TypeOK
<1>6. ASSUME NEW w \in Worker, NEW m \in Model, NEW c \in Probed, NEW o \in Outcome,
             VerifyCandidate(w, m, c, o)
      PROVE  TypeOK'
  <2>1. [model |-> m, capability |-> c, outcome |-> o] \in EvidenceRecord
    BY DEF EvidenceRecord
  <2>2. evidence' \in Seq(EvidenceRecord)
    BY <1>6, <2>1 DEF VerifyCandidate, TypeOK
  <2> QED BY <1>6, <2>2 DEF VerifyCandidate, TypeOK
<1>7. CASE UNCHANGED vars
  BY <1>7 DEF vars, TypeOK
<1> QED BY <1>1, <1>2, <1>3, <1>4, <1>5, <1>6, <1>7 DEF Next

\* Every reachable state of the placement is well typed.
THEOREM TypeCorrect == Spec => []TypeOK
<1>1. Init => TypeOK BY InitType, PlacementAssumption
<1>2. TypeOK /\ [Next]_vars => TypeOK' BY StepType, PlacementAssumption
<1> QED BY <1>1, <1>2, PTL DEF Spec

\* Only Resolve decides.
LEMMA OnlyResolveDecides ==
  ASSUME TypeOK, [Next]_vars, Resolving
  PROVE  Resolve /\ decision = Undecided /\ decision' # Undecided
<1>1. ~(decision' = decision) /\ ~(decision' = Undecided)
  BY DEF Resolving, Undecided
<1>2. decision = Undecided
  BY DEF TypeOK, Resolving, Resolution
<1>3. ~ UNCHANGED vars
  BY <1>1 DEF vars
<1>4. ASSUME NEW p \in Profiles, NEW q \in Requests, Plan(p, q) PROVE FALSE
  BY <1>1, <1>4 DEF Plan
<1>5. ASSUME NEW order \in Orders, Capture(order) PROVE FALSE
  BY <1>1, <1>5 DEF Capture
<1>6. ASSUME NEW over \in BOOLEAN, Attempted(over) PROVE FALSE
  BY <1>1, <1>6 DEF Attempted
<1>7. ASSUME NEW w \in Worker, Refresh(w) PROVE FALSE
  BY <1>1, <1>7 DEF Refresh
<1>8. ASSUME NEW w \in Worker, NEW m \in Model, NEW c \in Probed, NEW o \in Outcome,
             VerifyCandidate(w, m, c, o)
      PROVE  FALSE
  BY <1>1, <1>8 DEF VerifyCandidate
<1> QED BY <1>1, <1>2, <1>3, <1>4, <1>5, <1>6, <1>7, <1>8 DEF Next

\* What Resolve decides: one of the four ways, for the role and request at hand.
LEMMA ResolveDecides ==
  ASSUME TypeOK, Resolve
  PROVE  /\ task.request \in Request
         /\ \/ ByPin(status, evidence, ResolvedRole, task.request, decision')
            \/ ByAutomatic(status, evidence, ResolvedRole, task.request, decision')
            \/ ByRefusal(status, ResolvedRole, task.request, decision')
            \/ ByAbsence(status, evidence, ResolvedRole, task.request, decision')
<1>1. decision' \in Resolutions(status, evidence, ResolvedRole, task.request)
  BY DEF Resolve, ResolvedRole
<1>2. task.request \in Request
  BY DEF TypeOK
<1> QED BY <1>1, <1>2, ResolutionCases, Zenon

\* A request that is no exact pin names neither a worker nor a model.
LEMMA UnpinnedNamesNothing ==
  ASSUME NEW q \in Request, q.mode \in {"AUTO", "ROLE"}
  PROVE  q.worker = NoWorker /\ q.model = NoModel
BY DEF Request

LEMMA PinsStep ==
  ASSUME PlacementAssumption, TypeOK, [Next]_vars, Resolving,
         ~task.request.fallback, decision'.available
  PROVE  /\ task.request.worker \in {NoWorker, decision'.worker}
         /\ task.request.model \in {NoModel, decision'.model}
<1> DEFINE q == task.request
<1>1. Resolve BY OnlyResolveDecides
<1>2. q \in Request BY <1>1, ResolveDecides
<1>3. CASE ByPin(status, evidence, ResolvedRole, q, decision')
  <2>1. PICK p \in Pinned(status, evidence, ResolvedRole, q) :
          decision' = Decision(status, ResolvedRole, p.model, p.worker, TRUE)
    BY <1>3 DEF ByPin
  <2>2. decision'.model = p.model /\ decision'.worker = p.worker
    BY <2>1 DEF Decision
  <2>3. q.worker \in {NoWorker, p.worker} /\ q.model \in {NoModel, p.model}
    BY <1>2, PinnedReal
  <2> QED BY <2>2, <2>3
<1>4. CASE ByAutomatic(status, evidence, ResolvedRole, q, decision')
  <2>1. q.mode \in {"AUTO", "ROLE"} BY <1>4 DEF ByAutomatic
  <2> QED BY <1>2, <2>1, UnpinnedNamesNothing
<1>5. CASE ByRefusal(status, ResolvedRole, q, decision')
  <2>1. decision'.available = FALSE BY <1>5 DEF ByRefusal, Decision
  <2> QED BY <2>1
<1>6. CASE ByAbsence(status, evidence, ResolvedRole, q, decision')
  <2>1. q.mode \in {"AUTO", "ROLE"} BY <1>6 DEF ByAbsence
  <2> QED BY <1>2, <2>1, UnpinnedNamesNothing
<1> QED BY <1>1, <1>3, <1>4, <1>5, <1>6, ResolveDecides

\* An exact pin without fallback resolves to what it names or to nothing.
THEOREM PinsAreExact == Spec => PinsFailClosed
<1>1. TypeOK /\ [Next]_vars
        => [(/\ Resolving
             /\ ~task.request.fallback
             /\ decision'.available)
             => /\ task.request.worker \in {NoWorker, decision'.worker}
                /\ task.request.model \in {NoModel, decision'.model}]_vars
  BY PinsStep, PlacementAssumption
<1> QED BY <1>1, TypeCorrect, PTL DEF Spec, PinsFailClosed

LEMMA RealStep ==
  ASSUME PlacementAssumption, TypeOK, [Next]_vars, Resolving,
         decision'.available, Enabled
  PROVE  /\ decision'.worker \in Worker
         /\ status.rows[decision'.worker].up
         /\ decision'.model \in Listed(status.rows[decision'.worker])
         /\ (/\ task.request.mode \in {"WORKER", "MODEL", "WORKER_MODEL_ROLE"}
             /\ ~task.request.fallback)
              => status.rows[decision'.worker].freshness = "CURRENT"
<1> DEFINE q == task.request
<1>1. Resolve BY OnlyResolveDecides
<1>2. q \in Request BY <1>1, ResolveDecides
<1>3. CASE ByPin(status, evidence, ResolvedRole, q, decision')
  <2>1. PICK p \in Pinned(status, evidence, ResolvedRole, q) :
          decision' = Decision(status, ResolvedRole, p.model, p.worker, TRUE)
    BY <1>3 DEF ByPin
  <2>2. decision'.model = p.model /\ decision'.worker = p.worker
    BY <2>1 DEF Decision
  <2>3. /\ Real(status, p)
        /\ q.mode \in {"WORKER", "MODEL", "WORKER_MODEL_ROLE"}
             => status.rows[p.worker].freshness = "CURRENT"
    BY <1>2, PinnedReal
  <2> QED BY <2>2, <2>3 DEF Real
<1>4. CASE ByAutomatic(status, evidence, ResolvedRole, q, decision')
  <2>1. PICK p \in Automatic(status, evidence, ResolvedRole) :
          decision' = Decision(status, ResolvedRole, p.model, p.worker, TRUE)
    BY <1>4 DEF ByAutomatic
  <2>2. decision'.model = p.model /\ decision'.worker = p.worker
    BY <2>1 DEF Decision
  <2>3. Real(status, p) BY AutomaticReal
  <2>4. q.mode \in {"AUTO", "ROLE"} \/ q.fallback BY <1>4 DEF ByAutomatic
  <2> QED BY <2>2, <2>3, <2>4 DEF Real
<1>5. CASE ByRefusal(status, ResolvedRole, q, decision')
  <2>1. decision'.available = FALSE BY <1>5 DEF ByRefusal, Decision
  <2> QED BY <2>1
<1>6. CASE ByAbsence(status, evidence, ResolvedRole, q, decision')
  <2>1. decision'.available <=> ~Enabled BY <1>6, Zenon DEF ByAbsence, Decision
  <2> QED BY <2>1
<1> QED BY <1>1, <1>3, <1>4, <1>5, <1>6, ResolveDecides

\* Whatever is selected is up, listed and fresh enough in the captured status.
THEOREM SelectionCorrect == Spec => SelectionIsReal
<1>1. TypeOK /\ [Next]_vars
        => [(Resolving /\ decision'.available /\ Enabled)
             => /\ decision'.worker \in Worker
                /\ status.rows[decision'.worker].up
                /\ decision'.model \in Listed(status.rows[decision'.worker])
                /\ (/\ task.request.mode \in {"WORKER", "MODEL", "WORKER_MODEL_ROLE"}
                    /\ ~task.request.fallback)
                     => status.rows[decision'.worker].freshness = "CURRENT"]_vars
  BY RealStep, PlacementAssumption
<1> QED BY <1>1, TypeCorrect, PTL DEF Spec, SelectionIsReal

\* A last failure is what is observed.
LEMMA FailureObserved ==
  ASSUME NEW records \in Seq(EvidenceRecord), NEW m, NEW c, FailedLast(records, m, c)
  PROVE  Observed(records, m, c) = "FAIL"
<1> DEFINE about == {i \in DOMAIN records : records[i].model = m /\ records[i].capability = c}
           last == CHOOSE i \in about : \A j \in about : j <= i
<1>1. PICK i \in DOMAIN records :
        /\ records[i].model = m /\ records[i].capability = c /\ records[i].outcome = "FAIL"
        /\ \A j \in DOMAIN records :
             (j > i) => ~(records[j].model = m /\ records[j].capability = c)
  BY DEF FailedLast
<1>2. about \subseteq Nat /\ i \in about
  BY <1>1
<1>3. \A j \in about : j <= i
  BY <1>1, <1>2
<1>4. last \in about /\ \A j \in about : j <= last
  BY <1>2, <1>3
<1>5. last = i
  <2> HIDE DEF last, about
  <2> QED BY <1>2, <1>3, <1>4
<1>6. Observed(records, m, c)
        = IF about = {} \/ records[last].outcome = "UNKNOWN" THEN "NONE" ELSE records[last].outcome
  BY DEF Observed
<1> HIDE DEF last, about
<1> QED BY <1>1, <1>2, <1>5, <1>6

\* A model selected under another name than the configured one passed the gates.
LEMMA SelectedUnfailed ==
  ASSUME NEW records \in Seq(EvidenceRecord), NEW role, NEW copies,
         NEW m \in SelectInstalled(records, role, copies), m # Configured[role]
  PROVE  /\ ~FailedLast(records, m, "reachability")
         /\ Requirements(role).tools => ~FailedLast(records, m, "tool_call")
<1> DEFINE need == Requirements(role)
<1>1. m \in Admissible(records, copies, need)
  BY DEF SelectInstalled
<1>2. Eligible(records, m, copies[m], need)
  BY <1>1 DEF Admissible
<1>3. /\ Observed(records, m, "reachability") # "FAIL"
      /\ need.tools => Observed(records, m, "tool_call") # "FAIL"
  <2> HIDE DEF need
  <2> QED BY <1>2 DEF Eligible, CapabilityEligible
<1> QED BY <1>3, FailureObserved

LEMMA HeededStep ==
  ASSUME PlacementAssumption, TypeOK, [Next]_vars, Resolving,
         decision'.available, decision'.worker # NoWorker,
         decision'.model \notin {Configured[ResolvedRole], task.request.model}
  PROVE  /\ ~FailedLast(evidence, decision'.model, "reachability")
         /\ Requirements(ResolvedRole).tools
              => ~FailedLast(evidence, decision'.model, "tool_call")
<1> DEFINE q == task.request
<1>1. Resolve /\ evidence \in Seq(EvidenceRecord)
  BY OnlyResolveDecides DEF TypeOK
<1>2. q \in Request BY <1>1, ResolveDecides
<1>3. CASE ByPin(status, evidence, ResolvedRole, q, decision')
  <2>1. PICK p \in Pinned(status, evidence, ResolvedRole, q) :
          decision' = Decision(status, ResolvedRole, p.model, p.worker, TRUE)
    BY <1>3 DEF ByPin
  <2>2. decision'.model = p.model
    BY <2>1 DEF Decision
  <2>3. q.model \in {NoModel, p.model}
    BY <1>2, PinnedReal
  <2>4. q.mode \notin {"AUTO", "ROLE"}
    <3>1. CASE q.mode \in {"AUTO", "ROLE"} BY <2>1, <3>1 DEF Pinned
    <3> QED BY <3>1
  <2>5. q.mode = "WORKER"
    BY <1>2, <2>2, <2>3, <2>4 DEF Request, Mode
  <2>6. p.model \in SelectInstalled(evidence, ResolvedRole, Merged(status, {q.worker}))
    <3>1. PICK m \in {n \in SelectInstalled(evidence, ResolvedRole, Merged(status, {q.worker})) :
                       PinHolds(status.rows[q.worker], q.mode)} :
            p = [model |-> m, worker |-> q.worker]
      BY <2>1, <2>5 DEF Pinned
    <3> QED BY <3>1
  <2> QED BY <1>1, <2>2, <2>6, SelectedUnfailed
<1>4. CASE ByAutomatic(status, evidence, ResolvedRole, q, decision')
  <2>1. PICK p \in Automatic(status, evidence, ResolvedRole) :
          decision' = Decision(status, ResolvedRole, p.model, p.worker, TRUE)
    BY <1>4 DEF ByAutomatic
  <2>2. decision'.model = p.model
    BY <2>1 DEF Decision
  <2>3. p.model \in SelectInstalled(evidence, ResolvedRole, Merged(status, Candidates(status)))
    BY AutomaticReal
  <2> QED BY <1>1, <2>2, <2>3, SelectedUnfailed
<1>5. CASE ByRefusal(status, ResolvedRole, q, decision')
  <2>1. decision'.available = FALSE BY <1>5 DEF ByRefusal, Decision
  <2> QED BY <2>1
<1>6. CASE ByAbsence(status, evidence, ResolvedRole, q, decision')
  <2>1. decision'.worker = NoWorker BY <1>6 DEF ByAbsence, Decision
  <2> QED BY <2>1
<1> QED BY <1>1, <1>3, <1>4, <1>5, <1>6, ResolveDecides

\* No model is selected unasked for a role whose needs it last failed.
THEOREM FailuresAreHeeded == Spec => FailuresHeeded
<1>1. TypeOK /\ [Next]_vars
        => [(/\ Resolving
             /\ decision'.available
             /\ decision'.worker # NoWorker
             /\ decision'.model \notin {Configured[ResolvedRole], task.request.model})
             => /\ ~FailedLast(evidence, decision'.model, "reachability")
                /\ Requirements(ResolvedRole).tools
                     => ~FailedLast(evidence, decision'.model, "tool_call")]_vars
  BY HeededStep, PlacementAssumption
<1> QED BY <1>1, TypeCorrect, PTL DEF Spec, FailuresHeeded

LEMMA CascadeStep ==
  ASSUME PlacementAssumption, TypeOK, CascadeIsBounded, [Next]_vars
  PROVE  CascadeIsBounded'
<1>1. ASSUME NEW p \in Profiles, NEW q \in Requests, Plan(p, q) PROVE CascadeIsBounded'
  <2>1. p \in Profile /\ q \in Request BY DEF PlacementAssumption
  <2>2. PICK roles \in PlanRoute(p, q) : task' = [roles |-> roles, request |-> q]
    BY <1>1 DEF Plan
  <2>3. /\ q.mode # "AUTO" => Len(roles) = 1
        /\ Len(roles) <= MaxAttempts \/ Len(roles) = 1
        /\ (Lanes = {} /\ {"e2b", "e4b"} \subseteq DOMAIN Configured) => Distinct(roles)
    BY <2>1, PlanRouteFacts
  <2>4. task'.roles = roles /\ task'.request = q
    BY <2>2
  <2> QED BY <2>3, <2>4 DEF CascadeIsBounded, Distinct
<1>2. ASSUME NEW over \in BOOLEAN, Attempted(over) PROVE CascadeIsBounded'
  <2> DEFINE C == DOMAIN Configured
             s == task.roles
  <2>1. CASE over \/ Len(task.roles) = 1
    BY <1>2, <2>1 DEF Attempted, CascadeIsBounded
  <2>2. CASE ~(over \/ Len(task.roles) = 1)
    <3>1. task' = [task EXCEPT !.roles = Tail(@)] BY <1>2, <2>2 DEF Attempted
    <3>2. task'.roles = Tail(s) /\ task'.request = task.request BY <3>1 DEF TypeOK
    <3>3. s \in Seq(C) /\ s # <<>> /\ task # Idle BY <1>2 DEF Attempted, TypeOK
    <3>4. /\ task.request.mode = "AUTO"
          /\ Len(s) <= MaxAttempts
          /\ (Lanes = {} /\ {"e2b", "e4b"} \subseteq DOMAIN Configured) => Distinct(s)
      BY <2>2, <3>3 DEF CascadeIsBounded, Distinct
    <3>5. /\ Len(Tail(s)) = Len(s) - 1 /\ Len(s) \in Nat
          /\ DOMAIN Tail(s) = 1 .. Len(Tail(s)) /\ DOMAIN s = 1 .. Len(s)
          /\ \A i \in 1 .. Len(Tail(s)) : Tail(s)[i] = s[i + 1]
      <4> HIDE DEF s, C
      <4> QED BY <3>3, HeadTailProperties
    <3>6. ASSUME Distinct(s) PROVE Distinct(Tail(s))
      <4> HIDE DEF s, C
      <4> QED BY <3>5, <3>6 DEF Distinct
    <3>7. Len(Tail(s)) <= MaxAttempts
      BY <3>4, <3>5 DEF PlacementAssumption
    <3> HIDE DEF s, C
    <3> QED BY <3>2, <3>4, <3>6, <3>7 DEF CascadeIsBounded, Distinct
  <2> QED BY <2>1, <2>2
<1>3. ASSUME UNCHANGED task PROVE CascadeIsBounded'
  BY <1>3 DEF CascadeIsBounded
<1>4. (\E p \in Profiles, q \in Requests : Plan(p, q)) \/ (\E over \in BOOLEAN : Attempted(over))
        \/ UNCHANGED task
  BY Zenon DEF Next, vars, Capture, Resolve, Refresh, VerifyCandidate
<1> QED BY <1>1, <1>2, <1>3, <1>4

\* A pin is tried once, and a cascade stays within its limits and repeats no role.
THEOREM CascadeCorrect == Spec => []CascadeIsBounded
<1>1. Init => CascadeIsBounded BY DEF Init, CascadeIsBounded
<1>2. TypeOK /\ CascadeIsBounded /\ [Next]_vars => CascadeIsBounded'
  BY CascadeStep, PlacementAssumption
<1> QED BY <1>1, <1>2, TypeCorrect, PTL DEF Spec


-----------------------------------------------------------------------------
(***************************************************************************)
(* The rankings.  A finite set of candidates whose sort keys differ has    *)
(* exactly one that precedes all others.                                   *)
(***************************************************************************)
LEMMA PrecedesTotal ==
  ASSUME NEW n \in Nat, NEW a \in [1 .. n -> Int], NEW b \in [1 .. n -> Int], a # b
  PROVE  Precedes(a, b) \/ Precedes(b, a)
<1> DEFINE R == {p \in Nat \X Nat : p[1] < p[2]}
           D == {i \in 1 .. n : a[i] # b[i]}
<1>1. R = OpToRel(<, Nat)
  BY Zenon DEF OpToRel
<1>2. IsWellFoundedOn(R, Nat)
  BY <1>1, NatLessThanWellFounded, Zenon
<1>3. D \subseteq Nat /\ D # {}
  <2>1. ASSUME D = {} PROVE FALSE
    <3>1. \A i \in 1 .. n : a[i] = b[i]
      BY <2>1
    <3>2. a = [i \in 1 .. n |-> a[i]] /\ b = [i \in 1 .. n |-> b[i]]
      OBVIOUS
    <3>3. [i \in 1 .. n |-> a[i]] = [i \in 1 .. n |-> b[i]]
      BY <3>1
    <3> QED BY <3>2, <3>3, Zenon
  <2>2. D \subseteq Nat
    OBVIOUS
  <2> HIDE DEF D
  <2> QED BY <2>1, <2>2
<1>4. PICK i \in D : \A j \in D : ~(<<j, i>> \in R)
  <2> HIDE DEF R, D
  <2> QED BY <1>2, <1>3, WFMin
<1>5. ASSUME NEW j \in 1 .. (i - 1) PROVE a[j] = b[j]
  <2>1. j \in 1 .. n /\ j < i /\ i \in Nat
    OBVIOUS
  <2>2. <<j, i>> \in R
    BY <2>1
  <2> QED
    BY <1>4, <2>1, <2>2
<1>6. i \in 1 .. n /\ a[i] \in Int /\ b[i] \in Int /\ a[i] # b[i]
  OBVIOUS
<1>7. a[i] < b[i] \/ b[i] < a[i]
  BY <1>6
<1> QED
  BY <1>5, <1>6, <1>7 DEF Precedes

LEMMA PrecedesTransitive ==
  ASSUME NEW n \in Nat, NEW a \in [1 .. n -> Int], NEW b \in [1 .. n -> Int], NEW c \in [1 .. n -> Int],
         Precedes(a, b), Precedes(b, c)
  PROVE  Precedes(a, c)
<1>1. PICK i \in 1 .. n : a[i] < b[i] /\ \A j \in 1 .. (i - 1) : a[j] = b[j]
  BY DEF Precedes
<1>2. PICK k \in 1 .. n : b[k] < c[k] /\ \A j \in 1 .. (k - 1) : b[j] = c[j]
  BY DEF Precedes
<1>3. CASE i < k
  <2>1. a[i] < c[i] /\ \A j \in 1 .. (i - 1) : a[j] = c[j]
    BY <1>1, <1>2, <1>3
  <2> QED BY <2>1 DEF Precedes
<1>4. CASE k < i
  <2>1. a[k] < c[k] /\ \A j \in 1 .. (k - 1) : a[j] = c[j]
    BY <1>1, <1>2, <1>4
  <2> QED BY <2>1 DEF Precedes
<1>5. CASE i = k
  <2>1. a[i] < c[i] /\ \A j \in 1 .. (i - 1) : a[j] = c[j]
    BY <1>1, <1>2, <1>5
  <2> QED BY <2>1 DEF Precedes
<1> QED
  BY <1>3, <1>4, <1>5

LEMMA PrecedesStrict ==
  ASSUME NEW n \in Nat, NEW a \in [1 .. n -> Int], NEW b \in [1 .. n -> Int]
  PROVE  ~(Precedes(a, b) /\ Precedes(b, a))
<1> SUFFICES ASSUME Precedes(a, b), Precedes(b, a) PROVE FALSE
  OBVIOUS
<1>1. PICK i \in 1 .. n : a[i] < b[i] /\ \A j \in 1 .. (i - 1) : a[j] = b[j]
  BY DEF Precedes
<1>2. PICK k \in 1 .. n : b[k] < a[k] /\ \A j \in 1 .. (k - 1) : b[j] = a[j]
  BY DEF Precedes
<1>3. a[i] \in Int /\ b[i] \in Int /\ a[k] \in Int /\ b[k] \in Int /\ i \in Int /\ k \in Int
  OBVIOUS
<1>4. CASE i < k
  <2>1. i \in 1 .. (k - 1)
    BY <1>4
  <2> QED BY <1>1, <1>2, <1>3, <2>1
<1>5. CASE k < i
  <2>1. k \in 1 .. (i - 1)
    BY <1>5
  <2> QED BY <1>1, <1>2, <1>3, <2>1
<1> QED
  BY <1>1, <1>2, <1>3, <1>4, <1>5

\* The candidate of S whose key precedes every other key.
Firsts(S, key) == {m \in S : \A n \in S \ {m} : Precedes(key[m], key[n])}

LEMMA OneFirst ==
  ASSUME NEW S, IsFiniteSet(S), S # {}, NEW n \in Nat, NEW key \in [S -> [1 .. n -> Int]],
         \A a, b \in S : key[a] = key[b] => a = b
  PROVE  Firsts(S, key) # {}
<1> DEFINE Bad == {T \in SUBSET S : T # {} /\ Firsts(T, key) = {}}
<1> SUFFICES ASSUME S \in Bad PROVE FALSE
  OBVIOUS
<1>1. Bad \subseteq FiniteSubsetsOf(S)
  BY FS_FiniteSubsetsOfFinite
<1>2. IsWellFoundedOn(StrictSubsetOrdering(S), FiniteSubsetsOf(S))
  BY FS_StrictSubsetOrderingWellFounded
<1>3. PICK T \in Bad : \A U \in Bad : ~(<<U, T>> \in StrictSubsetOrdering(S))
  <2>1. Bad # {}
    OBVIOUS
  <2> HIDE DEF Bad
  <2> QED BY <1>1, <1>2, <2>1, WFMin
<1>4. PICK x \in T : TRUE
  OBVIOUS
<1> DEFINE U == T \ {x}
<1>5. U \in SUBSET S /\ <<U, T>> \in StrictSubsetOrdering(S)
  BY DEF StrictSubsetOrdering
<1>6. U \notin Bad
  BY <1>3, <1>5
<1>7. CASE U = {}
  <2>1. x \in Firsts(T, key)
    BY <1>7 DEF Firsts
  <2> QED BY <2>1
<1>8. CASE U # {}
  <2>1. PICK y \in U : \A z \in U \ {y} : Precedes(key[y], key[z])
    BY <1>5, <1>6, <1>8 DEF Firsts
  <2>2. x \in S /\ y \in S /\ x # y /\ key[x] # key[y]
        /\ key[x] \in [1 .. n -> Int] /\ key[y] \in [1 .. n -> Int]
    OBVIOUS
  <2>3. CASE Precedes(key[y], key[x])
    <3>1. y \in Firsts(T, key)
      BY <2>1, <2>3 DEF Firsts
    <3> QED BY <3>1
  <2>4. CASE Precedes(key[x], key[y])
    <3>1. ASSUME NEW z \in T \ {x} PROVE Precedes(key[x], key[z])
      <4>1. CASE z = y
        BY <2>4, <4>1
      <4>2. CASE z # y
        <5>1. Precedes(key[y], key[z]) /\ key[z] \in [1 .. n -> Int]
          BY <2>1, <4>2
        <5> QED BY <2>2, <2>4, <5>1, PrecedesTransitive
      <4> QED BY <4>1, <4>2
    <3>2. x \in Firsts(T, key)
      BY <3>1 DEF Firsts
    <3> QED BY <3>2
  <2> QED
    BY <2>2, <2>3, <2>4, PrecedesTotal
<1> QED
  BY <1>7, <1>8

LEMMA NotTwoFirsts ==
  ASSUME NEW S, NEW n \in Nat, NEW key \in [S -> [1 .. n -> Int]],
         NEW a \in Firsts(S, key), NEW b \in Firsts(S, key)
  PROVE  a = b
<1> SUFFICES ASSUME a # b PROVE FALSE
  OBVIOUS
<1>1. Precedes(key[a], key[b]) /\ Precedes(key[b], key[a])
      /\ key[a] \in [1 .. n -> Int] /\ key[b] \in [1 .. n -> Int]
  BY DEF Firsts
<1> QED
  BY <1>1, PrecedesStrict


\* A set of positions that is not empty has a last one.
LEMMA LastPosition ==
  ASSUME NEW n \in Nat, NEW S \in SUBSET (1 .. n), S # {}
  PROVE  \E i \in S : \A j \in S : j <= i
<1> DEFINE key == [i \in S |-> [k \in 1 .. 1 |-> -i]]
<1>1. IsFiniteSet(S)
  <2>1. IsFiniteSet(1 .. n)
    BY FS_Interval
  <2> QED BY <2>1, FS_Subset
<1>2. key \in [S -> [1 .. 1 -> Int]] /\ \A a, b \in S : key[a] = key[b] => a = b
  <2>1. \A a \in S : key[a][1] = -a /\ a \in Int
    OBVIOUS
  <2>2. \A a, b \in S : key[a] = key[b] => -a = -b
    BY <2>1
  <2> QED BY <2>1, <2>2
<1>3. PICK i \in S : \A j \in S \ {i} : Precedes(key[i], key[j])
  <2>1. Firsts(S, key) # {}
    <3> HIDE DEF key
    <3> QED BY <1>1, <1>2, OneFirst
  <2> QED BY <2>1 DEF Firsts
<1>4. ASSUME NEW j \in S \ {i} PROVE j <= i
  <2>1. DOMAIN key[i] = 1 .. 1 /\ key[i][1] = -i /\ key[j][1] = -j
    OBVIOUS
  <2>2. PICK k \in DOMAIN key[i] : key[i][k] < key[j][k]
    BY <1>3 DEF Precedes
  <2>3. k = 1
    BY <2>1, <2>2
  <2> QED BY <2>1, <2>2, <2>3
<1> QED
  BY <1>4

\* Moving one component of a key down, or of the other key up, keeps the order.
LEMMA Sooner ==
  ASSUME NEW n \in Nat, NEW a \in [1 .. n -> Int], NEW b \in [1 .. n -> Int],
         NEW a2 \in [1 .. n -> Int], NEW k \in 1 .. n, Precedes(a, b),
         a2[k] <= a[k], \A i \in (1 .. n) \ {k} : a2[i] = a[i]
  PROVE  Precedes(a2, b)
<1>1. PICK i \in 1 .. n : a[i] < b[i] /\ \A j \in 1 .. (i - 1) : a[j] = b[j]
  BY DEF Precedes
<1>2. a[k] \in Int /\ a2[k] \in Int /\ b[k] \in Int /\ a[i] \in Int /\ b[i] \in Int /\ a2[i] \in Int
  OBVIOUS
<1>3. CASE a2[k] = a[k] \/ i < k
  <2>1. a2[i] < b[i] /\ \A j \in 1 .. (i - 1) : a2[j] = b[j]
    BY <1>1, <1>3
  <2> QED BY <2>1 DEF Precedes
<1>4. CASE i = k
  <2>1. a2[i] < b[i] /\ \A j \in 1 .. (i - 1) : a2[j] = b[j]
    BY <1>1, <1>2, <1>4
  <2> QED BY <2>1 DEF Precedes
<1>5. CASE a2[k] < a[k] /\ k < i
  <2>1. a[k] = b[k]
    BY <1>1, <1>5
  <2>2. a2[k] < b[k] /\ \A j \in 1 .. (k - 1) : a2[j] = b[j]
    BY <1>1, <1>2, <1>5, <2>1
  <2> QED BY <2>2 DEF Precedes
<1> QED
  BY <1>2, <1>3, <1>4, <1>5

LEMMA Later ==
  ASSUME NEW n \in Nat, NEW a \in [1 .. n -> Int], NEW b \in [1 .. n -> Int],
         NEW b2 \in [1 .. n -> Int], NEW k \in 1 .. n, Precedes(a, b),
         b[k] <= b2[k], \A i \in (1 .. n) \ {k} : b2[i] = b[i]
  PROVE  Precedes(a, b2)
<1>1. PICK i \in 1 .. n : a[i] < b[i] /\ \A j \in 1 .. (i - 1) : a[j] = b[j]
  BY DEF Precedes
<1>2. a[k] \in Int /\ b2[k] \in Int /\ b[k] \in Int /\ a[i] \in Int /\ b[i] \in Int /\ b2[i] \in Int
  OBVIOUS
<1>3. CASE b2[k] = b[k] \/ i < k
  <2>1. a[i] < b2[i] /\ \A j \in 1 .. (i - 1) : a[j] = b2[j]
    BY <1>1, <1>3
  <2> QED BY <2>1 DEF Precedes
<1>4. CASE i = k
  <2>1. a[i] < b2[i] /\ \A j \in 1 .. (i - 1) : a[j] = b2[j]
    BY <1>1, <1>2, <1>4
  <2> QED BY <2>1 DEF Precedes
<1>5. CASE b[k] < b2[k] /\ k < i
  <2>1. a[k] = b[k]
    BY <1>1, <1>5
  <2>2. a[k] < b2[k] /\ \A j \in 1 .. (k - 1) : a[j] = b2[j]
    BY <1>1, <1>2, <1>5, <2>1
  <2> QED BY <2>2 DEF Precedes
<1> QED
  BY <1>2, <1>3, <1>4, <1>5

-----------------------------------------------------------------------------
\* The sort keys of models and of workers.
LEMMA RankKeyType ==
  ASSUME PlacementAssumption, NEW records, NEW m \in Model, NEW copy, NEW role
  PROVE  /\ RankKey(records, m, copy, Requirements(role)) \in [1 .. 6 -> Int]
         /\ RankKey(records, m, copy, Requirements(role))[6] = NameRank[m]
<1> DEFINE need == Requirements(role)
           key == RankKey(records, m, copy, need)
<1>1. \A fact : Last(fact) \in Int
  BY DEF Last
<1>2. SizeRank(m, need.prefers) \in Int
  <2>1. need.prefers \in {"small", "large", "fit"}
    BY DEF Requirements
  <2>2. Size[m] \in Nat /\ Unsized \in Nat /\ MaxCoder \in Nat
    BY DEF PlacementAssumption
  <2> HIDE DEF need
  <2> QED BY <2>1, <2>2 DEF SizeRank
<1>3. NameRank[m] \in Int
  BY DEF PlacementAssumption
<1>4. \A x1, x2, x3, x4, x5, x6 \in Int :
         <<x1, x2, x3, x4, x5, x6>> \in [1 .. 6 -> Int] /\ <<x1, x2, x3, x4, x5, x6>>[6] = x6
  OBVIOUS
<1> HIDE DEF need
<1>5. key \in [1 .. 6 -> Int] /\ key[6] = NameRank[m]
  BY <1>1, <1>2, <1>3, <1>4, Zenon DEF RankKey
<1> QED
  BY <1>5 DEF need

\* The keys of the admissible models.
Fit(records, role, copies) == Admissible(records, copies, Requirements(role))
FitKeys(records, role, copies) ==
  [m \in Fit(records, role, copies) |-> RankKey(records, m, copies[m], Requirements(role))]

LEMMA SelectedFirst ==
  ASSUME PlacementAssumption, NEW records, NEW role \in DOMAIN Configured, NEW copies,
         DOMAIN copies \subseteq Model
  PROVE  /\ SelectInstalled(records, role, copies)
               = IF Configured[role] \in DOMAIN copies THEN {Configured[role]}
                 ELSE Firsts(Fit(records, role, copies), FitKeys(records, role, copies))
         /\ IsFiniteSet(Fit(records, role, copies))
         /\ FitKeys(records, role, copies) \in [Fit(records, role, copies) -> [1 .. 6 -> Int]]
         /\ \A a, b \in Fit(records, role, copies) :
              FitKeys(records, role, copies)[a] = FitKeys(records, role, copies)[b] => a = b
<1> DEFINE need == Requirements(role)
           fit == Fit(records, role, copies)
           key == FitKeys(records, role, copies)
<1>1. fit \subseteq Model
  BY DEF Fit, Admissible
<1>2. IsFiniteSet(fit)
  BY <1>1, FS_Subset DEF PlacementAssumption
<1>3. ASSUME NEW m \in fit
      PROVE  /\ key[m] = RankKey(records, m, copies[m], need)
             /\ key[m] \in [1 .. 6 -> Int] /\ key[m][6] = NameRank[m]
  <2>1. key[m] = RankKey(records, m, copies[m], need)
    BY DEF FitKeys
  <2>2. m \in Model
    BY <1>1
  <2> HIDE DEF key
  <2> QED BY <2>1, <2>2, RankKeyType
<1>4. key \in [fit -> [1 .. 6 -> Int]]
  <2>1. key = [m \in fit |-> key[m]]
    BY DEF FitKeys
  <2> HIDE DEF key, fit
  <2> QED BY <1>3, <2>1
<1>5. ASSUME NEW a \in fit, NEW b \in fit, key[a] = key[b] PROVE a = b
  <2>1. NameRank[a] = NameRank[b] /\ a \in Model /\ b \in Model
    <3> HIDE DEF key, fit
    <3> QED BY <1>1, <1>3, <1>5
  <2> QED BY <2>1 DEF PlacementAssumption
<1>6. Firsts(fit, key) = {m \in fit : \A n \in fit \ {m} :
         Precedes(RankKey(records, m, copies[m], need), RankKey(records, n, copies[n], need))}
  <2> HIDE DEF fit, key, need
  <2> QED BY <1>3 DEF Firsts
<1>7. SelectInstalled(records, role, copies)
        = IF Configured[role] \in DOMAIN copies THEN {Configured[role]} ELSE Firsts(fit, key)
  BY <1>6, Zenon DEF SelectInstalled, Fit
<1> QED
  BY <1>2, <1>4, <1>5, <1>7

\* One of the admissible models is selected, and only one.
LEMMA SelectedSome ==
  ASSUME PlacementAssumption, NEW records, NEW role \in DOMAIN Configured, NEW copies,
         DOMAIN copies \subseteq Model, Fit(records, role, copies) # {}
  PROVE  SelectInstalled(records, role, copies) # {}
<1> DEFINE fit == Fit(records, role, copies)
           key == FitKeys(records, role, copies)
<1>1. /\ IsFiniteSet(fit) /\ key \in [fit -> [1 .. 6 -> Int]]
      /\ \A a, b \in fit : key[a] = key[b] => a = b
  BY SelectedFirst
<1>2. Firsts(fit, key) # {}
  <2> HIDE DEF fit, key
  <2>1. fit # {}
    BY DEF fit
  <2> QED BY <1>1, <2>1, OneFirst
<1>3. \/ SelectInstalled(records, role, copies) = {Configured[role]}
      \/ SelectInstalled(records, role, copies) = Firsts(fit, key)
  BY SelectedFirst, Zenon
<1> HIDE DEF fit, key
<1> QED
  BY <1>2, <1>3

LEMMA SelectedOne ==
  ASSUME PlacementAssumption, NEW records, NEW role \in DOMAIN Configured, NEW copies,
         DOMAIN copies \subseteq Model,
         NEW m \in SelectInstalled(records, role, copies), NEW n \in SelectInstalled(records, role, copies)
  PROVE  m = n
<1> DEFINE fit == Fit(records, role, copies)
           key == FitKeys(records, role, copies)
<1>1. CASE Configured[role] \in DOMAIN copies
  <2>1. SelectInstalled(records, role, copies) = {Configured[role]}
    BY <1>1, SelectedFirst, Zenon
  <2> QED BY <2>1
<1>2. CASE Configured[role] \notin DOMAIN copies
  <2>1. SelectInstalled(records, role, copies) = Firsts(fit, key) /\ key \in [fit -> [1 .. 6 -> Int]]
    BY <1>2, SelectedFirst, Zenon
  <2> HIDE DEF fit, key
  <2>2. m \in Firsts(fit, key) /\ n \in Firsts(fit, key)
    BY <2>1
  <2>3. PICK k \in Nat : key \in [fit -> [1 .. k -> Int]]
    BY <2>1
  <2> QED BY <2>2, <2>3, NotTwoFirsts
<1> QED
  BY <1>1, <1>2

\* The keys of the workers that hold a model.
WorkerKey(st, m, warmFirst, w) ==
  <<Last(warmFirst => st.rows[w].models[m].loaded), Last(Resident[w] = m), WorkerRank[w]>>
WorkerKeys(st, W, m, warmFirst) == [w \in Holders(st, W, m) |-> WorkerKey(st, m, warmFirst, w)]

LEMMA WorkerKeyType ==
  ASSUME PlacementAssumption, NEW st, NEW m, NEW warm, NEW w \in Worker
  PROVE  /\ WorkerKey(st, m, warm, w) \in [1 .. 3 -> Int]
         /\ WorkerKey(st, m, warm, w)[1] = Last(warm => st.rows[w].models[m].loaded)
         /\ WorkerKey(st, m, warm, w)[2] = Last(Resident[w] = m)
         /\ WorkerKey(st, m, warm, w)[3] = WorkerRank[w]
<1>1. \A fact : Last(fact) \in Int
  BY DEF Last
<1>2. WorkerRank[w] \in Int
  BY DEF PlacementAssumption
<1>3. \A x1, x2, x3 \in Int : /\ <<x1, x2, x3>> \in [1 .. 3 -> Int] /\ <<x1, x2, x3>>[1] = x1
                              /\ <<x1, x2, x3>>[2] = x2 /\ <<x1, x2, x3>>[3] = x3
  OBVIOUS
<1> QED
  BY <1>1, <1>2, <1>3, Zenon DEF WorkerKey

LEMMA PlacedFirst ==
  ASSUME PlacementAssumption, NEW st, NEW W \in SUBSET Worker, NEW m, NEW warm
  PROVE  /\ Place(st, W, m, warm) = Firsts(Holders(st, W, m), WorkerKeys(st, W, m, warm))
         /\ IsFiniteSet(Holders(st, W, m))
         /\ WorkerKeys(st, W, m, warm) \in [Holders(st, W, m) -> [1 .. 3 -> Int]]
         /\ \A a, b \in Holders(st, W, m) :
              WorkerKeys(st, W, m, warm)[a] = WorkerKeys(st, W, m, warm)[b] => a = b
<1> DEFINE H == Holders(st, W, m)
           key == WorkerKeys(st, W, m, warm)
<1>1. H \subseteq Worker
  BY DEF Holders
<1>2. IsFiniteSet(H)
  BY <1>1, FS_Subset DEF PlacementAssumption
<1>3. ASSUME NEW w \in H
      PROVE  /\ key[w] = WorkerKey(st, m, warm, w)
             /\ key[w] \in [1 .. 3 -> Int] /\ key[w][3] = WorkerRank[w]
  <2>1. key[w] = WorkerKey(st, m, warm, w)
    BY DEF WorkerKeys
  <2>2. w \in Worker
    BY <1>1
  <2> HIDE DEF key
  <2> QED BY <2>1, <2>2, WorkerKeyType
<1>4. key \in [H -> [1 .. 3 -> Int]]
  <2>1. key = [w \in H |-> key[w]]
    BY DEF WorkerKeys
  <2> HIDE DEF key, H
  <2> QED BY <1>3, <2>1
<1>5. ASSUME NEW a \in H, NEW b \in H, key[a] = key[b] PROVE a = b
  <2>1. WorkerRank[a] = WorkerRank[b] /\ a \in Worker /\ b \in Worker
    <3> HIDE DEF key, H
    <3> QED BY <1>1, <1>3, <1>5
  <2> QED BY <2>1 DEF PlacementAssumption
<1>6. Place(st, W, m, warm)
        = {w \in H : \A v \in H \ {w} : Precedes(WorkerKey(st, m, warm, w), WorkerKey(st, m, warm, v))}
  BY Zenon DEF Place, WorkerKey
<1>7. Place(st, W, m, warm) = Firsts(H, key)
  <2> HIDE DEF H, key
  <2> QED BY <1>3, <1>6 DEF Firsts
<1> QED
  BY <1>2, <1>4, <1>5, <1>7

\* A model that somebody holds is placed, on one worker.
LEMMA PlacedSome ==
  ASSUME PlacementAssumption, NEW st, NEW W \in SUBSET Worker, NEW m, NEW warm, Holders(st, W, m) # {}
  PROVE  Place(st, W, m, warm) # {}
<1> DEFINE H == Holders(st, W, m)
           key == WorkerKeys(st, W, m, warm)
<1>1. /\ IsFiniteSet(H) /\ key \in [H -> [1 .. 3 -> Int]] /\ H # {}
      /\ \A a, b \in H : key[a] = key[b] => a = b
      /\ Place(st, W, m, warm) = Firsts(H, key)
  BY PlacedFirst
<1> HIDE DEF H, key
<1> QED BY <1>1, OneFirst

LEMMA PlacedOne ==
  ASSUME PlacementAssumption, NEW st, NEW W \in SUBSET Worker, NEW m, NEW warm,
         NEW v \in Place(st, W, m, warm), NEW w \in Place(st, W, m, warm)
  PROVE  v = w
<1> DEFINE H == Holders(st, W, m)
           key == WorkerKeys(st, W, m, warm)
<1>1. Place(st, W, m, warm) = Firsts(H, key) /\ key \in [H -> [1 .. 3 -> Int]]
  BY PlacedFirst, Zenon
<1> HIDE DEF H, key
<1>2. v \in Firsts(H, key) /\ w \in Firsts(H, key)
  BY <1>1
<1>3. PICK k \in Nat : key \in [H -> [1 .. k -> Int]]
  BY <1>1
<1> QED BY <1>2, <1>3, NotTwoFirsts


-----------------------------------------------------------------------------
(***************************************************************************)
(* Whatever the tags are called.  Under the default SelectionPolicy a      *)
(* model whose probes have not failed passes every gate, so a candidate    *)
(* fleet always has an admissible model.                                   *)
(***************************************************************************)
Permissive == ~RequireObserved /\ AllowUnclaimed

Unfailed(records) == \A i \in DOMAIN records : records[i].outcome # "FAIL"

LEMMA NothingObservedFailed ==
  ASSUME NEW records \in Seq(EvidenceRecord), Unfailed(records), NEW m, NEW c
  PROVE  Observed(records, m, c) # "FAIL"
<1> DEFINE about == {i \in DOMAIN records : records[i].model = m /\ records[i].capability = c}
           last == CHOOSE i \in about : \A j \in about : j <= i
<1>1. Observed(records, m, c)
        = IF about = {} \/ records[last].outcome = "UNKNOWN" THEN "NONE" ELSE records[last].outcome
  BY DEF Observed
<1>2. CASE about = {}
  <2> HIDE DEF about, last
  <2> QED BY <1>1, <1>2
<1>3. CASE about # {}
  <2>1. Len(records) \in Nat /\ about \in SUBSET (1 .. Len(records))
    OBVIOUS
  <2>2. \E i \in about : \A j \in about : j <= i
    <3> HIDE DEF about
    <3> QED BY <1>3, <2>1, LastPosition
  <2>3. last \in about
    <3> HIDE DEF about
    <3> QED BY <2>2
  <2>4. records[last].outcome # "FAIL"
    <3>1. last \in DOMAIN records
      BY <2>3
    <3> HIDE DEF last
    <3> QED BY <3>1 DEF Unfailed
  <2> HIDE DEF about, last
  <2> QED BY <1>1, <2>4
<1> QED
  BY <1>2, <1>3

LEMMA PassesGates ==
  ASSUME Permissive, NEW records \in Seq(EvidenceRecord), Unfailed(records),
         NEW m, NEW copy, NEW role
  PROVE  Eligible(records, m, copy, Requirements(role))
<1> DEFINE need == Requirements(role)
<1>1. /\ Observed(records, m, "reachability") # "FAIL"
      /\ Observed(records, m, "tool_call") # "FAIL"
      /\ Observed(records, m, "code_edit") # "FAIL"
  BY NothingObservedFailed
<1>2. need.unknown \in {"explore", "provider-claim-compat"}
  BY DEF Requirements
<1> HIDE DEF need
<1>3. ASSUME NEW o, o # "FAIL", NEW claimed
      PROVE  /\ CapabilityEligible("COMPLETION", o, claimed, need.unknown)
             /\ CapabilityEligible("TOOLS", o, claimed, need.unknown)
             /\ CapabilityEligible("CODE_EDIT", o, claimed, need.unknown)
  BY <1>2, <1>3 DEF CapabilityEligible, Permissive
<1>4. Eligible(records, m, copy, need)
  BY <1>1, <1>3, Zenon DEF Eligible
<1> QED
  BY <1>4 DEF need

LEMMA SomethingFits ==
  ASSUME Permissive, NEW records \in Seq(EvidenceRecord), Unfailed(records),
         NEW role, NEW copies, DOMAIN copies # {}
  PROVE  Fit(records, role, copies) # {}
<1> DEFINE need == Requirements(role)
<1>1. PICK m \in DOMAIN copies :
        (\E n \in DOMAIN copies : ToolSignal(records, n, copies[n])) => ToolSignal(records, m, copies[m])
  OBVIOUS
<1>2. Eligible(records, m, copies[m], need)
  BY PassesGates
<1> HIDE DEF need
<1>3. m \in Admissible(records, copies, need)
  BY <1>1, <1>2 DEF Admissible
<1> QED
  BY <1>3 DEF Fit, need

LEMMA MergedLists ==
  ASSUME NEW st, NEW W
  PROVE  /\ DOMAIN Merged(st, W) = UNION {Listed(st.rows[w]) : w \in W}
         /\ DOMAIN Merged(st, W) \subseteq Model
         /\ \A m \in DOMAIN Merged(st, W) : Holders(st, W, m) # {}
<1>1. DOMAIN Merged(st, W) = UNION {Listed(st.rows[w]) : w \in W}
  BY DEF Merged
<1>2. \A w \in W : Listed(st.rows[w]) \subseteq Model
  BY DEF Listed
<1>3. ASSUME NEW m \in DOMAIN Merged(st, W) PROVE Holders(st, W, m) # {}
  <2>1. PICK w \in W : m \in Listed(st.rows[w])
    BY <1>1
  <2> QED BY <2>1 DEF Holders
<1> QED
  BY <1>1, <1>2, <1>3

LEMMA CandidatesWork ==
  ASSUME PlacementAssumption, NEW st
  PROVE  Candidates(st) \in SUBSET Worker
BY DEF Candidates, PlacementAssumption

\* A model that is selected among the candidates is placed on one of them.
LEMMA AutomaticSome ==
  ASSUME PlacementAssumption, NEW st, NEW records, NEW role,
         SelectInstalled(records, role, Merged(st, Candidates(st))) # {}
  PROVE  Automatic(st, records, role) # {}
<1>1. PICK m \in SelectInstalled(records, role, Merged(st, Candidates(st))) : TRUE
  OBVIOUS
<1>2. m \in DOMAIN Merged(st, Candidates(st))
  BY DEF SelectInstalled, Admissible
<1>3. Holders(st, Candidates(st), m) # {}
  BY <1>2, MergedLists
<1>4. PICK w \in Place(st, Candidates(st), m, PreferResident) : TRUE
  BY <1>3, CandidatesWork, PlacedSome
<1>5. [model |-> m, worker |-> w] \in Automatic(st, records, role)
  BY <1>1, <1>4 DEF Automatic
<1> QED
  BY <1>5

LEMMA AutomaticAlways ==
  ASSUME PlacementAssumption, Permissive, NEW st, NEW records \in Seq(EvidenceRecord),
         Unfailed(records), NEW role \in DOMAIN Configured, Candidates(st) # {}
  PROVE  Automatic(st, records, role) # {}
<1> DEFINE copies == Merged(st, Candidates(st))
<1>1. PICK w \in Candidates(st) : Listed(st.rows[w]) # {}
  BY DEF Candidates
<1>2. DOMAIN copies # {} /\ DOMAIN copies \subseteq Model
  <2>1. DOMAIN copies = UNION {Listed(st.rows[v]) : v \in Candidates(st)} /\ DOMAIN copies \subseteq Model
    BY MergedLists
  <2>2. PICK n \in Listed(st.rows[w]) : TRUE
    BY <1>1
  <2>3. n \in UNION {Listed(st.rows[v]) : v \in Candidates(st)}
    OBVIOUS
  <2> HIDE DEF copies
  <2> QED BY <2>1, <2>3, Zenon
<1> HIDE DEF copies
<1>3. SelectInstalled(records, role, copies) # {}
  BY <1>2, SomethingFits, SelectedSome
<1> QED
  BY <1>3, AutomaticSome DEF copies

LEMMA RoleConfigured ==
  ASSUME TypeOK, Resolve
  PROVE  ResolvedRole \in DOMAIN Configured
<1>1. task # Idle
  BY DEF TypeOK, Resolve
<1>2. task.roles \in Seq(DOMAIN Configured) /\ task.roles # <<>>
  BY <1>1 DEF TypeOK
<1> QED
  BY <1>2 DEF ResolvedRole

\* As long as no probe has failed, an automatic route with a candidate is placed
\* on one, whatever the installed models are called.
THEOREM AnyTagIsPlaced == ASSUME Permissive PROVE Spec => AnyTagWillDo
<1> DEFINE Placed == (/\ Resolving
                      /\ task.request.mode \in {"AUTO", "ROLE"}
                      /\ Candidates(status) # {}
                      /\ \A i \in DOMAIN evidence : evidence[i].outcome # "FAIL")
                        => decision'.available /\ decision'.worker \in Candidates(status)
<1>1. TypeOK /\ [Next]_vars => [Placed]_vars
  <2> SUFFICES ASSUME TypeOK, [Next]_vars, Resolving, task.request.mode \in {"AUTO", "ROLE"},
                      Candidates(status) # {}, \A i \in DOMAIN evidence : evidence[i].outcome # "FAIL"
               PROVE  decision'.available /\ decision'.worker \in Candidates(status)
    OBVIOUS
  <2> DEFINE q == task.request
             role == ResolvedRole
  <2>1. Resolve /\ evidence \in Seq(EvidenceRecord) /\ Unfailed(evidence)
    BY OnlyResolveDecides DEF TypeOK, Unfailed
  <2>2. Automatic(status, evidence, role) # {}
    BY <2>1, RoleConfigured, AutomaticAlways, PlacementAssumption
  <2>3. Pinned(status, evidence, role, q) = {} /\ ~IsExactPin(q.mode)
    BY DEF Pinned, IsExactPin
  <2>4. CASE ByAutomatic(status, evidence, role, q, decision')
    <3>1. PICK p \in Automatic(status, evidence, role) :
            decision' = Decision(status, role, p.model, p.worker, TRUE)
      BY <2>4 DEF ByAutomatic
    <3>2. p.worker \in Candidates(status)
      BY AutomaticReal, PlacementAssumption
    <3>3. decision'.available = TRUE /\ decision'.worker = p.worker
      BY <3>1 DEF Decision
    <3> QED BY <3>2, <3>3
  <2>5. ~ByPin(status, evidence, role, q, decision')
    BY <2>3 DEF ByPin
  <2>6. ~ByRefusal(status, role, q, decision') /\ ~ByAbsence(status, evidence, role, q, decision')
    BY <2>2, <2>3 DEF ByRefusal, ByAbsence
  <2> QED
    BY <2>1, <2>4, <2>5, <2>6, ResolveDecides
<1> QED
  BY <1>1, TypeCorrect, PTL DEF Spec, AnyTagWillDo


-----------------------------------------------------------------------------
(***************************************************************************)
(* Placements stick.  Warming the placed model moves its own keys down and *)
(* the keys of its worker's other models up, and nothing else.             *)
(***************************************************************************)
Warms(st, st2, w, m) ==
  /\ st2.order = st.order
  /\ \A v \in Worker : /\ st2.rows[v].up = st.rows[v].up
                       /\ st2.rows[v].freshness = st.rows[v].freshness
                       /\ Listed(st2.rows[v]) = Listed(st.rows[v])
  /\ \A v \in Worker : \A n \in Listed(st.rows[v]) :
       /\ st2.rows[v].models[n].claims = st.rows[v].models[n].claims
       /\ st2.rows[v].models[n].loaded = IF v = w THEN n = m ELSE st.rows[v].models[n].loaded

LEMMA WarmedWarms ==
  ASSUME NEW st \in Captured, NEW w \in Worker, NEW m \in Model
  PROVE  Warms(st, Warmed(st, w, m), w, m)
<1> DEFINE old == st.rows[w].models
           new == [n \in Model |-> IF old[n].listed THEN [old[n] EXCEPT !.loaded = n = m] ELSE old[n]]
           row == [st.rows[w] EXCEPT !.models = new]
           st2 == Warmed(st, w, m)
<1>1. st2 = [st EXCEPT !.rows = [st.rows EXCEPT ![w] = row]]
  BY DEF Warmed, Captured
<1>2. st2.order = st.order /\ st2.rows = [st.rows EXCEPT ![w] = row]
  <2> HIDE DEF st2, row
  <2> QED BY <1>1 DEF Captured
<1>3. st.rows \in [Worker -> Row] /\ st.rows[w] \in Row /\ old \in [Model -> Copy]
  BY DEF Captured, Row
<1>4. row.up = st.rows[w].up /\ row.freshness = st.rows[w].freshness /\ row.models = new
  <2> HIDE DEF new
  <2> QED BY <1>3 DEF Row
<1>5. ASSUME NEW n \in Model
      PROVE  /\ new[n].listed = old[n].listed
             /\ old[n].listed => new[n].claims = old[n].claims /\ new[n].loaded = (n = m)
  <2>1. old[n] \in Copy
    BY <1>3
  <2>2. CASE old[n].listed
    <3>1. new[n] = [old[n] EXCEPT !.loaded = (n = m)]
      BY <2>2
    <3>2. old[n] \in [listed : {TRUE}, claims : (SUBSET Claim) \cup {Unreported}, loaded : BOOLEAN]
      <4>1. Absent.listed = FALSE
        BY DEF Absent
      <4> HIDE DEF old
      <4>2. old[n] # Absent
        BY <2>2, <4>1
      <4> QED BY <2>1, <4>2, Zenon DEF Copy
    <3> HIDE DEF new, old
    <3> QED BY <3>1, <3>2
  <2>3. CASE ~old[n].listed
    <3>1. new[n] = old[n]
      BY <2>3
    <3> HIDE DEF new, old
    <3> QED BY <2>3, <3>1
  <2> QED
    BY <2>2, <2>3
<1>6. st2.rows[w] = row /\ \A v \in Worker \ {w} : st2.rows[v] = st.rows[v]
  <2> HIDE DEF st2, row
  <2> QED BY <1>2, <1>3
<1> HIDE DEF st2, row, new
<1>7. Listed(row) = Listed(st.rows[w])
  BY <1>4, <1>5 DEF Listed
<1>8. ASSUME NEW v \in Worker, NEW n \in Listed(st.rows[v])
      PROVE  /\ st2.rows[v].models[n].claims = st.rows[v].models[n].claims
             /\ st2.rows[v].models[n].loaded = IF v = w THEN n = m ELSE st.rows[v].models[n].loaded
  <2>1. CASE v = w
    <3>1. n \in Model /\ old[n].listed
      BY <2>1 DEF Listed
    <3>2. st2.rows[v].models[n] = new[n]
      BY <1>4, <1>6, <2>1
    <3> QED BY <1>5, <2>1, <3>1, <3>2
  <2>2. CASE v # w
    BY <1>6, <2>2
  <2> QED
    BY <2>1, <2>2
<1>9. ASSUME NEW v \in Worker
      PROVE  /\ st2.rows[v].up = st.rows[v].up
             /\ st2.rows[v].freshness = st.rows[v].freshness
             /\ Listed(st2.rows[v]) = Listed(st.rows[v])
  BY <1>4, <1>6, <1>7
<1> QED
  BY <1>2, <1>8, <1>9 DEF Warms, st2

\* The candidates among which a pinned model is placed.
Current(st) == {v \in Candidates(st) : st.rows[v].freshness = "CURRENT"}

\* What warming leaves alone.
LEMMA WarmsSame ==
  ASSUME PlacementAssumption, NEW st, NEW st2, NEW w, NEW m, Warms(st, st2, w, m)
  PROVE  /\ \A W \in SUBSET Worker : \A n : Holders(st2, W, n) = Holders(st, W, n)
         /\ Candidates(st2) = Candidates(st)
         /\ \A v \in Worker : Listed(st2.rows[v]) = Listed(st.rows[v])
         /\ Current(st2) = Current(st)
<1>1. \A W \in SUBSET Worker : \A n : Holders(st2, W, n) = Holders(st, W, n)
  BY DEF Holders, Warms
<1>2. Candidates(st2) = Candidates(st)
  BY DEF Candidates, Warms, PlacementAssumption
<1>3. \A v \in Worker : Listed(st2.rows[v]) = Listed(st.rows[v])
  BY DEF Warms
<1>4. Current(st2) = Current(st)
  <2>1. \A v \in Candidates(st) : st2.rows[v].freshness = st.rows[v].freshness
    BY CandidatesWork DEF Warms
  <2> QED BY <1>2, <2>1 DEF Current
<1> QED
  BY <1>1, <1>2, <1>3, <1>4

LEMMA SamePinHolds ==
  ASSUME NEW st, NEW st2, NEW w, NEW m, Warms(st, st2, w, m), NEW v \in Worker, NEW mode
  PROVE  PinHolds(st2.rows[v], mode) <=> PinHolds(st.rows[v], mode)
BY DEF PinHolds, Warms

\* The worker the model was placed on still comes first.
LEMMA PlaceSticks ==
  ASSUME PlacementAssumption, NEW st, NEW st2, NEW w, NEW m, Warms(st, st2, w, m),
         NEW W \in SUBSET Worker, NEW warm, w \in Place(st, W, m, warm)
  PROVE  w \in Place(st2, W, m, warm)
<1>1. Holders(st2, W, m) = Holders(st, W, m) /\ Holders(st, W, m) \subseteq Worker
  BY DEF Holders, Warms
<1>2. w \in Holders(st, W, m)
      /\ \A v \in Holders(st, W, m) \ {w} : Precedes(WorkerKey(st, m, warm, w), WorkerKey(st, m, warm, v))
  BY Zenon DEF Place, WorkerKey
<1>3. ASSUME NEW v \in Holders(st, W, m) \ {w}
      PROVE  Precedes(WorkerKey(st2, m, warm, w), WorkerKey(st2, m, warm, v))
  <2>1. v \in Worker /\ w \in Worker /\ m \in Listed(st.rows[v]) /\ m \in Listed(st.rows[w])
    BY <1>1, <1>2 DEF Holders
  <2>2. WorkerKey(st2, m, warm, v) = WorkerKey(st, m, warm, v)
    <3>1. st2.rows[v].models[m].loaded = st.rows[v].models[m].loaded
      BY <2>1 DEF Warms
    <3> QED BY <3>1, Zenon DEF WorkerKey
  <2>3. st2.rows[w].models[m].loaded = TRUE
    BY <2>1 DEF Warms
  <2> DEFINE a == WorkerKey(st, m, warm, w)
             a2 == WorkerKey(st2, m, warm, w)
             b == WorkerKey(st, m, warm, v)
  <2>4. a \in [1 .. 3 -> Int] /\ a2 \in [1 .. 3 -> Int] /\ b \in [1 .. 3 -> Int]
    BY <2>1, WorkerKeyType
  <2>5. a2[1] = 0 /\ a[1] \in {0, 1} /\ a2[2] = a[2] /\ a2[3] = a[3]
    <3>1. a2[1] = Last(warm => TRUE) /\ a[1] = Last(warm => st.rows[w].models[m].loaded)
      BY <2>1, <2>3, WorkerKeyType
    <3>2. a2[2] = a[2] /\ a2[3] = a[3]
      BY <2>1, WorkerKeyType
    <3> HIDE DEF a, a2
    <3> QED BY <3>1, <3>2 DEF Last
  <2>6. Precedes(a, b)
    BY <1>2
  <2> HIDE DEF a, a2, b
  <2>7. PICK n \in Nat : n = 3
    OBVIOUS
  <2>8. /\ a \in [1 .. n -> Int] /\ a2 \in [1 .. n -> Int] /\ b \in [1 .. n -> Int] /\ 1 \in 1 .. n
        /\ a2[1] <= a[1] /\ \A i \in (1 .. n) \ {1} : a2[i] = a[i]
    BY <2>4, <2>5, <2>7
  <2>9. Precedes(a2, b)
    BY <2>6, <2>8, Sooner
  <2> QED
    BY <2>2, <2>9 DEF a2, b
<1> QED
  BY <1>1, <1>2, <1>3, Zenon DEF Place, WorkerKey


\* Of the workers that hold a model, the first listed.
FirstListed(H, order) == CHOOSE w \in H : \A v \in H : order[w] <= order[v]

LEMMA FirstListedIn ==
  ASSUME NEW H \in SUBSET Worker, H # {}, NEW order \in [Worker -> Nat]
  PROVE  FirstListed(H, order) \in H
<1> DEFINE R == {p \in Nat \X Nat : p[1] < p[2]}
           O == {order[w] : w \in H}
<1>1. R = OpToRel(<, Nat)
  BY Zenon DEF OpToRel
<1>2. IsWellFoundedOn(R, Nat)
  BY <1>1, NatLessThanWellFounded, Zenon
<1>3. O \subseteq Nat /\ O # {}
  OBVIOUS
<1>4. PICK o \in O : \A x \in O : ~(<<x, o>> \in R)
  <2> HIDE DEF R, O
  <2> QED BY <1>2, <1>3, WFMin
<1>5. PICK w \in H : o = order[w]
  OBVIOUS
<1>6. ASSUME NEW v \in H PROVE order[w] <= order[v]
  <2>1. order[v] \in O /\ order[v] \in Nat /\ order[w] \in Nat
    OBVIOUS
  <2>2. <<order[v], order[w]>> \in R <=> order[v] < order[w]
    BY <2>1
  <2> QED
    BY <1>4, <1>5, <2>1, <2>2
<1> QED
  BY <1>6 DEF FirstListed

\* The merged copies after warming: the same claims, and no other model warmer.
LEMMA MergedWarms ==
  ASSUME PlacementAssumption, NEW st \in Captured, NEW st2, NEW w, NEW m, Warms(st, st2, w, m),
         NEW W \in SUBSET Worker
  PROVE  /\ DOMAIN Merged(st2, W) = DOMAIN Merged(st, W)
         /\ \A n \in DOMAIN Merged(st, W) :
              /\ Merged(st2, W)[n].claims = Merged(st, W)[n].claims
              /\ \/ Merged(st2, W)[n].loaded = Merged(st, W)[n].loaded
                 \/ Merged(st2, W)[n].loaded = (n = m)
<1>1. DOMAIN Merged(st2, W) = DOMAIN Merged(st, W)
  <2>1. {Listed(st2.rows[v]) : v \in W} = {Listed(st.rows[v]) : v \in W}
    BY DEF Warms
  <2>2. /\ DOMAIN Merged(st2, W) = UNION {Listed(st2.rows[v]) : v \in W}
        /\ DOMAIN Merged(st, W) = UNION {Listed(st.rows[v]) : v \in W}
    BY DEF Merged
  <2> QED BY <2>1, <2>2, Zenon
<1>2. ASSUME NEW n \in DOMAIN Merged(st, W)
      PROVE  /\ Merged(st2, W)[n].claims = Merged(st, W)[n].claims
             /\ \/ Merged(st2, W)[n].loaded = Merged(st, W)[n].loaded
                \/ Merged(st2, W)[n].loaded = (n = m)
  <2> DEFINE H == Holders(st, W, n)
             v == FirstListed(H, st.order)
  <2>1. H = Holders(st2, W, n) /\ H \in SUBSET Worker /\ st2.order = st.order
    BY DEF Holders, Warms
  <2>2. H # {} /\ st.order \in [Worker -> Nat]
    BY MergedLists DEF Captured
  <2>3. Merged(st, W)[n] = st.rows[v].models[n]
    <3>1. n \in UNION {Listed(st.rows[x]) : x \in W}
      BY DEF Merged
    <3> QED BY <3>1, Zenon DEF Merged, FirstListed
  <2>4. Merged(st2, W)[n] = st2.rows[FirstListed(Holders(st2, W, n), st2.order)].models[n]
    <3>1. n \in UNION {Listed(st2.rows[x]) : x \in W}
      BY <1>1 DEF Merged
    <3> QED BY <3>1, Zenon DEF Merged, FirstListed
  <2>5. FirstListed(Holders(st2, W, n), st2.order) = v
    BY <2>1, Zenon
  <2>6. v \in H
    BY <2>1, <2>2, FirstListedIn
  <2>7. v \in Worker /\ n \in Listed(st.rows[v])
    BY <2>1, <2>6 DEF Holders
  <2> HIDE DEF v, H
  <2>8. Merged(st2, W)[n] = st2.rows[v].models[n]
    BY <2>4, <2>5
  <2>9. /\ st2.rows[v].models[n].claims = st.rows[v].models[n].claims
        /\ st2.rows[v].models[n].loaded = IF v = w THEN n = m ELSE st.rows[v].models[n].loaded
    BY <2>7 DEF Warms
  <2> QED
    BY <2>3, <2>8, <2>9
<1> QED
  BY <1>1, <1>2

\* Copies that differ in what is loaded only pass the same gates.
LEMMA SameFit ==
  ASSUME NEW records, NEW role, NEW copies, NEW copies2, DOMAIN copies2 = DOMAIN copies,
         \A n \in DOMAIN copies : copies2[n].claims = copies[n].claims
  PROVE  Fit(records, role, copies2) = Fit(records, role, copies)
<1>1. ASSUME NEW n \in DOMAIN copies
      PROVE  /\ ToolSignal(records, n, copies2[n]) <=> ToolSignal(records, n, copies[n])
             /\ \A need : Eligible(records, n, copies2[n], need) <=> Eligible(records, n, copies[n], need)
  <2>1. Claims(copies2[n]) = Claims(copies[n])
    BY DEF Claims
  <2> QED
    BY <2>1, Zenon DEF ToolSignal, Eligible
<1>2. \A need : Admissible(records, copies2, need) = Admissible(records, copies, need)
  BY <1>1 DEF Admissible
<1> QED
  BY <1>2 DEF Fit

LEMMA RankKeyParts ==
  ASSUME PlacementAssumption, NEW records, NEW n, NEW copy, NEW copy2, NEW role,
         copy2.claims = copy.claims
  PROVE  /\ \A i \in (1 .. 6) \ {4} : RankKey(records, n, copy2, Requirements(role))[i]
                                        = RankKey(records, n, copy, Requirements(role))[i]
         /\ RankKey(records, n, copy, Requirements(role))[4] = Last(copy.loaded)
         /\ RankKey(records, n, copy2, Requirements(role))[4] = Last(copy2.loaded)
<1> DEFINE need == Requirements(role)
           a == RankKey(records, n, copy, need)
           b == RankKey(records, n, copy2, need)
<1>1. Claims(copy2) = Claims(copy)
  BY DEF Claims
<1> HIDE DEF need
<1>2. /\ b[1] = a[1] /\ b[2] = a[2] /\ b[3] = a[3] /\ b[5] = a[5] /\ b[6] = a[6]
      /\ a[4] = Last(copy.loaded) /\ b[4] = Last(copy2.loaded)
  BY <1>1 DEF RankKey
<1> HIDE DEF a, b
<1>3. \A i \in (1 .. 6) \ {4} : b[i] = a[i]
  BY <1>2
<1> QED
  BY <1>2, <1>3 DEF a, b, need

\* The model that was selected is selected again.
LEMMA SelectSticks ==
  ASSUME PlacementAssumption, NEW st \in Captured, NEW st2, NEW w, NEW m, Warms(st, st2, w, m),
         NEW W \in SUBSET Worker, NEW records, NEW role \in DOMAIN Configured,
         m \in SelectInstalled(records, role, Merged(st, W))
  PROVE  m \in SelectInstalled(records, role, Merged(st2, W))
<1> DEFINE copies == Merged(st, W)
           copies2 == Merged(st2, W)
           need == Requirements(role)
<1>1. /\ DOMAIN copies2 = DOMAIN copies
      /\ \A n \in DOMAIN copies :
           /\ copies2[n].claims = copies[n].claims
           /\ copies2[n].loaded = copies[n].loaded \/ copies2[n].loaded = (n = m)
  BY MergedWarms
<1>2. DOMAIN copies \subseteq Model
  BY MergedLists
<1> HIDE DEF copies, copies2
<1>3. Fit(records, role, copies2) = Fit(records, role, copies)
  BY <1>1, SameFit
<1>4. CASE Configured[role] \in DOMAIN copies
  BY <1>1, <1>4 DEF SelectInstalled, copies, copies2
<1>5. CASE Configured[role] \notin DOMAIN copies
  <2> DEFINE K(n) == RankKey(records, n, copies[n], need)
             K2(n) == RankKey(records, n, copies2[n], need)
  <2>1. /\ m \in Fit(records, role, copies)
        /\ \A n \in Fit(records, role, copies) \ {m} : Precedes(K(m), K(n))
    BY <1>5 DEF SelectInstalled, Fit, copies
  <2>2. Fit(records, role, copies) \subseteq DOMAIN copies
    BY DEF Fit, Admissible
  <2>3. ASSUME NEW n \in Fit(records, role, copies) \ {m} PROVE Precedes(K2(m), K2(n))
    <3>1. m \in Model /\ n \in Model /\ m \in DOMAIN copies /\ n \in DOMAIN copies /\ n # m
      BY <1>2, <2>1, <2>2
    <3> DEFINE a == K(m)
               a2 == K2(m)
               b == K(n)
               b2 == K2(n)
    <3>2. /\ a \in [1 .. 6 -> Int] /\ a2 \in [1 .. 6 -> Int]
          /\ b \in [1 .. 6 -> Int] /\ b2 \in [1 .. 6 -> Int]
      BY <3>1, RankKeyType
    <3>3. (\A i \in (1 .. 6) \ {4} : a2[i] = a[i]) /\ a2[4] <= a[4]
      <4>1. /\ \A i \in (1 .. 6) \ {4} : a2[i] = a[i]
            /\ a[4] = Last(copies[m].loaded) /\ a2[4] = Last(copies2[m].loaded)
        <5>1. copies2[m].claims = copies[m].claims
          BY <1>1, <3>1
        <5> QED BY <5>1, RankKeyParts
      <4>2. copies2[m].loaded = copies[m].loaded \/ copies2[m].loaded = TRUE
        BY <1>1, <3>1
      <4>3. Last(copies2[m].loaded) <= Last(copies[m].loaded)
        BY <4>2 DEF Last
      <4> HIDE DEF a, a2
      <4> QED BY <4>1, <4>3
    <3>4. (\A i \in (1 .. 6) \ {4} : b2[i] = b[i]) /\ b[4] <= b2[4]
      <4>1. /\ \A i \in (1 .. 6) \ {4} : b2[i] = b[i]
            /\ b[4] = Last(copies[n].loaded) /\ b2[4] = Last(copies2[n].loaded)
        <5>1. copies2[n].claims = copies[n].claims
          BY <1>1, <3>1
        <5> QED BY <5>1, RankKeyParts
      <4>2. copies2[n].loaded = copies[n].loaded \/ copies2[n].loaded = FALSE
        BY <1>1, <3>1
      <4>3. Last(copies[n].loaded) <= Last(copies2[n].loaded)
        BY <4>2 DEF Last
      <4> HIDE DEF b, b2
      <4> QED BY <4>1, <4>3
    <3>5. Precedes(a, b)
      BY <2>1
    <3> HIDE DEF a, a2, b, b2
    <3>6. PICK k \in Nat : k = 6
      OBVIOUS
    <3>7. /\ a \in [1 .. k -> Int] /\ a2 \in [1 .. k -> Int] /\ b \in [1 .. k -> Int]
          /\ b2 \in [1 .. k -> Int] /\ 4 \in 1 .. k
          /\ \A i \in (1 .. k) \ {4} : a2[i] = a[i]
          /\ \A i \in (1 .. k) \ {4} : b2[i] = b[i]
          /\ a2[4] <= a[4] /\ b[4] <= b2[4]
      BY <3>2, <3>3, <3>4, <3>6
    <3>8. PICK j \in 1 .. k : j = 4
      BY <3>7
    <3>9. Precedes(a2, b)
      <4>1. a2[j] <= a[j] /\ \A i \in (1 .. k) \ {j} : a2[i] = a[i]
        BY <3>7, <3>8
      <4> QED BY <3>5, <3>7, <4>1, Sooner
    <3>10. Precedes(a2, b2)
      <4>1. b[j] <= b2[j] /\ \A i \in (1 .. k) \ {j} : b2[i] = b[i]
        BY <3>7, <3>8
      <4> QED BY <3>7, <3>9, <4>1, Later
    <3> QED
      BY <3>10 DEF a2, b2
  <2>4. Configured[role] \notin DOMAIN copies2
    BY <1>1, <1>5
  <2>5. SelectInstalled(records, role, copies2)
          = {x \in Fit(records, role, copies2) : \A n \in Fit(records, role, copies2) \ {x} : Precedes(K2(x), K2(n))}
    BY <2>4, Zenon DEF SelectInstalled, Fit
  <2> HIDE DEF K2
  <2> QED
    BY <1>3, <2>1, <2>3, <2>5 DEF copies2
<1> QED
  BY <1>4, <1>5


\* Warming makes nothing selectable that was not.
LEMMA NothingNewSelected ==
  ASSUME PlacementAssumption, NEW st \in Captured, NEW st2, NEW w, NEW m, Warms(st, st2, w, m),
         NEW W \in SUBSET Worker, NEW records, NEW role \in DOMAIN Configured,
         SelectInstalled(records, role, Merged(st2, W)) # {}
  PROVE  SelectInstalled(records, role, Merged(st, W)) # {}
<1> DEFINE copies == Merged(st, W)
           copies2 == Merged(st2, W)
<1>1. /\ DOMAIN copies2 = DOMAIN copies
      /\ \A n \in DOMAIN copies : copies2[n].claims = copies[n].claims
  BY MergedWarms
<1>2. DOMAIN copies \subseteq Model /\ DOMAIN copies2 \subseteq Model
  BY MergedLists
<1> SUFFICES ASSUME SelectInstalled(records, role, copies2) # {}
             PROVE  SelectInstalled(records, role, copies) # {}
  OBVIOUS
<1> HIDE DEF copies, copies2
<1>3. Fit(records, role, copies2) = Fit(records, role, copies)
  BY <1>1, SameFit
<1>4. CASE Configured[role] \in DOMAIN copies
  <2>1. SelectInstalled(records, role, copies) = {Configured[role]}
    BY <1>2, <1>4, SelectedFirst, Zenon
  <2> QED BY <2>1
<1>5. CASE Configured[role] \notin DOMAIN copies
  <2>1. SelectInstalled(records, role, copies2)
          = Firsts(Fit(records, role, copies2), FitKeys(records, role, copies2))
    <3>1. Configured[role] \notin DOMAIN copies2
      BY <1>1, <1>5
    <3> QED BY <1>2, <3>1, SelectedFirst, Zenon
  <2>2. Fit(records, role, copies) # {}
    BY <1>3, <2>1 DEF Firsts
  <2> QED BY <1>2, <2>2, SelectedSome
<1> QED
  BY <1>4, <1>5

\* A placement, and the sets of them that a request has: one mode at a time.
Spot(m, w) == [model |-> m, worker |-> w]

LEMMA SpotParts ==
  ASSUME NEW m, NEW w
  PROVE  Spot(m, w).model = m /\ Spot(m, w).worker = w
BY DEF Spot

LEMMA PinnedWorker ==
  ASSUME NEW st, NEW records, NEW role, NEW q, q.mode = "WORKER", NEW p
  PROVE  p \in Pinned(st, records, role, q)
           <=> /\ p = Spot(p.model, q.worker)
               /\ p.model \in SelectInstalled(records, role, Merged(st, {q.worker}))
               /\ PinHolds(st.rows[q.worker], q.mode)
<1> DEFINE chosen == SelectInstalled(records, role, Merged(st, {q.worker}))
           holds == PinHolds(st.rows[q.worker], q.mode)
<1>1. Pinned(st, records, role, q) = {Spot(m, q.worker) : m \in {n \in chosen : holds}}
  BY DEF Pinned, Spot
<1> HIDE DEF chosen, holds
<1>2. p \in {Spot(m, q.worker) : m \in {n \in chosen : holds}}
        <=> p = Spot(p.model, q.worker) /\ p.model \in chosen /\ holds
  BY SpotParts
<1> QED
  BY <1>1, <1>2 DEF chosen, holds

LEMMA PinnedBoth ==
  ASSUME NEW st, NEW records, NEW role, NEW q, q.mode \in {"WORKER_MODEL", "WORKER_MODEL_ROLE"}, NEW p
  PROVE  p \in Pinned(st, records, role, q)
           <=> /\ p = Spot(q.model, q.worker)
               /\ PinHolds(st.rows[q.worker], q.mode)
               /\ q.model \in Listed(st.rows[q.worker])
<1>1. Pinned(st, records, role, q)
        = {Spot(q.model, w) : w \in {v \in {q.worker} : /\ PinHolds(st.rows[v], q.mode)
                                                     /\ q.model \in Listed(st.rows[v])}}
  BY DEF Pinned, Spot
<1> QED
  BY <1>1

LEMMA PinnedModel ==
  ASSUME NEW st, NEW records, NEW role, NEW q, q.mode = "MODEL", NEW p
  PROVE  p \in Pinned(st, records, role, q)
           <=> /\ p = Spot(q.model, p.worker)
               /\ p.worker \in Place(st, Current(st), q.model, TRUE)
<1> DEFINE places == Place(st, Current(st), q.model, TRUE)
<1>1. Pinned(st, records, role, q) = {Spot(q.model, w) : w \in places}
  BY DEF Pinned, Current, Spot
<1> HIDE DEF places
<1>2. p \in {Spot(q.model, w) : w \in places} <=> p = Spot(q.model, p.worker) /\ p.worker \in places
  BY SpotParts
<1> QED
  BY <1>1, <1>2 DEF places

LEMMA NothingPinned ==
  ASSUME NEW st, NEW records, NEW role, NEW q, q.mode \in {"AUTO", "ROLE"}
  PROVE  Pinned(st, records, role, q) = {}
BY DEF Pinned

LEMMA PlacedAutomatically ==
  ASSUME NEW st, NEW records, NEW role, NEW p
  PROVE  p \in Automatic(st, records, role)
           <=> /\ p = Spot(p.model, p.worker)
               /\ p.model \in SelectInstalled(records, role, Merged(st, Candidates(st)))
               /\ p.worker \in Place(st, Candidates(st), p.model, PreferResident)
<1> DEFINE chosen == SelectInstalled(records, role, Merged(st, Candidates(st)))
           places(m) == Place(st, Candidates(st), m, PreferResident)
<1>1. Automatic(st, records, role) = UNION {{Spot(m, w) : w \in places(m)} : m \in chosen}
  BY DEF Automatic, Spot
<1> HIDE DEF chosen, places
<1>2. p \in UNION {{Spot(m, w) : w \in places(m)} : m \in chosen}
        <=> p = Spot(p.model, p.worker) /\ p.model \in chosen /\ p.worker \in places(p.model)
  BY SpotParts
<1> QED
  BY <1>1, <1>2 DEF chosen, places

\* An honoured pin has one placement, and so has an automatic request.
LEMMA PinnedOne ==
  ASSUME PlacementAssumption, NEW st, NEW records, NEW role \in DOMAIN Configured, NEW q \in Request,
         NEW a \in Pinned(st, records, role, q), NEW b \in Pinned(st, records, role, q)
  PROVE  a.model = b.model /\ a.worker = b.worker
<1>1. CASE q.mode = "WORKER"
  <2>1. \A p \in Pinned(st, records, role, q) :
          p = Spot(p.model, q.worker) /\ p.model \in SelectInstalled(records, role, Merged(st, {q.worker}))
    BY <1>1, PinnedWorker
  <2>2. DOMAIN Merged(st, {q.worker}) \subseteq Model
    BY MergedLists
  <2>3. a.model = b.model
    BY <2>1, <2>2, SelectedOne
  <2> QED BY <2>1, <2>3
<1>2. CASE q.mode \in {"WORKER_MODEL", "WORKER_MODEL_ROLE"}
  <2>1. a = Spot(q.model, q.worker) /\ b = Spot(q.model, q.worker)
    BY <1>2, PinnedBoth
  <2> QED BY <2>1
<1>3. CASE q.mode = "MODEL"
  <2> DEFINE W == Current(st)
  <2>1. \A p \in Pinned(st, records, role, q) :
          p = Spot(q.model, p.worker) /\ p.worker \in Place(st, W, q.model, TRUE)
    BY <1>3, PinnedModel
  <2>2. W \in SUBSET Worker
    BY CandidatesWork DEF Current
  <2>3. a.worker = b.worker
    BY <2>1, <2>2, PlacedOne
  <2> QED BY <2>1, <2>3
<1>4. CASE q.mode \in {"AUTO", "ROLE"}
  BY <1>4, NothingPinned
<1> QED
  BY <1>1, <1>2, <1>3, <1>4 DEF Request, Mode

LEMMA AutomaticOne ==
  ASSUME PlacementAssumption, NEW st, NEW records, NEW role \in DOMAIN Configured,
         NEW a \in Automatic(st, records, role), NEW b \in Automatic(st, records, role)
  PROVE  a.model = b.model /\ a.worker = b.worker
<1> DEFINE W == Candidates(st)
<1>1. /\ a.model \in SelectInstalled(records, role, Merged(st, W))
      /\ b.model \in SelectInstalled(records, role, Merged(st, W))
      /\ a.worker \in Place(st, W, a.model, PreferResident)
      /\ b.worker \in Place(st, W, b.model, PreferResident)
  BY PlacedAutomatically
<1>2. a.model = b.model
  <2>1. DOMAIN Merged(st, W) \subseteq Model
    BY MergedLists
  <2> QED BY <1>1, <2>1, SelectedOne
<1>3. W \in SUBSET Worker
  BY CandidatesWork
<1> HIDE DEF W
<1> QED
  BY <1>1, <1>2, <1>3, PlacedOne

\* The placement of a pin is a placement of that pin after its model is warm.
LEMMA PinSticks ==
  ASSUME PlacementAssumption, NEW st \in Captured, NEW st2, NEW records, NEW role \in DOMAIN Configured,
         NEW q \in Request, NEW p \in Pinned(st, records, role, q), Warms(st, st2, p.worker, p.model)
  PROVE  p \in Pinned(st2, records, role, q)
<1>1. CASE q.mode = "WORKER"
  <2>1. /\ p = Spot(p.model, q.worker)
        /\ p.model \in SelectInstalled(records, role, Merged(st, {q.worker}))
        /\ PinHolds(st.rows[q.worker], q.mode)
    BY <1>1, PinnedWorker
  <2>2. q.worker \in Worker /\ {q.worker} \in SUBSET Worker
    BY <1>1 DEF Request
  <2>3. PinHolds(st2.rows[q.worker], q.mode)
    <3>1. PinHolds(st2.rows[q.worker], q.mode) <=> PinHolds(st.rows[q.worker], q.mode)
      BY <2>2, SamePinHolds, Zenon
    <3> QED BY <2>1, <3>1, Zenon
  <2>4. p.model \in SelectInstalled(records, role, Merged(st2, {q.worker}))
    BY <2>1, <2>2, SelectSticks
  <2> QED BY <1>1, <2>1, <2>3, <2>4, PinnedWorker
<1>2. CASE q.mode \in {"WORKER_MODEL", "WORKER_MODEL_ROLE"}
  <2>1. /\ p = Spot(q.model, q.worker)
        /\ PinHolds(st.rows[q.worker], q.mode) /\ q.model \in Listed(st.rows[q.worker])
    BY <1>2, PinnedBoth
  <2>2. q.worker \in Worker
    BY <1>2 DEF Request
  <2>3. PinHolds(st2.rows[q.worker], q.mode)
    <3>1. PinHolds(st2.rows[q.worker], q.mode) <=> PinHolds(st.rows[q.worker], q.mode)
      BY <2>2, SamePinHolds, Zenon
    <3> QED BY <2>1, <3>1, Zenon
  <2>4. q.model \in Listed(st2.rows[q.worker])
    BY <2>1, <2>2, WarmsSame
  <2> QED BY <1>2, <2>1, <2>3, <2>4, PinnedBoth
<1>3. CASE q.mode = "MODEL"
  <2> DEFINE W == Current(st)
  <2>1. p = Spot(q.model, p.worker) /\ p.worker \in Place(st, W, q.model, TRUE)
    BY <1>3, PinnedModel
  <2>2. Current(st2) = W
    BY WarmsSame
  <2>3. W \in SUBSET Worker
    BY CandidatesWork DEF Current
  <2>4. p.model = q.model
    BY <2>1, SpotParts
  <2>5. p.worker \in Place(st2, W, q.model, TRUE)
    <3> HIDE DEF W
    <3> QED BY <2>1, <2>3, <2>4, PlaceSticks
  <2> QED BY <1>3, <2>1, <2>2, <2>5, PinnedModel
<1>4. CASE q.mode \in {"AUTO", "ROLE"}
  BY <1>4, NothingPinned
<1> QED
  BY <1>1, <1>2, <1>3, <1>4 DEF Request, Mode

\* A pin that failed fails again.
LEMMA NoPinSticks ==
  ASSUME PlacementAssumption, NEW st \in Captured, NEW st2, NEW w, NEW m, Warms(st, st2, w, m),
         NEW records, NEW role \in DOMAIN Configured, NEW q \in Request,
         NEW d \in Pinned(st2, records, role, q)
  PROVE  Pinned(st, records, role, q) # {}
<1>1. CASE q.mode = "WORKER"
  <2>1. /\ d.model \in SelectInstalled(records, role, Merged(st2, {q.worker}))
        /\ PinHolds(st2.rows[q.worker], q.mode)
    BY <1>1, PinnedWorker
  <2>2. q.worker \in Worker /\ {q.worker} \in SUBSET Worker
    BY <1>1 DEF Request
  <2>3. PinHolds(st.rows[q.worker], q.mode)
    BY <2>1, <2>2, SamePinHolds
  <2>4. SelectInstalled(records, role, Merged(st, {q.worker})) # {}
    <3>1. SelectInstalled(records, role, Merged(st2, {q.worker})) # {}
      BY <2>1
    <3> QED BY <2>2, <3>1, NothingNewSelected
  <2>5. PICK n \in SelectInstalled(records, role, Merged(st, {q.worker})) : TRUE
    BY <2>4
  <2>6. Spot(n, q.worker) = Spot(Spot(n, q.worker).model, q.worker) /\ Spot(n, q.worker).model = n
    BY SpotParts
  <2>7. Spot(n, q.worker) \in Pinned(st, records, role, q)
    BY <1>1, <2>3, <2>5, <2>6, PinnedWorker
  <2> QED BY <2>7
<1>2. CASE q.mode \in {"WORKER_MODEL", "WORKER_MODEL_ROLE"}
  <2>1. PinHolds(st2.rows[q.worker], q.mode) /\ q.model \in Listed(st2.rows[q.worker])
    BY <1>2, PinnedBoth
  <2>2. q.worker \in Worker
    BY <1>2 DEF Request
  <2>3. PinHolds(st.rows[q.worker], q.mode)
    BY <2>1, <2>2, SamePinHolds
  <2>4. q.model \in Listed(st.rows[q.worker])
    BY <2>1, <2>2, WarmsSame
  <2>5. Spot(q.model, q.worker) \in Pinned(st, records, role, q)
    BY <1>2, <2>3, <2>4, PinnedBoth
  <2> QED BY <2>5
<1>3. CASE q.mode = "MODEL"
  <2> DEFINE W == Current(st)
  <2>1. d.worker \in Place(st2, Current(st2), q.model, TRUE)
    BY <1>3, PinnedModel
  <2>2. Current(st2) = W
    BY WarmsSame
  <2>3. W \in SUBSET Worker
    BY CandidatesWork DEF Current
  <2> HIDE DEF W
  <2>4. d.worker \in Holders(st2, W, q.model)
    BY <2>1, <2>2 DEF Place
  <2>5. Holders(st, W, q.model) # {}
    BY <2>3, <2>4, WarmsSame
  <2>6. PICK x \in Place(st, W, q.model, TRUE) : TRUE
    <3>1. Place(st, W, q.model, TRUE) # {}
      BY <2>3, <2>5, PlacedSome, Zenon
    <3> QED BY <3>1
  <2>7. Spot(q.model, x) = Spot(q.model, Spot(q.model, x).worker) /\ Spot(q.model, x).worker = x
    BY SpotParts
  <2>8. Spot(q.model, x) \in Pinned(st, records, role, q)
    BY <1>3, <2>6, <2>7, PinnedModel DEF W
  <2> QED BY <2>8
<1>4. CASE q.mode \in {"AUTO", "ROLE"}
  BY <1>4, NothingPinned
<1> QED
  BY <1>1, <1>2, <1>3, <1>4 DEF Request, Mode

LEMMA AutomaticSticks ==
  ASSUME PlacementAssumption, NEW st \in Captured, NEW st2, NEW records, NEW role \in DOMAIN Configured,
         NEW p \in Automatic(st, records, role), Warms(st, st2, p.worker, p.model)
  PROVE  p \in Automatic(st2, records, role)
<1> DEFINE W == Candidates(st)
<1>1. /\ p = Spot(p.model, p.worker)
      /\ p.model \in SelectInstalled(records, role, Merged(st, W))
      /\ p.worker \in Place(st, W, p.model, PreferResident)
  BY PlacedAutomatically
<1>2. W \in SUBSET Worker
  BY CandidatesWork
<1>3. Candidates(st2) = W
  BY WarmsSame
<1> HIDE DEF W
<1>4. p.model \in SelectInstalled(records, role, Merged(st2, W))
  BY <1>1, <1>2, SelectSticks
<1>5. p.worker \in Place(st2, W, p.model, PreferResident)
  BY <1>1, <1>2, PlaceSticks
<1> QED
  BY <1>1, <1>3, <1>4, <1>5, PlacedAutomatically

\* Asking again after the placed model was warmed.
LEMMA AskedAgain ==
  ASSUME PlacementAssumption, NEW st \in Captured, NEW st2, NEW records, NEW role \in DOMAIN Configured,
         NEW q \in Request, NEW d \in Resolutions(st, records, role, q),
         d.available, d.worker # NoWorker, Warms(st, st2, d.worker, d.model),
         NEW d2 \in Resolutions(st2, records, role, q)
  PROVE  d2.model = d.model /\ d2.worker = d.worker
<1> DEFINE pins == Pinned(st, records, role, q)
           pins2 == Pinned(st2, records, role, q)
           autos == Automatic(st, records, role)
           autos2 == Automatic(st2, records, role)
<1>1. CASE pins # {}
  <2>1. PICK p \in pins : d = Decision(st, role, p.model, p.worker, TRUE)
    BY <1>1, Zenon DEF Resolutions
  <2>2. d.model = p.model /\ d.worker = p.worker
    BY <2>1 DEF Decision
  <2>3. p \in pins2
    BY <2>2, PinSticks
  <2>4. PICK x \in pins2 : d2 = Decision(st2, role, x.model, x.worker, TRUE)
    BY <2>3, Zenon DEF Resolutions
  <2>5. d2.model = x.model /\ d2.worker = x.worker
    BY <2>4 DEF Decision
  <2>6. x.model = p.model /\ x.worker = p.worker
    BY <2>3, PinnedOne
  <2> QED BY <2>2, <2>5, <2>6
<1>2. CASE pins = {}
  <2>1. pins2 = {}
    <3>1. \A x \in pins2 : pins # {}
      BY NoPinSticks
    <3> HIDE DEF pins, pins2
    <3> QED BY <1>2, <3>1
  <2>3. /\ ~(IsExactPin(q.mode) /\ ~q.fallback)
        /\ \E p \in autos : d = Decision(st, role, p.model, p.worker, TRUE)
    <3>1. d # Decision(st, role, Shown(role, q), q.worker, FALSE)
      BY DEF Decision
    <3>2. d # Decision(st, role, Configured[role], NoWorker, ~Enabled)
      BY DEF Decision
    <3> QED BY <1>2, <3>1, <3>2, Zenon DEF Resolutions, Shown
  <2>4. PICK p \in autos : d = Decision(st, role, p.model, p.worker, TRUE)
    BY <2>3
  <2>5. d.model = p.model /\ d.worker = p.worker
    BY <2>4 DEF Decision
  <2>6. p \in autos2
    BY <2>5, AutomaticSticks
  <2>7. PICK x \in autos2 : d2 = Decision(st2, role, x.model, x.worker, TRUE)
    BY <2>1, <2>3, <2>6, Zenon DEF Resolutions
  <2>8. d2.model = x.model /\ d2.worker = x.worker
    BY <2>7 DEF Decision
  <2>9. x.model = p.model /\ x.worker = p.worker
    BY <2>6, AutomaticOne
  <2> QED BY <2>5, <2>8, <2>9
<1> QED
  BY <1>1, <1>2

\* Once the chat has warmed the model where it was placed, the same question
\* gets the same answer, under every policy and in every fleet.
THEOREM PlacementsStick == Spec => PlacementSticks
<1> DEFINE Sticks == (Resolving /\ decision'.available /\ decision'.worker # NoWorker)
                       => \A d \in Resolutions(Warmed(status, decision'.worker, decision'.model),
                                               evidence, ResolvedRole, task.request) :
                            d.model = decision'.model /\ d.worker = decision'.worker
<1>1. TypeOK /\ TypeOK' /\ [Next]_vars => [Sticks]_vars
  <2> SUFFICES ASSUME TypeOK, TypeOK', [Next]_vars, Resolving,
                      decision'.available, decision'.worker # NoWorker,
                      NEW d \in Resolutions(Warmed(status, decision'.worker, decision'.model),
                                            evidence, ResolvedRole, task.request)
               PROVE  d.model = decision'.model /\ d.worker = decision'.worker
    BY Zenon
  <2>1. Resolve
    BY OnlyResolveDecides
  <2>2. status \in Captured /\ task.request \in Request
    BY <2>1 DEF TypeOK, Resolve
  <2>3. decision' \in Resolutions(status, evidence, ResolvedRole, task.request)
    BY <2>1 DEF Resolve, ResolvedRole
  <2>4. ResolvedRole \in DOMAIN Configured
    BY <2>1, RoleConfigured
  <2>5. decision' \in Resolution
    BY <2>2, <2>3, <2>4, ResolutionType, PlacementAssumption
  <2>6. decision'.worker \in Worker /\ decision'.model \in Model
    BY <2>5 DEF Resolution
  <2>7. Warms(status, Warmed(status, decision'.worker, decision'.model), decision'.worker, decision'.model)
    BY <2>2, <2>6, WarmedWarms
  <2> QED
    BY <2>2, <2>3, <2>4, <2>7, AskedAgain, PlacementAssumption
<1> QED
  BY <1>1, TypeCorrect, PTL DEF Spec, PlacementSticks
=============================================================================
