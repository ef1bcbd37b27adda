-------------------------- MODULE AtlasBinding_proofs --------------------------
(***************************************************************************)
(* The enforcement of carried Atlas authority, for every envelope, every   *)
(* expectation of the operator and every behaviour of Fabric.  The core is *)
(* NeedIsAuthority: what accept computes for one need is what Atlas said   *)
(* of it.  The invariant carries that fact from the load to the effects.   *)
(***************************************************************************)
EXTENDS AtlasBinding, TLAPS

LoadedOK ==
  requirement.loaded =>
    /\ requirement.envelope \in Envelopes
    /\ requirement.at \in Nat
    /\ Loadable(requirement.envelope)
    /\ requirement.verified = VerifiedEvidence(requirement.envelope, requirement.at)

BoundOK ==
  bound.held /\ bound.verdict = "GRANTED" =>
    /\ requirement.loaded
    /\ Meets(requirement.envelope.session, bound.expected)
    /\ Accept(requirement, bound.leg, NoArtifact) = "GRANTED"

CallOK ==
  call # NoCall =>
    /\ requirement.loaded
    /\ Accept(requirement, call.leg, NoArtifact) = "GRANTED"
    /\ "worker.dispatch" \in LegOf(requirement, call.leg).needs
    /\ call.worker \in AuthorizedTargets(requirement, "worker.dispatch")
    /\ call.stage = "admitted" => Meets(requirement.envelope.session, call.expected)

IInv == /\ TypeOK /\ LoadedOK /\ BoundOK /\ CallOK
        /\ EffectsAuthorized /\ ConfirmedWhereAuthorized

------------------------------------------------------------------------------

LEMMA WorstGrants ==
  ASSUME NEW G
  PROVE  /\ Worst(G) = "GRANTED" <=> "REFUSED" \notin G /\ "UNKNOWN" \notin G
         /\ Worst(G) = "UNKNOWN" <=> "REFUSED" \notin G /\ "UNKNOWN" \in G
         /\ Worst(G) \in Grant
BY DEF Worst, Grant

LEMMA EnvelopeTypes ==
  ASSUME NEW e \in Envelopes
  PROVE  /\ e \in Envelope
         /\ Elements(e.decisions) \subseteq Decision
         /\ Elements(e.legs) \subseteq Leg
<1>1. e \in Envelope
  BY AtlasAssumption
<1>2. e.decisions \in Seq(Decision) /\ e.legs \in Seq(Leg)
  BY <1>1 DEF Envelope
<1>3. ASSUME NEW S, NEW s \in Seq(S) PROVE Elements(s) \subseteq S
  <2>1. \A i \in DOMAIN s : s[i] \in S
    OBVIOUS
  <2>2. QED
    BY <2>1 DEF Elements
<1>4. QED
  BY <1>1, <1>2, <1>3

\* What was verified at load is what a genuine attestation of that leg says.
LEMMA VerifiedIs ==
  ASSUME NEW e, NEW t, NEW name, NEW item
  PROVE  <<name, item>> \in VerifiedEvidence(e, t)
           <=> \E l \in Elements(e.legs) : \E a \in l.evidence :
                 l.name = name /\ a.name = item /\ Attests(a, e, t)
<1> DEFINE Of(l) == {<<l.name, a.name>> : a \in {x \in l.evidence : Attests(x, e, t)}}
<1>1. <<name, item>> \in VerifiedEvidence(e, t)
        <=> \E l \in Elements(e.legs) : <<name, item>> \in Of(l)
  BY DEF VerifiedEvidence
<1>2. ASSUME NEW l
      PROVE  <<name, item>> \in Of(l)
               <=> \E a \in l.evidence : l.name = name /\ a.name = item /\ Attests(a, e, t)
  OBVIOUS
<1>3. QED
  BY <1>1, <1>2

\* What is supplied for a need is what the reference calls evidenced.
LEMMA SuppliedIsEvidenced ==
  ASSUME NEW r, r.envelope \in Envelopes,
         r.verified = VerifiedEvidence(r.envelope, r.at),
         NEW leg, NEW cap, ~Misplaced(r, leg, cap), NEW item \in Item
  PROVE  item \in Supplied(r, leg, cap)
           <=> Evidenced(r.envelope, r.at, leg, cap, item)
<1> DEFINE e == r.envelope
           on == DecisionsOn(r, cap)
           ts == AuthorizedTargets(r, cap)
<1>1. item \in Supplied(r, leg, cap)
        <=> \/ <<leg.name, item>> \in r.verified
            \/ item = ExecutionTarget /\ leg.target # NoTarget /\ ts # {}
  BY DEF Supplied
<1>2. <<leg.name, item>> \in r.verified
        <=> \E l \in Elements(e.legs) : \E a \in l.evidence :
              /\ l.name = leg.name
              /\ a.name = item /\ a.general /\ Genuine(a, e)
              /\ a.issued =< r.at /\ r.at - a.issued =< MaxAge
  BY VerifiedIs DEF Attests, Genuine, WindowOk
<1>3. ASSUME leg.target # NoTarget
      PROVE  ts # {} <=> \E d \in Elements(e.decisions) :
                           d.capability = cap /\ d.target = leg.target
  <2>1. ASSUME ts # {} PROVE leg.target \in ts
    BY <2>1 DEF Misplaced
  <2>2. leg.target \in ts <=> \E d \in Elements(e.decisions) :
                                d.capability = cap /\ d.target = leg.target
    BY <1>3 DEF AuthorizedTargets, DecisionsOn
  <2>3. QED
    BY <2>1, <2>2
<1>4. QED
  BY <1>1, <1>2, <1>3 DEF Evidenced

\* The verdict of one need is GRANTED exactly when Atlas authorized it.
LEMMA NeedIsAuthority ==
  ASSUME NEW r, r.envelope \in Envelopes, Loadable(r.envelope),
         r.verified = VerifiedEvidence(r.envelope, r.at),
         NEW leg, NEW cap
  PROVE  /\ NeedVerdict(r, leg, cap) \in Grant
         /\ NeedVerdict(r, leg, cap) = "GRANTED"
              <=> Authorizes(r.envelope, r.at, leg, cap)
<1> DEFINE e == r.envelope
           on == DecisionsOn(r, cap)
           ts == AuthorizedTargets(r, cap)
<1>1. /\ on = {d \in Elements(e.decisions) : d.capability = cap}
      /\ on \subseteq Decision
      /\ \A d \in on : Genuine(d, e)
  BY EnvelopeTypes DEF DecisionsOn, Loadable, Genuine
<1>2. ts = {d.target : d \in on} \ {NoTarget}
  BY DEF AuthorizedTargets
<1>3. FoldVerdict(r, cap) \in Grant
  BY WorstGrants DEF FoldVerdict
<1>4. \A d \in on : /\ DecisionGrant(d) = "REFUSED" <=> d.status = "denied"
                    /\ DecisionGrant(d) = "UNKNOWN" <=> d.status = "conditional" /\ d.missing # {}
  BY <1>1 DEF Decision, DecisionGrant
<1>5. /\ FoldVerdict(r, cap) = "GRANTED" <=> \A d \in on : /\ d.status # "denied"
                                                           /\ ~(d.status = "conditional" /\ d.missing # {})
      /\ FoldVerdict(r, cap) = "UNKNOWN" => \A d \in on : d.status # "denied"
      /\ FoldVerdict(r, cap) = "REFUSED" => \E d \in on : d.status = "denied"
  BY <1>3, <1>4, WorstGrants DEF FoldVerdict, Grant
<1>6. Misplaced(r, leg, cap) <=>
        ~(\A d \in on : d.target # NoTarget =>
            \E c \in on : c.target = leg.target /\ leg.target # NoTarget)
  <2>1. leg.target \in ts <=> leg.target # NoTarget /\ \E c \in on : c.target = leg.target
    BY <1>2
  <2>2. ts = {} <=> \A d \in on : d.target = NoTarget
    BY <1>2
  <2>3. QED
    BY <2>1, <2>2 DEF Misplaced
<1>7. CASE on = {}
  <2>1. NeedVerdict(r, leg, cap) = "REFUSED"
    BY <1>7 DEF NeedVerdict
  <2>2. ~Authorizes(e, r.at, leg, cap)
    BY <1>7, <1>1 DEF Authorizes
  <2>3. QED
    BY <2>1, <2>2 DEF Grant
<1>8. CASE on # {} /\ Misplaced(r, leg, cap)
  <2>1. NeedVerdict(r, leg, cap) = "REFUSED"
    BY <1>8 DEF NeedVerdict
  <2>2. ~Authorizes(e, r.at, leg, cap)
    BY <1>8, <1>1, <1>6 DEF Authorizes
  <2>3. QED
    BY <2>1, <2>2 DEF Grant
<1>9. CASE on # {} /\ ~Misplaced(r, leg, cap)
  <2> DEFINE met == Outstanding(r, cap) \subseteq Supplied(r, leg, cap)
             evidenced == \A d \in on : d.status = "conditional" =>
                            \A item \in d.missing : Evidenced(e, r.at, leg, cap, item)
  <2>1. NeedVerdict(r, leg, cap) = IF FoldVerdict(r, cap) = "UNKNOWN" /\ met
                                   THEN "GRANTED" ELSE FoldVerdict(r, cap)
    BY <1>9 DEF NeedVerdict
  <2>2. met <=> evidenced
    <3>1. \A item : item \in Outstanding(r, cap)
                      <=> \E d \in on : d.status = "conditional" /\ item \in d.missing
      BY DEF Outstanding
    <3>2. \A d \in on : d.missing \subseteq Item
      BY <1>1 DEF Decision
    <3>3. \A item \in Item : item \in Supplied(r, leg, cap)
                               <=> Evidenced(e, r.at, leg, cap, item)
      BY <1>9, SuppliedIsEvidenced
    <3>4. QED
      BY <3>1, <3>2, <3>3
  <2>3. Authorizes(e, r.at, leg, cap)
          <=> (\A d \in on : d.status # "denied") /\ evidenced
    BY <1>9, <1>1, <1>6 DEF Authorizes
  <2> HIDE DEF met, evidenced
  <2>4. FoldVerdict(r, cap) = "GRANTED" => evidenced
    BY <1>5 DEF evidenced
  <2>5. CASE FoldVerdict(r, cap) = "GRANTED"
    BY <2>1, <2>3, <2>4, <2>5, <1>5 DEF Grant
  <2>6. CASE FoldVerdict(r, cap) = "UNKNOWN"
    BY <2>1, <2>2, <2>3, <2>6, <1>5 DEF Grant
  <2>7. CASE FoldVerdict(r, cap) = "REFUSED"
    BY <2>1, <2>3, <2>7, <1>5 DEF Grant
  <2>8. QED
    BY <2>5, <2>6, <2>7, <1>3 DEF Grant
<1>10. QED
  BY <1>7, <1>8, <1>9

\* A leg is granted exactly when it exists and Atlas authorized all its needs.
LEMMA AcceptIs ==
  ASSUME NEW r, r.envelope \in Envelopes, Loadable(r.envelope),
         r.verified = VerifiedEvidence(r.envelope, r.at), NEW name
  PROVE  /\ Accept(r, name, NoArtifact) \in Grant
         /\ Accept(r, name, NoArtifact) = "GRANTED" <=>
              /\ HasLeg(r, name)
              /\ \A cap \in LegOf(r, name).needs :
                   Authorizes(r.envelope, r.at, LegOf(r, name), cap)
<1> DEFINE leg == LegOf(r, name)
           G == {NeedVerdict(r, leg, cap) : cap \in leg.needs}
<1>1. Accept(r, name, NoArtifact) = IF HasLeg(r, name) THEN Worst(G) ELSE "REFUSED"
  BY DEF Accept
<1> HIDE DEF leg
<1>2. \A cap \in leg.needs : /\ NeedVerdict(r, leg, cap) \in Grant
                             /\ NeedVerdict(r, leg, cap) = "GRANTED"
                                  <=> Authorizes(r.envelope, r.at, leg, cap)
  BY NeedIsAuthority
<1>3. "REFUSED" \notin G /\ "UNKNOWN" \notin G
        <=> \A cap \in leg.needs : NeedVerdict(r, leg, cap) = "GRANTED"
  BY <1>2 DEF Grant
<1> HIDE DEF G
<1>4. Worst(G) \in Grant /\ (Worst(G) = "GRANTED" <=> "REFUSED" \notin G /\ "UNKNOWN" \notin G)
  BY WorstGrants
<1>5. QED
  BY <1>1, <1>2, <1>3, <1>4 DEF Grant, leg

\* Comparing an artifact can only turn a grant into a refusal.
LEMMA ObservingOnlyRefuses ==
  ASSUME NEW r, NEW name, NEW observed, Accept(r, name, observed) = "GRANTED"
  PROVE  Accept(r, name, NoArtifact) = "GRANTED"
BY DEF Accept

LEMMA ConfirmIs ==
  ASSUME NEW r, NEW name, NEW actual, NEW origin, NEW fresh \in BOOLEAN,
         Accept(r, name, NoArtifact) = "GRANTED"
  PROVE  /\ Confirm(r, name, actual, origin, fresh) \in Grant
         /\ Confirm(r, name, actual, origin, fresh) = "GRANTED"
              => actual = LegOf(r, name).target
BY DEF Confirm, DispatchGate, Grant

------------------------------------------------------------------------------

LEMMA InitIInv == Init => IInv
<1> SUFFICES ASSUME Init PROVE IInv
  OBVIOUS
<1>1. obs \in [Target -> View]
  BY DEF Init, View
<1>2. TypeOK
  BY <1>1 DEF Init, TypeOK
<1>3. LoadedOK /\ BoundOK /\ CallOK
  BY DEF Init, LoadedOK, BoundOK, CallOK, NoRequirement, NoBinding
<1>4. EffectsAuthorized /\ ConfirmedWhereAuthorized
  BY DEF Init, EffectsAuthorized, ConfirmedWhereAuthorized, NoEffect
<1>5. QED
  BY <1>2, <1>3, <1>4 DEF IInv

\* An effect of no kind keeps the invariants about effects.
LEMMA NoEffectIsFine ==
  ASSUME effect' = NoEffect PROVE (EffectsAuthorized /\ ConfirmedWhereAuthorized)'
BY DEF NoEffect, EffectsAuthorized, ConfirmedWhereAuthorized

LEMMA LoadKeeps == ASSUME IInv, NEW e \in Envelopes, Load(e) PROVE IInv'
<1>1. /\ ~requirement.loaded /\ Loadable(e) /\ effect' = NoEffect
      /\ requirement' = [loaded |-> TRUE, envelope |-> e, at |-> now,
                         verified |-> VerifiedEvidence(e, now)]
      /\ UNCHANGED <<now, bound, obs, call>>
  BY DEF Load
<1>2. now \in Nat /\ e \in Envelope
  BY EnvelopeTypes DEF IInv, TypeOK
<1>3. VerifiedEvidence(e, now) \in SUBSET (LegName \X Item)
  BY EnvelopeTypes DEF VerifiedEvidence, Leg, Attestation
<1>4. requirement' \in [loaded : {TRUE}, envelope : Envelope, at : Nat,
                        verified : SUBSET (LegName \X Item)]
  BY <1>1, <1>2, <1>3
<1>5. TypeOK'
  BY <1>1, <1>4 DEF IInv, TypeOK
<1>6. LoadedOK'
  BY <1>1, <1>2 DEF LoadedOK
<1>7. BoundOK'
  BY <1>1 DEF IInv, BoundOK
<1>8. CallOK'
  BY <1>1 DEF IInv, CallOK
<1>9. QED
  BY <1>1, <1>5, <1>6, <1>7, <1>8, NoEffectIsFine DEF IInv

LEMMA BindKeeps ==
  ASSUME IInv, NEW name \in LegName, NEW x \in Expectations, NEW a \in Observed,
         Bind(name, x, a)
  PROVE  IInv'
<1> DEFINE verdict == IF Meets(requirement.envelope.session, x)
                      THEN Accept(requirement, name, a) ELSE "REFUSED"
<1>1. /\ requirement.loaded /\ effect' = NoEffect
      /\ bound' = [held |-> TRUE, leg |-> name, expected |-> x, verdict |-> verdict]
      /\ UNCHANGED <<now, requirement, obs, call>>
  BY DEF Bind
<1>2. x \in Expectation
  BY AtlasAssumption
<1>3. verdict \in Grant
  <2>1. Accept(requirement, name, a) \in Grant
    BY WorstGrants DEF Accept, Grant
  <2>2. QED
    BY <2>1 DEF Grant
<1>4. verdict = "GRANTED" => /\ Meets(requirement.envelope.session, x)
                             /\ Accept(requirement, name, NoArtifact) = "GRANTED"
  BY ObservingOnlyRefuses
<1> HIDE DEF verdict
<1>5. bound' \in [held : {TRUE}, leg : LegName, expected : Expectation, verdict : Grant]
  BY <1>1, <1>2, <1>3
<1>6. TypeOK'
  BY <1>1, <1>5 DEF IInv, TypeOK
<1>7. BoundOK'
  BY <1>1, <1>4 DEF BoundOK
<1>8. LoadedOK' /\ CallOK'
  BY <1>1 DEF IInv, LoadedOK, CallOK
<1>9. QED
  BY <1>1, <1>6, <1>7, <1>8, NoEffectIsFine DEF IInv

LEMMA NeedTyped ==
  ASSUME NEW tool \in {"run_command", "write_file", "commons_publish"}
  PROVE  Need(tool) \in Capability
BY DEF Need, Capability

LEMMA ExecuteKeeps ==
  ASSUME IInv, NEW tool \in {"run_command", "write_file", "commons_publish"}, Execute(tool)
  PROVE  IInv'
<1>1. /\ AtlasGate(Need(tool))
      /\ effect' = [kind |-> "tool", leg |-> bound.leg, need |-> Need(tool),
                    expected |-> bound.expected]
      /\ UNCHANGED <<now, requirement, bound, obs, call>>
  BY DEF Execute
<1>2. /\ bound.held /\ bound.verdict = "GRANTED"
      /\ HasLeg(requirement, bound.leg)
      /\ Need(tool) \in LegOf(requirement, bound.leg).needs
  BY <1>1 DEF AtlasGate, ToolAdmission
<1>3. bound \in [held : {TRUE}, leg : LegName, expected : Expectation, verdict : Grant]
  <2>1. bound # NoBinding
    BY <1>2 DEF NoBinding
  <2>2. QED
    BY <2>1 DEF IInv, TypeOK
<1>4. effect' \in [kind : {"tool"}, leg : LegName, need : Capability, expected : Expectation]
  BY <1>1, <1>3, NeedTyped
<1>5. TypeOK'
  BY <1>1, <1>4 DEF IInv, TypeOK
<1>6. LoadedOK' /\ BoundOK' /\ CallOK'
  BY <1>1 DEF IInv, LoadedOK, BoundOK, CallOK
<1>7. EffectsAuthorized'
  <2>1. /\ requirement.loaded
        /\ Meets(requirement.envelope.session, bound.expected)
        /\ Accept(requirement, bound.leg, NoArtifact) = "GRANTED"
    BY <1>2 DEF IInv, BoundOK
  <2>2. Authorizes(requirement.envelope, requirement.at,
                   LegOf(requirement, bound.leg), Need(tool))
    BY <1>2, <2>1, AcceptIs DEF IInv, LoadedOK
  <2>3. QED
    BY <1>1, <1>2, <2>1, <2>2 DEF EffectsAuthorized
<1>8. ConfirmedWhereAuthorized'
  BY <1>1 DEF ConfirmedWhereAuthorized
<1>9. QED
  BY <1>5, <1>6, <1>7, <1>8 DEF IInv

LEMMA AdmitKeeps ==
  ASSUME IInv, NEW name \in LegName, NEW w \in Target, NEW x \in Expectations,
         AdmitDispatch(name, w, x)
  PROVE  IInv'
<1>1. /\ AtlasDispatchGate(name, w, x) /\ effect' = NoEffect
      /\ call' = [stage |-> "admitted", leg |-> name, worker |-> w, expected |-> x]
      /\ UNCHANGED <<now, requirement, bound, obs>>
  BY DEF AdmitDispatch
<1>2. x \in Expectation
  BY AtlasAssumption
<1>3. call' \in [stage : {"admitted"}, leg : LegName, worker : Target, expected : Expectation]
  BY <1>1, <1>2
<1>4. TypeOK'
  BY <1>1, <1>3 DEF IInv, TypeOK
<1>5. CallOK'
  BY <1>1 DEF CallOK, AtlasDispatchGate, SessionCheck
<1>6. LoadedOK' /\ BoundOK'
  BY <1>1 DEF IInv, LoadedOK, BoundOK
<1>7. QED
  BY <1>1, <1>4, <1>5, <1>6, NoEffectIsFine DEF IInv

LEMMA ExecutesKeeps ==
  ASSUME IInv, NEW actual \in Target \cup {NoTarget}, NEW passed \in BOOLEAN,
         FabricExecutes(actual, passed)
  PROVE  IInv'
<1>1. /\ call.stage = "admitted"
      /\ call' = [stage |-> "executed", leg |-> call.leg, worker |-> call.worker,
                  actual |-> actual, passed |-> passed]
      /\ effect' = [kind |-> "dispatch", leg |-> call.leg, need |-> "worker.dispatch",
                    expected |-> call.expected, worker |-> call.worker]
      /\ UNCHANGED <<now, requirement, bound, obs>>
  BY DEF FabricExecutes
<1>2. call \in [stage : {"admitted"}, leg : LegName, worker : Target, expected : Expectation]
  BY <1>1 DEF IInv, TypeOK, NoCall
<1>3. /\ requirement.loaded
      /\ Accept(requirement, call.leg, NoArtifact) = "GRANTED"
      /\ "worker.dispatch" \in LegOf(requirement, call.leg).needs
      /\ call.worker \in AuthorizedTargets(requirement, "worker.dispatch")
      /\ Meets(requirement.envelope.session, call.expected)
  BY <1>1 DEF IInv, CallOK, NoCall
<1>4. /\ call' \in [stage : {"executed"}, leg : LegName, worker : Target,
                    actual : Target \cup {NoTarget}, passed : BOOLEAN]
      /\ effect' \in [kind : {"dispatch"}, leg : LegName, need : Capability,
                      expected : Expectation, worker : Target]
  BY <1>1, <1>2 DEF Capability
<1>5. TypeOK'
  BY <1>1, <1>4 DEF IInv, TypeOK
<1>6. CallOK'
  BY <1>1, <1>3 DEF CallOK
<1>7. LoadedOK' /\ BoundOK'
  BY <1>1 DEF IInv, LoadedOK, BoundOK
<1>8. EffectsAuthorized'
  <2>1. /\ HasLeg(requirement, call.leg)
        /\ Authorizes(requirement.envelope, requirement.at,
                      LegOf(requirement, call.leg), "worker.dispatch")
    BY <1>3, AcceptIs DEF IInv, LoadedOK
  <2>2. \E d \in Elements(requirement.envelope.decisions) :
          d.capability = "worker.dispatch" /\ d.target = call.worker
    BY <1>3 DEF AuthorizedTargets, DecisionsOn
  <2>3. QED
    BY <1>1, <1>3, <2>1, <2>2 DEF EffectsAuthorized
<1>9. ConfirmedWhereAuthorized'
  BY <1>1 DEF ConfirmedWhereAuthorized
<1>10. QED
  BY <1>5, <1>6, <1>7, <1>8, <1>9 DEF IInv

LEMMA FailsKeeps == ASSUME IInv, DispatchFails PROVE IInv'
<1>1. /\ call # NoCall /\ call' = NoCall
      /\ effect' = [kind |-> "report", leg |-> call.leg, actual |-> NoTarget,
                    success |-> FALSE, note |-> "FAILED"]
      /\ UNCHANGED <<now, requirement, bound, obs>>
  BY DEF DispatchFails
<1>2. call.leg \in LegName
  BY <1>1 DEF IInv, TypeOK
<1>3. effect' \in [kind : {"report"}, leg : LegName, actual : Target \cup {NoTarget},
                   success : BOOLEAN, note : Grant \cup {"FAILED"}]
  BY <1>1, <1>2
<1>4. TypeOK'
  BY <1>1, <1>3 DEF IInv, TypeOK
<1>5. LoadedOK' /\ BoundOK' /\ CallOK'
  BY <1>1 DEF IInv, LoadedOK, BoundOK, CallOK
<1>6. EffectsAuthorized' /\ ConfirmedWhereAuthorized'
  BY <1>1 DEF EffectsAuthorized, ConfirmedWhereAuthorized
<1>7. QED
  BY <1>4, <1>5, <1>6 DEF IInv

LEMMA ConfirmKeeps == ASSUME IInv, ConfirmDispatch PROVE IInv'
<1> DEFINE origin == Origin(call.worker)
           fresh == obs[call.worker].fresh
           verdict == Confirm(requirement, call.leg, call.actual, origin, fresh)
<1>1. /\ call.stage = "executed" /\ call' = NoCall
      /\ effect' = [kind |-> "report", leg |-> call.leg, actual |-> call.actual,
                    success |-> call.passed /\ verdict # "REFUSED", note |-> verdict]
      /\ UNCHANGED <<now, requirement, bound, obs>>
  BY DEF ConfirmDispatch
<1>2. call \in [stage : {"executed"}, leg : LegName, worker : Target,
                actual : Target \cup {NoTarget}, passed : BOOLEAN]
  BY <1>1 DEF IInv, TypeOK, NoCall
<1>3. /\ requirement.loaded
      /\ Accept(requirement, call.leg, NoArtifact) = "GRANTED"
      /\ "worker.dispatch" \in LegOf(requirement, call.leg).needs
  BY <1>1 DEF IInv, CallOK, NoCall
<1>4. fresh \in BOOLEAN
  BY <1>2 DEF IInv, TypeOK, View
<1>5. /\ verdict \in Grant
      /\ verdict = "GRANTED" => call.actual = LegOf(requirement, call.leg).target
  BY <1>3, <1>4, ConfirmIs
<1> HIDE DEF verdict
<1>6. (call.passed /\ verdict # "REFUSED") \in BOOLEAN
  OBVIOUS
<1>7. effect' \in [kind : {"report"}, leg : LegName, actual : Target \cup {NoTarget},
                   success : BOOLEAN, note : Grant \cup {"FAILED"}]
  BY <1>1, <1>2, <1>5, <1>6, Zenon
<1>8. TypeOK'
  BY <1>1, <1>7 DEF IInv, TypeOK
<1>9. LoadedOK' /\ BoundOK' /\ CallOK'
  BY <1>1 DEF IInv, LoadedOK, BoundOK, CallOK
<1>10. EffectsAuthorized'
  BY <1>1 DEF EffectsAuthorized
<1>11. ConfirmedWhereAuthorized'
  <2>1. effect'.actual = call.actual /\ effect'.leg = call.leg /\ effect'.note = verdict
    BY <1>1
  <2>2. Authorizes(requirement.envelope, requirement.at,
                   LegOf(requirement, call.leg), "worker.dispatch")
    BY <1>3, AcceptIs DEF IInv, LoadedOK
  <2>3. QED
    BY <2>1, <2>2, <1>1, <1>5 DEF ConfirmedWhereAuthorized
<1>12. QED
  BY <1>8, <1>9, <1>10, <1>11 DEF IInv

LEMMA ObserveKeeps ==
  ASSUME IInv, NEW w \in Target, NEW view \in Views, Observe(w, view) PROVE IInv'
<1>1. /\ obs' = [obs EXCEPT ![w] = view] /\ effect' = NoEffect
      /\ UNCHANGED <<now, requirement, bound, call>>
  BY DEF Observe
<1>2. view \in View
  BY AtlasAssumption
<1>3. obs' \in [Target -> View]
  BY <1>1, <1>2 DEF IInv, TypeOK
<1>4. TypeOK'
  BY <1>1, <1>3 DEF IInv, TypeOK
<1>5. LoadedOK' /\ BoundOK' /\ CallOK'
  BY <1>1 DEF IInv, LoadedOK, BoundOK, CallOK
<1>6. QED
  BY <1>1, <1>4, <1>5, NoEffectIsFine DEF IInv

LEMMA TickKeeps == ASSUME IInv, Tick PROVE IInv'
<1>1. /\ now' = now + 1 /\ effect' = NoEffect
      /\ UNCHANGED <<requirement, bound, obs, call>>
  BY DEF Tick
<1>2. TypeOK'
  <2>1. now' \in Nat
    BY <1>1 DEF IInv, TypeOK
  <2>2. QED
    BY <2>1, <1>1 DEF IInv, TypeOK
<1>3. LoadedOK' /\ BoundOK' /\ CallOK'
  BY <1>1 DEF IInv, LoadedOK, BoundOK, CallOK
<1>4. QED
  BY <1>1, <1>2, <1>3, NoEffectIsFine DEF IInv

LEMMA StepIInv == IInv /\ [Next]_vars => IInv'
<1> SUFFICES ASSUME IInv, [Next]_vars PROVE IInv'
  OBVIOUS
<1>1. CASE UNCHANGED vars
  <2>0. UNCHANGED <<now, requirement, bound, obs, call, effect>>
    BY <1>1 DEF vars
  <2>1. TypeOK'
    BY <2>0 DEF IInv, TypeOK
  <2>2. LoadedOK' /\ BoundOK' /\ CallOK'
    BY <2>0 DEF IInv, LoadedOK, BoundOK, CallOK
  <2>3. EffectsAuthorized' /\ ConfirmedWhereAuthorized'
    BY <2>0 DEF IInv, EffectsAuthorized, ConfirmedWhereAuthorized
  <2>4. QED
    BY <2>1, <2>2, <2>3 DEF IInv
<1>2. CASE Next
  BY <1>2, LoadKeeps, BindKeeps, ExecuteKeeps, AdmitKeeps, ExecutesKeeps, FailsKeeps,
     ConfirmKeeps, ObserveKeeps, TickKeeps DEF Next
<1>3. QED
  BY <1>1, <1>2

LEMMA Invariance == Spec => []IInv
BY InitIInv, StepIInv, PTL DEF Spec

\* Every variable keeps its type, for all envelopes.
THEOREM TypeCorrect == Spec => []TypeOK
<1>1. IInv => TypeOK
  BY DEF IInv
<1>2. QED
  BY <1>1, Invariance, PTL

\* accept grants exactly what Atlas authorized.
THEOREM AuthorityIsAccepted == Spec => []AcceptIsAuthority
<1>1. IInv => AcceptIsAuthority
  <2> SUFFICES ASSUME IInv, requirement.loaded, NEW name \in LegName, HasLeg(requirement, name)
               PROVE  Accept(requirement, name, NoArtifact) = "GRANTED"
                        <=> \A cap \in LegOf(requirement, name).needs :
                              Authorizes(requirement.envelope, requirement.at,
                                         LegOf(requirement, name), cap)
    BY DEF AcceptIsAuthority
  <2>1. /\ requirement.envelope \in Envelopes /\ Loadable(requirement.envelope)
        /\ requirement.verified = VerifiedEvidence(requirement.envelope, requirement.at)
    BY DEF IInv, LoadedOK
  <2>2. QED
    BY <2>1, AcceptIs
<1>2. QED
  BY <1>1, Invariance, PTL

\* Nothing consequential happens outside what Atlas authorized.
THEOREM EffectsAreAuthorized == Spec => []EffectsAuthorized
<1>1. IInv => EffectsAuthorized
  BY DEF IInv
<1>2. QED
  BY <1>1, Invariance, PTL

\* A confirmed execution ran where its leg says and Atlas allows.
THEOREM ConfirmationIsPlacement == Spec => []ConfirmedWhereAuthorized
<1>1. IInv => ConfirmedWhereAuthorized
  BY DEF IInv
<1>2. QED
  BY <1>1, Invariance, PTL
==============================================================================
