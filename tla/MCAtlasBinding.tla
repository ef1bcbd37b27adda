---------------------------- MODULE MCAtlasBinding ----------------------------
(***************************************************************************)
(* Envelopes for AtlasBinding.                                             *)
(***************************************************************************)
EXTENDS AtlasBinding

CONSTANTS t1, t2, nowhere, leg1, leg2, ev, p1, p2, s1, nobody, art, other, none

TwoTargets == {t1, t2}
TwoLegs == {leg1, leg2}
OneEvidence == {ev}
TwoParticipants == {p1, p2}
OneScope == {s1}
TwoArtifacts == {art, other}

Ours == [participant |-> p1, scope |-> s1]
Theirs == [participant |-> p2, scope |-> s1]
Anyone == [participant |-> nobody, scope |-> nobody]

OursOrTheirs == {Ours, Theirs}
NothingOrOther == {none, other}
AllViews == View

Says(cap, status, missing, target) ==
  [capability |-> cap, status |-> status, missing |-> missing, target |-> target,
   session |-> Ours, signed |-> TRUE]

\* Every kind of decision, with and without a worker.
Dispatching ==
  {Says("worker.dispatch", "granted", {}, nowhere),
   Says("worker.dispatch", "granted", {}, t1),
   Says("worker.dispatch", "granted", {}, t2),
   Says("worker.dispatch", "denied", {}, nowhere),
   Says("worker.dispatch", "conditional", {ev}, t1),
   Says("worker.dispatch", "conditional", {ExecutionTarget}, t1)}

Editing ==
  {Says("repo.edit", "granted", {}, nowhere), Says("repo.edit", "denied", {}, nowhere),
   Says("repo.edit", "conditional", {ev}, nowhere)}

Attested == [name |-> ev, session |-> Ours, general |-> TRUE, issued |-> 0, signed |-> TRUE]

\* One flaw each: expired at instant 1, from the future, foreign, forged,
\* bound to a subject.
Attestations ==
  {Attested, [Attested EXCEPT !.issued = -1], [Attested EXCEPT !.issued = 1],
   [Attested EXCEPT !.session = Theirs], [Attested EXCEPT !.signed = FALSE],
   [Attested EXCEPT !.general = FALSE]}

Env(decisions, legs) ==
  [session |-> Ours, artifact |-> art, decisions |-> decisions, legs |-> legs]

LegFor(name, needs, target, evidence) ==
  [name |-> name, needs |-> needs, target |-> target, evidence |-> evidence]

\* Everything Atlas can have said twice about dispatching, or once about
\* dispatching and about editing, and every flaw of a piece of evidence.
AuthorityEnvelopes ==
  {Env(ds, <<LegFor(leg1, {"worker.dispatch"}, t1, E)>>) :
     ds \in {<<c, d>> : c, d \in Dispatching}, E \in {{}, {Attested}}}
  \cup
  {Env(<<c, d>>, <<LegFor(leg1, {"worker.dispatch", "repo.edit"}, t1, {Attested})>>) :
     c \in Dispatching, d \in Editing}
  \cup
  {Env(<<Says("worker.dispatch", "conditional", {ev}, t1)>>,
       <<LegFor(leg1, {"worker.dispatch"}, t1, {a})>>) : a \in Attestations}

\* Two legs, evidence on one of them, two authorized workers, flawed decisions.
GateEnvelopes ==
  {Env(<<Says("worker.dispatch", "granted", {}, t1), d>>,
       <<LegFor(leg1, {"worker.dispatch"}, t1, {}),
         LegFor(leg2, {"repo.edit", "evidence.attest"}, t2, {Attested})>>) :
     d \in {Says("worker.dispatch", "granted", {}, t2),
            Says("repo.edit", "conditional", {ev}, nowhere),
            [Says("repo.edit", "granted", {}, nowhere) EXCEPT !.signed = FALSE],
            [Says("repo.edit", "granted", {}, nowhere) EXCEPT !.session = Theirs]}}
  \cup
  {Env(<<Says("repo.edit", "granted", {}, nowhere),
         Says("evidence.attest", "granted", {}, t2)>>,
       <<LegFor(leg2, {"repo.edit", "evidence.attest"}, t2, {}),
         LegFor(leg1, {"worker.dispatch"}, t1, {})>>)}

AllEnvelopes == AuthorityEnvelopes \cup GateEnvelopes

==============================================================================
