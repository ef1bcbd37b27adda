-------------------------- MODULE EnvelopeFold_proofs --------------------------
(***************************************************************************)
(* The host's verdict is right for every list, every lattice and every     *)
(* choice of envelope widths.  The invariant follows the information       *)
(* through the loop: what dominates the list is exactly what dominates     *)
(* everything the host still holds (the rest of the queue, the rest of the *)
(* running call with its accumulator, and the partial results).            *)
(*                                                                         *)
(* The second part is about the readiness report, whose verdict such a     *)
(* host folds: READY is earned, a quiet fleet is judged exactly, and the   *)
(* worst of the layers, by which Readiness computes the verdict, is what   *)
(* the fold returns.                                                       *)
(***************************************************************************)
EXTENDS EnvelopeFold, Readiness, SequenceTheorems, TLAPS

CallAbove(u) ==
  envelope # << >> =>
    /\ Dominates(u, acc)
    /\ \A k \in next..Len(envelope) : Dominates(u, envelope[k])

HeldAbove(u) == Above(u, queue) /\ Above(u, partials) /\ CallAbove(u)

NothingLost ==
  result = << >> => \A u \in Value : Above(u, input) <=> HeldAbove(u)

AfterResult == result # << >> => envelope = << >> /\ result[1] \in Value

IInv == TypeOK /\ next >= 1 /\ AfterResult /\ NothingLost /\ ResultIsJoin

------------------------------------------------------------------------------

\* A verdict dominates a joined pair exactly when it dominates both: the law of
\* the kernel's pairwise step that makes the regrouping harmless.
LEMMA JoinDominated ==
  ASSUME NEW a \in Value, NEW b \in Value, NEW u \in Value
  PROVE  Dominates(u, Join(a, b)) <=> Dominates(u, a) /\ Dominates(u, b)
<1> USE JoinAssumption DEF Dominates
<1>1. ASSUME Join(Join(a, b), u) = u  PROVE Join(a, u) = u /\ Join(b, u) = u
  <2>1. Join(a, u) = u
    <3>1. Join(a, u) = Join(a, Join(Join(a, b), u))
      BY <1>1
    <3>2. Join(a, Join(Join(a, b), u)) = Join(Join(a, Join(a, b)), u)
      OBVIOUS
    <3>3. Join(a, Join(a, b)) = Join(Join(a, a), b)
      OBVIOUS
    <3>4. QED
      BY <3>1, <3>2, <3>3, <1>1
  <2>2. Join(b, u) = u
    <3>1. Join(b, u) = Join(b, Join(Join(b, a), u))
      BY <1>1
    <3>2. Join(b, Join(Join(b, a), u)) = Join(Join(b, Join(b, a)), u)
      OBVIOUS
    <3>3. Join(b, Join(b, a)) = Join(Join(b, b), a)
      OBVIOUS
    <3>4. QED
      BY <3>1, <3>2, <3>3, <1>1
  <2>3. QED
    BY <2>1, <2>2
<1>2. ASSUME Join(a, u) = u, Join(b, u) = u  PROVE Join(Join(a, b), u) = u
  <2>1. Join(Join(a, b), u) = Join(a, Join(b, u))
    OBVIOUS
  <2>2. QED
    BY <2>1, <1>2
<1>3. QED
  BY <1>1, <1>2

LEMMA NeutralDominated == ASSUME NEW u \in Value PROVE Dominates(u, Neutral)
BY JoinAssumption DEF Dominates

\* An envelope and what lies beyond it carry what the list carried.
LEMMA CutKeepsAll ==
  ASSUME NEW s \in Seq(Value), NEW w \in Nat \ {0}, NEW u \in Value
  PROVE  /\ Padded(s, w) \in Seq(Value)
         /\ Len(Padded(s, w)) = w
         /\ Beyond(s, w) \in Seq(Value)
         /\ Above(u, s) <=> /\ Above(u, Beyond(s, w))
                            /\ \A k \in 1..w : Dominates(u, Padded(s, w)[k])
<1> DEFINE d == IF Len(s) > w THEN Len(s) - w ELSE 0
<1>1. d \in Nat /\ Len(s) \in Nat /\ DOMAIN s = 1..Len(s)
  OBVIOUS
<1>2. \A k \in 1..w : Padded(s, w)[k] = IF k =< Len(s) THEN s[k] ELSE Neutral
  BY DEF Padded
<1>3. Padded(s, w) \in Seq(Value) /\ Len(Padded(s, w)) = w
  BY <1>1, JoinAssumption DEF Padded
<1>4. /\ Beyond(s, w) \in Seq(Value)
      /\ DOMAIN Beyond(s, w) = 1..d
      /\ \A k \in 1..d : Beyond(s, w)[k] = s[k + w]
  BY <1>1 DEF Beyond
<1>5. ASSUME Above(u, s)
      PROVE  Above(u, Beyond(s, w)) /\ \A k \in 1..w : Dominates(u, Padded(s, w)[k])
  <2>1. \A k \in 1..d : Dominates(u, s[k + w])
    BY <1>1, <1>5 DEF Above
  <2>2. Above(u, Beyond(s, w))
    BY <1>4, <2>1 DEF Above
  <2>3. \A k \in 1..w : Dominates(u, Padded(s, w)[k])
    BY <1>1, <1>2, <1>5, NeutralDominated DEF Above
  <2>4. QED
    BY <2>2, <2>3
<1>6. ASSUME Above(u, Beyond(s, w)), \A k \in 1..w : Dominates(u, Padded(s, w)[k])
      PROVE  Above(u, s)
  <2> SUFFICES ASSUME NEW k \in 1..Len(s) PROVE Dominates(u, s[k])
    BY <1>1 DEF Above
  <2>1. CASE k =< w
    BY <2>1, <1>1, <1>2, <1>6
  <2>2. CASE k > w
    <3>1. k - w \in 1..d /\ (k - w) + w = k
      BY <2>2, <1>1
    <3>2. Dominates(u, Beyond(s, w)[k - w])
      BY <3>1, <1>4, <1>6 DEF Above
    <3>3. QED
      BY <3>1, <3>2, <1>4
  <2>3. QED
    BY <2>1, <2>2, <1>1
<1>7. QED
  BY <1>3, <1>4, <1>5, <1>6

LEMMA WidthPositive == TypeOK => Width \in Nat \ {0}
<1> SUFFICES ASSUME TypeOK PROVE Width \in Nat \ {0}
  OBVIOUS
<1>1. host \in [short : Nat \ {0}, head : Nat \ {0}, tail : Nat \ {0}, group : Nat \ {0}]
  BY WidthAssumption DEF TypeOK
<1>2. QED
  BY <1>1 DEF Width

------------------------------------------------------------------------------

LEMMA InitIInv == Init => IInv
<1> SUFFICES ASSUME Init PROVE IInv
  OBVIOUS
<1>1. input \in Seq(Value)
  BY WidthAssumption DEF Init
<1>2. TypeOK /\ next >= 1 /\ AfterResult /\ ResultIsJoin
  BY <1>1, JoinAssumption DEF Init, TypeOK, AfterResult, ResultIsJoin
<1>3. NothingLost
  BY DEF Init, NothingLost, HeldAbove, CallAbove, Above
<1>4. QED
  BY <1>2, <1>3 DEF IInv

LEMMA MarshalKeeps == IInv /\ Marshal => IInv'
<1> SUFFICES ASSUME IInv, Marshal PROVE IInv'
  OBVIOUS
<1> DEFINE w == Width
<1>1. w \in Nat \ {0} /\ queue \in Seq(Value)
  BY WidthPositive DEF IInv, TypeOK
<1> HIDE DEF w
<1>2. /\ envelope' = Padded(queue, w) /\ queue' = Beyond(queue, w)
      /\ next' = 1 /\ acc' = Neutral /\ result = << >> /\ envelope = << >>
      /\ UNCHANGED <<host, input, level, partials, result>>
  BY DEF Marshal, w
<1>3. /\ envelope' \in Seq(Value) /\ Len(envelope') = w /\ queue' \in Seq(Value)
  BY <1>1, <1>2, CutKeepsAll, JoinAssumption
<1>4. TypeOK' /\ next' >= 1
  BY <1>2, <1>3, JoinAssumption DEF IInv, TypeOK
<1>5. AfterResult' /\ ResultIsJoin'
  BY <1>2 DEF AfterResult, ResultIsJoin
<1>6. NothingLost'
  <2> SUFFICES ASSUME NEW u \in Value PROVE Above(u, input) <=> HeldAbove(u)'
    BY <1>2 DEF NothingLost, Above
  <2>1. Above(u, input) <=> Above(u, queue) /\ Above(u, partials)
    BY <1>2 DEF IInv, NothingLost, HeldAbove, CallAbove
  <2>2. Above(u, queue) <=> /\ Above(u, queue')
                            /\ \A k \in 1..w : Dominates(u, envelope'[k])
    BY <1>1, <1>2, CutKeepsAll
  <2>3. CallAbove(u)' <=> \A k \in 1..w : Dominates(u, envelope'[k])
    <3>1. envelope' # << >>
      BY <1>1, <1>3
    <3>2. QED
      BY <3>1, <1>2, <1>3, NeutralDominated DEF CallAbove, Dominates
  <2>4. Above(u, partials') <=> Above(u, partials)
    BY <1>2
  <2>5. QED
    BY <2>1, <2>2, <2>3, <2>4 DEF HeldAbove, Above, Dominates
<1>7. QED
  BY <1>4, <1>5, <1>6 DEF IInv

LEMMA IterateKeeps == IInv /\ Iterate => IInv'
<1> SUFFICES ASSUME IInv, Iterate PROVE IInv'
  OBVIOUS
<1>1. /\ envelope # << >> /\ next \in 1..Len(envelope) /\ envelope[next] \in Value
      /\ acc \in Value /\ envelope \in Seq(Value) /\ next \in Nat
      /\ acc' = Join(acc, envelope[next]) /\ next' = next + 1
      /\ UNCHANGED <<host, input, level, queue, envelope, partials, result>>
  BY DEF Iterate, IInv, TypeOK
<1>2. acc' \in Value
  BY <1>1, JoinAssumption
<1>3. TypeOK' /\ next' >= 1
  BY <1>1, <1>2 DEF IInv, TypeOK
<1>4. result = << >>
  BY <1>1 DEF IInv, AfterResult
<1>5. AfterResult' /\ ResultIsJoin'
  BY <1>1, <1>4 DEF AfterResult, ResultIsJoin
<1>6. NothingLost'
  <2> SUFFICES ASSUME NEW u \in Value PROVE Above(u, input) <=> HeldAbove(u)'
    BY <1>1 DEF NothingLost, Above
  <2>1. CallAbove(u)' <=> CallAbove(u)
    <3>1. Dominates(u, acc') <=> Dominates(u, acc) /\ Dominates(u, envelope[next])
      BY <1>1, JoinDominated
    <3>2. Len(envelope) \in Nat /\ next..Len(envelope) = {next} \cup ((next + 1)..Len(envelope))
      BY <1>1
    <3>3. QED
      BY <3>1, <3>2, <1>1 DEF CallAbove, Dominates
  <2>2. HeldAbove(u)' <=> HeldAbove(u)
    BY <2>1, <1>1 DEF HeldAbove, Above, Dominates
  <2>3. QED
    BY <2>2, <1>4 DEF IInv, NothingLost
<1>7. QED
  BY <1>3, <1>5, <1>6 DEF IInv

LEMMA ReturnKeeps == IInv /\ Return => IInv'
<1> SUFFICES ASSUME IInv, Return PROVE IInv'
  OBVIOUS
<1>1. /\ envelope # << >> /\ next > Len(envelope)
      /\ acc \in Value /\ envelope \in Seq(Value) /\ next \in Nat
      /\ partials \in Seq(Value)
      /\ partials' = Append(partials, acc) /\ envelope' = << >>
      /\ UNCHANGED <<host, input, level, queue, next, acc, result>>
  BY DEF Return, IInv, TypeOK
<1>2. TypeOK' /\ next' >= 1
  BY <1>1 DEF IInv, TypeOK
<1>3. result = << >>
  BY <1>1 DEF IInv, AfterResult
<1>4. AfterResult' /\ ResultIsJoin'
  BY <1>1, <1>3 DEF AfterResult, ResultIsJoin
<1>5. NothingLost'
  <2> SUFFICES ASSUME NEW u \in Value PROVE Above(u, input) <=> HeldAbove(u)'
    BY <1>1 DEF NothingLost, Above
  <2>1. CallAbove(u) <=> Dominates(u, acc)
    BY <1>1 DEF CallAbove
  <2>2. CallAbove(u)'
    BY <1>1 DEF CallAbove
  <2>3. Above(u, partials') <=> Above(u, partials) /\ Dominates(u, acc)
    <3>1. /\ DOMAIN partials' = 1..(Len(partials) + 1)
          /\ \A k \in 1..Len(partials) : partials'[k] = partials[k]
          /\ partials'[Len(partials) + 1] = acc
          /\ DOMAIN partials = 1..Len(partials) /\ Len(partials) \in Nat
      BY <1>1
    <3>2. QED
      BY <3>1 DEF Above
  <2>4. Above(u, queue') <=> Above(u, queue)
    BY <1>1
  <2>5. HeldAbove(u)' <=> HeldAbove(u)
    BY <2>1, <2>2, <2>3, <2>4 DEF HeldAbove, Above, Dominates
  <2>6. QED
    BY <2>5, <1>3 DEF IInv, NothingLost
<1>6. QED
  BY <1>2, <1>4, <1>5 DEF IInv

LEMMA RegroupKeeps == IInv /\ Regroup => IInv'
<1> SUFFICES ASSUME IInv, Regroup PROVE IInv'
  OBVIOUS
<1>1. /\ result = << >> /\ envelope = << >> /\ queue = << >>
      /\ level' = "partials" /\ queue' = partials /\ partials' = << >>
      /\ UNCHANGED <<host, input, envelope, next, acc, result>>
  BY DEF Regroup, LevelDone
<1>2. TypeOK' /\ next' >= 1
  BY <1>1 DEF IInv, TypeOK
<1>3. AfterResult' /\ ResultIsJoin'
  BY <1>1 DEF AfterResult, ResultIsJoin
<1>4. NothingLost'
  <2> SUFFICES ASSUME NEW u \in Value PROVE Above(u, input) <=> HeldAbove(u)'
    BY <1>1 DEF NothingLost, Above
  <2>1. HeldAbove(u) <=> Above(u, partials)
    BY <1>1 DEF HeldAbove, CallAbove, Above
  <2>2. HeldAbove(u)' <=> Above(u, queue')
    BY <1>1 DEF HeldAbove, CallAbove, Above
  <2>3. QED
    BY <2>1, <2>2, <1>1 DEF IInv, NothingLost
<1>5. QED
  BY <1>2, <1>3, <1>4 DEF IInv

LEMMA PairwiseKeeps == IInv /\ Pairwise => IInv'
<1> SUFFICES ASSUME IInv, Pairwise PROVE IInv'
  OBVIOUS
<1> DEFINE rest == Beyond(partials, 2)
           two == <<Join(partials[1], partials[2])>>
<1>1. /\ result = << >> /\ envelope = << >> /\ queue = << >>
      /\ partials \in Seq(Value) /\ Len(partials) > 1
      /\ partials' = two \o rest
      /\ UNCHANGED <<host, input, level, queue, envelope, next, acc, result>>
  BY DEF Pairwise, LevelDone, MustCombine, IInv, TypeOK
<1>2. /\ partials[1] \in Value /\ partials[2] \in Value
      /\ Len(partials) \in Nat /\ DOMAIN partials = 1..Len(partials)
  BY <1>1
<1>3. Join(partials[1], partials[2]) \in Value
  BY <1>2, JoinAssumption
<1>4. /\ rest \in Seq(Value) /\ Len(rest) = Len(partials) - 2
      /\ \A k \in 1..(Len(partials) - 2) : rest[k] = partials[k + 2]
  BY <1>1, <1>2 DEF Beyond
<1> HIDE DEF rest
<1>5. /\ partials' \in Seq(Value) /\ Len(partials') = Len(partials) - 1
      /\ partials'[1] = Join(partials[1], partials[2])
      /\ \A k \in 2..(Len(partials) - 1) : partials'[k] = rest[k - 1]
  <2>1. two \in Seq(Value) /\ Len(two) = 1 /\ two[1] = Join(partials[1], partials[2])
    BY <1>3
  <2> HIDE DEF two
  <2>2. /\ two \o rest \in Seq(Value) /\ Len(two \o rest) = Len(two) + Len(rest)
        /\ \A k \in 1..(Len(two) + Len(rest)) :
             (two \o rest)[k] = IF k =< Len(two) THEN two[k] ELSE rest[k - Len(two)]
    BY <2>1, <1>4, ConcatProperties
  <2>3. QED
    BY <2>1, <2>2, <1>1, <1>2, <1>4
<1>6. TypeOK' /\ next' >= 1
  BY <1>1, <1>5 DEF IInv, TypeOK
<1>7. AfterResult' /\ ResultIsJoin'
  BY <1>1 DEF AfterResult, ResultIsJoin
<1>8. NothingLost'
  <2> SUFFICES ASSUME NEW u \in Value PROVE Above(u, input) <=> HeldAbove(u)'
    BY <1>1 DEF NothingLost, Above
  <2>1. HeldAbove(u) <=> Above(u, partials)
    BY <1>1 DEF HeldAbove, CallAbove, Above
  <2>2. HeldAbove(u)' <=> Above(u, partials')
    BY <1>1 DEF HeldAbove, CallAbove, Above
  <2>3. Dominates(u, partials'[1]) <=> Dominates(u, partials[1]) /\ Dominates(u, partials[2])
    BY <1>2, <1>5, JoinDominated
  <2>4. ASSUME Above(u, partials) PROVE Above(u, partials')
    <3> SUFFICES ASSUME NEW k \in 1..(Len(partials) - 1) PROVE Dominates(u, partials'[k])
      BY <1>5 DEF Above
    <3>1. CASE k = 1
      BY <3>1, <2>3, <2>4, <1>1, <1>2 DEF Above
    <3>2. CASE k # 1
      <4>1. k - 1 \in 1..(Len(partials) - 2) /\ k + 1 \in DOMAIN partials /\ (k - 1) + 2 = k + 1
        BY <3>2, <1>2
      <4>2. partials'[k] = partials[k + 1]
        BY <4>1, <3>2, <1>2, <1>4, <1>5
      <4>3. QED
        BY <4>1, <4>2, <2>4 DEF Above
    <3>3. QED
      BY <3>1, <3>2
  <2>5. ASSUME Above(u, partials') PROVE Above(u, partials)
    <3> SUFFICES ASSUME NEW k \in 1..Len(partials) PROVE Dominates(u, partials[k])
      BY <1>2 DEF Above
    <3>0. \A j \in 1..(Len(partials) - 1) : Dominates(u, partials'[j])
      BY <1>5, <2>5 DEF Above
    <3>1. CASE k \in {1, 2}
      BY <3>0, <3>1, <2>3, <1>1, <1>2
    <3>2. CASE k \notin {1, 2}
      <4>1. /\ k - 1 \in 2..(Len(partials) - 1) /\ k - 1 \in 1..(Len(partials) - 1)
            /\ k - 2 \in 1..(Len(partials) - 2) /\ (k - 1) - 1 = k - 2 /\ (k - 2) + 2 = k
        BY <3>2, <1>2
      <4>2. partials'[k - 1] = rest[k - 2]
        BY <4>1, <1>5
      <4>3. rest[k - 2] = partials[k]
        BY <4>1, <1>4
      <4>4. QED
        BY <4>1, <4>2, <4>3, <3>0
    <3>3. QED
      BY <3>1, <3>2
  <2>6. QED
    BY <2>1, <2>2, <2>4, <2>5, <1>1 DEF IInv, NothingLost
<1>9. QED
  BY <1>6, <1>7, <1>8 DEF IInv

LEMMA DeliverKeeps == IInv /\ Deliver => IInv'
<1> SUFFICES ASSUME IInv, Deliver PROVE IInv'
  OBVIOUS
<1>1. /\ result = << >> /\ envelope = << >> /\ queue = << >>
      /\ partials \in Seq(Value) /\ ~(Len(partials) > 1)
      /\ result' = IF partials = << >> THEN <<Neutral>> ELSE partials
      /\ UNCHANGED <<host, input, level, queue, envelope, next, acc, partials>>
  BY DEF Deliver, LevelDone, MustCombine, IInv, TypeOK
<1>2. result' \in Seq(Value) /\ result'[1] \in Value
  BY <1>1, JoinAssumption
<1>3. TypeOK' /\ next' >= 1
  BY <1>1, <1>2 DEF IInv, TypeOK
<1>4. AfterResult'
  BY <1>1, <1>2 DEF AfterResult
<1>5. result' # << >>
  BY <1>1
<1>6. NothingLost'
  BY <1>5 DEF NothingLost
<1>7. ResultIsJoin'
  <2> SUFFICES ASSUME NEW u \in Value PROVE Dominates(u, result'[1]) <=> Above(u, input)
    BY <1>1 DEF ResultIsJoin, Dominates, Above
  <2>1. Above(u, input) <=> Above(u, partials)
    BY <1>1 DEF IInv, NothingLost, HeldAbove, CallAbove, Above
  <2>2. Above(u, partials) <=> Dominates(u, result'[1])
    <3>1. CASE partials = << >>
      BY <3>1, <1>1, NeutralDominated DEF Above
    <3>2. CASE partials # << >>
      <4>1. Len(partials) = 1
        <5>1. partials \in Seq(Value)
          BY <1>1
        <5>2. Len(partials) \in Nat \ {0}
          BY <5>1, <3>2, EmptySeq
        <5>3. ~(Len(partials) > 1)
          BY <1>1
        <5> DEFINE n == Len(partials)
        <5>4. n \in Nat \ {0} /\ ~(n > 1)
          BY <5>2, <5>3
        <5> HIDE DEF n
        <5>5. n = 1
          BY <5>4
        <5>6. QED
          BY <5>5 DEF n
      <4>2. DOMAIN partials = {1}
        BY <4>1, <1>1
      <4>3. result' = partials
        BY <3>2, <1>1
      <4>4. QED
        BY <4>2, <4>3 DEF Above
    <3>3. QED
      BY <3>1, <3>2
  <2>3. QED
    BY <2>1, <2>2
<1>8. QED
  BY <1>3, <1>4, <1>6, <1>7 DEF IInv

LEMMA StepIInv == IInv /\ [Next]_vars => IInv'
<1> SUFFICES ASSUME IInv, [Next]_vars PROVE IInv'
  OBVIOUS
<1>1. CASE UNCHANGED vars
  BY <1>1 DEF vars, IInv, TypeOK, AfterResult, NothingLost, HeldAbove, CallAbove,
              ResultIsJoin, Above, Dominates
<1>2. CASE Next
  BY <1>2, MarshalKeeps, IterateKeeps, ReturnKeeps, RegroupKeeps, PairwiseKeeps,
     DeliverKeeps DEF Next
<1>3. QED
  BY <1>1, <1>2

\* The verdict the host returns is the least one that dominates the whole list,
\* for lists of any length, any kernel whose pairwise step is a join, and any
\* envelope widths.
THEOREM FoldIsJoin == Spec => []ResultIsJoin
<1>1. Spec => []IInv
  BY InitIInv, StepIInv, PTL DEF Spec
<1>2. IInv => ResultIsJoin
  BY DEF IInv
<1>3. QED
  BY <1>1, <1>2, PTL

\* Type correctness, for every instance.
THEOREM TypeCorrect == Spec => []TypeOK
<1>1. Spec => []IInv
  BY InitIInv, StepIInv, PTL DEF Spec
<1>2. IInv => TypeOK
  BY DEF IInv
<1>3. QED
  BY <1>1, <1>2, PTL

------------------------------------------------------------------------------
(***************************************************************************)
(* Readiness.  What the calls of an inspection brought is related to the   *)
(* fleet they were answered by: a defect the evidence would show and does  *)
(* not show was absent when it was asked for.                              *)
(***************************************************************************)

\* The evidence about w speaks of the defect d.
Tells(w, d) ==
  d \in RowDefect \/ \E f \in Field \ evidence.workers[w].lacking : d \in Shown(f)

Heard == phase \notin {"start", "opened"}

\* What is not shown was not there.
HonestRow(w) ==
  LET e == evidence.workers[w] IN
  /\ e.decision = "none" <=> "decision" \notin site.carries
  /\ e.decision = "ready" => ManagedDefect \subseteq absent[w]
  /\ e.models = IF "models" \in site.carries THEN site.models[w] ELSE {}
  /\ "service" \notin e.lacking <=> "service" \in site.carries
  /\ \A d \in Defect : Tells(w, d) => d \in e.found \cup absent[w]

HonestOK == Live /\ Heard => \A w \in DOMAIN evidence.workers : HonestRow(w)

\* Nothing changed, so that what is shown is what is there.
QuietRow(w) ==
  LET e == evidence.workers[w] IN
  /\ \A d \in defects[w] : Tells(w, d) => d \in e.found
  /\ e.found \subseteq defects[w] \ {"rebuilt", "redesired"}
  /\ "outdated" \in e.found => "service" \in site.carries
  /\ e.decision = "ready" => defects[w] \cap ManagedDefect = {}
  /\ e.decision = "not ready" => defects[w] \cap ManagedDefect # {}

QuietOK ==
  Live /\ Heard /\ changes = 0 =>
    /\ evidence.connected = "yes" =>
         /\ DOMAIN evidence.workers = Worker
         /\ evidence.available
         /\ (\E w \in Worker : "down" \notin defects[w]) => evidence.routing = "yes"
    /\ \A w \in DOMAIN evidence.workers : QuietRow(w)

\* What the other calls bring, and what no call brings.
Asked == phase \in {"asked", "judged"}
Unidentified == site.unidentified \cup
                  IF site.studies \in {"pinned", "schemaless"} THEN {} ELSE {"reference_studies"}
RestOK ==
  Live =>
    /\ evidence.harness = "READY" /\ evidence.forge = "UNKNOWN"
    /\ phase \in {"probed", "inspected"} \/ Asked =>
         evidence.artifacts = IF site.writable THEN "READY" ELSE "BLOCKED"
    /\ Asked =>
         /\ ~evidence.fabric.missing => ~site.fabric.missing /\ evidence.unidentified = Unidentified
         /\ evidence.fabric.parseable <=> site.fabric.parseable /\ site.mode = "service"
         /\ evidence.fabric.old = site.fabric.old
         /\ evidence.residency = "supported" <=>
              site.keepAlive /\ ~evidence.fabric.missing /\ Recorded(evidence) # {}
         /\ evidence.studies = site.studies /\ evidence.ravel = site.ravel

SuppliedOK == ~Live => Asked

JudgedOK ==
  verdict # "none" =>
    phase = "judged" /\ profile \in Profile /\ verdict = Judgement(evidence, profile)

ReadinessInv == ReadinessTypeOK /\ SuppliedOK /\ HonestOK /\ QuietOK /\ RestOK /\ JudgedOK

------------------------------------------------------------------------------

LEMMA ShownIs ==
  ASSUME NEW f, NEW d
  PROVE  d \in Shown(f) <=>
           \/ f = "state" /\ d = "held"
           \/ f = "schedulable" /\ d = "barred"
           \/ f = "transaction" /\ d = "updating"
           \/ f = "certification" /\ d = "uncertified"
           \/ f = "conformance" /\ d = "nonconforming"
           \/ f = "service" /\ d = "outdated"
<1>1. CASE f = "state"
  BY <1>1 DEF Shown
<1>2. CASE f = "schedulable"
  BY <1>2 DEF Shown
<1>3. CASE f = "transaction"
  BY <1>3 DEF Shown
<1>4. CASE f = "certification"
  BY <1>4 DEF Shown
<1>5. CASE f = "conformance"
  BY <1>5 DEF Shown
<1>6. CASE f = "service"
  BY <1>6 DEF Shown
<1>7. CASE f \notin {"state", "schedulable", "transaction", "certification", "conformance", "service"}
  BY <1>7 DEF Shown
<1>8. QED
  BY <1>1, <1>2, <1>3, <1>4, <1>5, <1>6, <1>7

LEMMA ShownByIs ==
  ASSUME NEW F, NEW d
  PROVE  /\ d \in ShownBy(F) <=> \E f \in F : d \in Shown(f)
         /\ d \in ShownBy(F) => d \in Defect \ {"down", "stale", "rebuilt", "redesired"}
<1>1. d \in ShownBy(F) <=> \E f \in F : d \in Shown(f)
  BY DEF ShownBy
<1>2. QED
  BY <1>1, ShownIs DEF Defect, ManagedDefect

LEMMA WorstIsReady ==
  ASSUME NEW S \in SUBSET Status
  PROVE  /\ Worst(S) \in Status
         /\ Worst(S) = "READY" <=> S \subseteq {"READY"}
BY DEF Worst, Status

\* Each layer is one of the four statuses.
LEMMA LayerTypes ==
  ASSUME NEW W, NEW ev \in Evidence(W), NEW p
  PROVE  /\ {ev.control, ev.harness, ev.forge, ev.scheduler, ev.artifacts} \subseteq Status
         /\ FabricLayer(ev) \in Status
         /\ WorkersLayer(ev) \in Status
         /\ ModelsLayer(ev) \in Status
         /\ RoutingLayer(ev) \in Status
         /\ ResidencyLayer(ev) \in Status
         /\ StudiesLayer(ev, p) \in Status
<1>1. {ev.control, ev.harness, ev.forge, ev.scheduler, ev.artifacts} \subseteq Status
  BY DEF Evidence
<1>2. FabricLayer(ev) \in Status
  BY DEF FabricLayer, Status
<1>3. WorkersLayer(ev) \in Status /\ ModelsLayer(ev) \in Status
  BY DEF WorkersLayer, ModelsLayer, Status
<1>4. RoutingLayer(ev) \in Status
  <2>1. ev.routing \in {"none", "silent fallback", "unsaid", "yes", "no"}
    BY DEF Evidence
  <2>2. QED
    BY <2>1 DEF RoutingLayer, Status
<1>5. ResidencyLayer(ev) \in Status
  <2>1. ev.residency \in {"none", "supported", "unsupported", "no keep-alive"}
    BY DEF Evidence
  <2>2. QED
    BY <2>1 DEF ResidencyLayer, Status
<1>6. StudiesLayer(ev, p) \in Status
  <2>1. ev.studies \in Studies
    BY DEF Evidence
  <2>2. QED
    BY <2>1 DEF StudiesLayer, Status, Studies
<1>7. QED
  BY <1>1, <1>2, <1>3, <1>4, <1>5, <1>6

BaseReady(ev) ==
  /\ ev.harness = "READY"
  /\ FabricLayer(ev) = "READY"
  /\ WorkersLayer(ev) = "READY"
  /\ ModelsLayer(ev) = "READY"
  /\ ev.commons \in {"reads", "publishes"}
  /\ ev.artifacts = "READY"

\* The verdict READY, layer by layer.
LEMMA JudgementIsReady ==
  ASSUME NEW ev, IsEvidence(ev), NEW p \in Profile
  PROVE  /\ Judgement(ev, p) \in Status
         /\ Judgement(ev, p) = "READY" <=>
              /\ Complete(ev)
              /\ BaseReady(ev)
              /\ p \in {"code-analysis", "RAVEL"} => ev.forge = "READY"
              /\ p \in {"multi-agent", "sustained-experiment", "MNEL"} => RoutingLayer(ev) = "READY"
              /\ p = "sustained-experiment" => ResidencyLayer(ev) = "READY"
              /\ p = "MNEL" => ev.commons = "publishes"
              /\ p \in {"MNEL", "RAVEL"} => StudiesLayer(ev, p) = "READY"
<1> DEFINE L == Layers(ev, p)
           S == {L[l] : l \in Required(p)}
<1>1. PICK W \in SUBSET Worker : ev \in Evidence(W)
  BY DEF IsEvidence
<1>2. ev.commons \in {"none", "closed", "reads", "publishes"}
  BY <1>1 DEF Evidence
<1>3. /\ L["harness"] = ev.harness
      /\ L["fabric_controller"] = FabricLayer(ev)
      /\ L["fleet"] = WorkersLayer(ev)
      /\ L["workers"] = WorkersLayer(ev)
      /\ L["models"] = ModelsLayer(ev)
      /\ L["routing"] = RoutingLayer(ev)
      /\ L["residency"] = ResidencyLayer(ev)
      /\ L["forge"] = ev.forge
      /\ L["reference_studies"] = StudiesLayer(ev, p)
      /\ L["artifact_write"] = ev.artifacts
  BY DEF Layers
<1>4. /\ L["commons_consumer"] \in Status
      /\ L["commons_consumer"] = "READY" <=> ev.commons \in {"reads", "publishes"}
      /\ L["commons_operator"] \in Status
      /\ L["commons_operator"] = "READY" <=> ev.commons = "publishes"
  BY <1>2 DEF Layers, Status
<1> HIDE DEF L
<1>5. \A l \in Required(p) : L[l] \in Status
  <2>1. Required(p) \subseteq Base \cup {"forge", "routing", "residency", "commons_operator", "reference_studies"}
    BY DEF Required, Profile
  <2>2. QED
    BY <2>1, <1>1, <1>3, <1>4, LayerTypes DEF Base
<1>6. S \in SUBSET Status
  BY <1>5
<1>7. S \subseteq {"READY"} <=> \A l \in Required(p) : L[l] = "READY"
  OBVIOUS
<1>8. Judgement(ev, p) = IF Worst(S) = "READY" /\ ~Complete(ev) THEN "DEGRADED" ELSE Worst(S)
  BY DEF Judgement, L
<1>9. Judgement(ev, p) \in Status
  BY <1>6, <1>8, WorstIsReady DEF Status
<1>10. Judgement(ev, p) = "READY" <=> Complete(ev) /\ \A l \in Required(p) : L[l] = "READY"
  BY <1>6, <1>7, <1>8, WorstIsReady
<1>11. (\A l \in Base : L[l] = "READY") <=> BaseReady(ev)
  BY <1>3, <1>4 DEF Base, BaseReady
<1> HIDE DEF S
<1>12. Required(p) = Base \cup (IF p \in {"code-analysis", "RAVEL"} THEN {"forge"} ELSE {})
                          \cup (IF p \in {"multi-agent", "sustained-experiment", "MNEL"} THEN {"routing"} ELSE {})
                          \cup (IF p = "sustained-experiment" THEN {"residency"} ELSE {})
                          \cup (IF p = "MNEL" THEN {"commons_operator"} ELSE {})
                          \cup (IF p \in {"MNEL", "RAVEL"} THEN {"reference_studies"} ELSE {})
  BY DEF Required, Profile
<1>13. (\A l \in Required(p) : L[l] = "READY") <=>
         /\ \A l \in Base : L[l] = "READY"
         /\ p \in {"code-analysis", "RAVEL"} => L["forge"] = "READY"
         /\ p \in {"multi-agent", "sustained-experiment", "MNEL"} => L["routing"] = "READY"
         /\ p = "sustained-experiment" => L["residency"] = "READY"
         /\ p = "MNEL" => L["commons_operator"] = "READY"
         /\ p \in {"MNEL", "RAVEL"} => L["reference_studies"] = "READY"
  BY <1>12
<1>14. QED
  BY <1>3, <1>4, <1>9, <1>10, <1>11, <1>13

\* The profiles nest, for any evidence at all.
LEMMA Nest ==
  ASSUME IsEvidence(evidence)
  PROVE  ProfilesNest
<1>1. PICK W \in SUBSET Worker : evidence \in Evidence(W)
  BY DEF IsEvidence
<1>2. /\ evidence.commons \in {"none", "closed", "reads", "publishes"}
      /\ evidence.studies \in Studies
  BY <1>1 DEF Evidence
<1> DEFINE layer == Layers(evidence, "base-inference")
<1>3. /\ layer.forge = evidence.forge
      /\ layer.routing = RoutingLayer(evidence)
      /\ layer.residency = ResidencyLayer(evidence)
      /\ layer.commons_operator = "READY" <=> evidence.commons = "publishes"
      /\ layer.reference_studies = StudiesLayer(evidence, "base-inference")
  BY <1>2 DEF Layers
<1>4. /\ StudiesLayer(evidence, "MNEL") = StudiesLayer(evidence, "base-inference")
      /\ StudiesLayer(evidence, "RAVEL") = "READY" <=>
           StudiesLayer(evidence, "base-inference") = "READY" /\ evidence.ravel # "limited"
  BY <1>2 DEF StudiesLayer, Studies
<1>5. Profile = {"base-inference", "code-analysis", "multi-agent", "sustained-experiment", "MNEL", "RAVEL"}
  BY DEF Profile
<1> HIDE DEF layer
<1>6. Judgement(evidence, "base-inference") = "READY" <=> Complete(evidence) /\ BaseReady(evidence)
  BY <1>5, JudgementIsReady
<1>7. Judgement(evidence, "code-analysis") = "READY" <=>
        Complete(evidence) /\ BaseReady(evidence) /\ evidence.forge = "READY"
  BY <1>5, JudgementIsReady
<1>8. Judgement(evidence, "multi-agent") = "READY" <=>
        Complete(evidence) /\ BaseReady(evidence) /\ RoutingLayer(evidence) = "READY"
  BY <1>5, JudgementIsReady
<1>9. Judgement(evidence, "sustained-experiment") = "READY" <=>
        /\ Complete(evidence) /\ BaseReady(evidence) /\ RoutingLayer(evidence) = "READY"
        /\ ResidencyLayer(evidence) = "READY"
  BY <1>5, JudgementIsReady
<1>10. Judgement(evidence, "MNEL") = "READY" <=>
        /\ Complete(evidence) /\ BaseReady(evidence) /\ RoutingLayer(evidence) = "READY"
        /\ evidence.commons = "publishes" /\ StudiesLayer(evidence, "MNEL") = "READY"
  BY <1>5, JudgementIsReady
<1>11. Judgement(evidence, "RAVEL") = "READY" <=>
        /\ Complete(evidence) /\ BaseReady(evidence) /\ evidence.forge = "READY"
        /\ StudiesLayer(evidence, "RAVEL") = "READY"
  BY <1>5, JudgementIsReady
<1>12. QED
  BY <1>3, <1>4, <1>6, <1>7, <1>8, <1>9, <1>10, <1>11 DEF ProfilesNest, layer

------------------------------------------------------------------------------

LEMMA InitReadinessInv == ReadinessInit => ReadinessInv
<1> SUFFICES ASSUME ReadinessInit PROVE ReadinessInv
  OBVIOUS
<1> USE ReadinessAssumption
<1>1. changes \in 0..MaxChanges /\ session = "new" /\ profile = "none" /\ verdict = "none"
  BY DEF ReadinessInit
<1>2. absent \in [Worker -> SUBSET Defect]
  BY DEF ReadinessInit
<1>3. CASE /\ site \in Sites /\ defects \in Fleets /\ phase = "start" /\ evidence = NoEvidence
  <2>1. NoEvidence.workers \in [{} -> WorkerEvidence]
    BY DEF NoEvidence
  <2>2. NoEvidence \in Evidence({})
    BY <2>1 DEF NoEvidence, Evidence, Version, Status, Component, Studies
  <2>3. IsEvidence(evidence)
    BY <1>3, <2>2 DEF IsEvidence
  <2>4. ReadinessTypeOK
    BY <1>1, <1>2, <1>3, <2>3 DEF ReadinessTypeOK
  <2>5. RestOK
    BY <1>3 DEF RestOK, NoEvidence, Asked
  <2>6. HonestOK /\ QuietOK /\ JudgedOK
    BY <1>1, <1>3 DEF HonestOK, QuietOK, JudgedOK, Heard
  <2>8. SuppliedOK
    BY <1>3, ReadinessAssumption DEF SuppliedOK, Live, Site
  <2>7. QED
    BY <2>4, <2>5, <2>6, <2>8 DEF ReadinessInv
<1>4. CASE /\ site = NoSite /\ defects = [w \in Worker |-> {}] /\ phase = "asked" /\ evidence \in Supplied
  <2>1. ~Live
    BY <1>4 DEF Live, NoSite
  <2>2. ReadinessTypeOK
    BY <1>1, <1>2, <1>4 DEF ReadinessTypeOK
  <2>3. QED
    BY <1>1, <1>4, <2>1, <2>2 DEF ReadinessInv, SuppliedOK, Asked, HonestOK, QuietOK, RestOK, JudgedOK
<1>5. QED
  BY <1>3, <1>4 DEF ReadinessInit

\* What every call but the judgement leaves: a moment of the fleet is over.
LEMMA Reaches ==
  ASSUME ReadinessTypeOK, NEW to, NEW now \in [Worker -> SUBSET Defect], Reach(to, now)
  PROVE  /\ phase' = to /\ defects' = now
         /\ defects' \in [Worker -> SUBSET Defect]
         /\ absent' \in [Worker -> SUBSET Defect]
         /\ \A w \in Worker : absent[w] \subseteq absent'[w] /\ Defect \ now[w] \subseteq absent'[w]
<1>1. absent' = [w \in Worker |-> absent[w] \cup (Defect \ now[w])]
  BY DEF Reach
<1>2. QED
  BY <1>1 DEF Reach, ReadinessTypeOK

\* A row that is not touched stays honest, and stays true of a fleet that keeps still.
LEMMA RowStays ==
  ASSUME NEW w, site' = site, evidence'.workers[w] = evidence.workers[w]
  PROVE  /\ HonestRow(w) /\ absent[w] \subseteq absent'[w] => HonestRow(w)'
         /\ QuietRow(w) /\ defects'[w] = defects[w] => QuietRow(w)'
<1>1. \A d : Tells(w, d)' <=> Tells(w, d)
  BY DEF Tells
<1>2. ASSUME HonestRow(w), absent[w] \subseteq absent'[w]
      PROVE  HonestRow(w)'
  BY <1>1, <1>2 DEF HonestRow
<1>3. ASSUME QuietRow(w), defects'[w] = defects[w]
      PROVE  QuietRow(w)'
  BY <1>1, <1>3 DEF QuietRow
<1>4. QED
  BY <1>2, <1>3

\* A call that leaves the workers alone leaves what is known of them.
LEMMA RowsStay ==
  ASSUME ReadinessInv, UNCHANGED <<site, changes>>, Heard,
         evidence'.workers = evidence.workers, evidence'.connected = evidence.connected,
         evidence'.available = evidence.available, evidence'.routing = evidence.routing,
         \A w \in Worker : absent[w] \subseteq absent'[w], defects' = defects
  PROVE  HonestOK' /\ QuietOK'
<1>1. DOMAIN evidence.workers \subseteq Worker
  BY DEF ReadinessInv, ReadinessTypeOK, IsEvidence, Evidence
<1>2. HonestOK'
  <2> SUFFICES ASSUME Live, NEW w \in DOMAIN evidence.workers PROVE HonestRow(w)'
    BY DEF HonestOK, Live
  <2>1. HonestRow(w)
    BY DEF ReadinessInv, HonestOK
  <2>2. QED
    BY <1>1, <2>1, RowStays
<1>3. QuietOK'
  <2> SUFFICES ASSUME Live, changes = 0 PROVE QuietOK'
    BY DEF QuietOK, Live
  <2>1. QuietOK!2
    BY DEF ReadinessInv, QuietOK
  <2>2. \A w \in DOMAIN evidence.workers : QuietRow(w)'
    BY <2>1, RowStays
  <2>3. QED
    BY <2>1, <2>2 DEF QuietOK
<1>4. QED
  BY <1>2, <1>3

LEMMA OpenFabricKeeps == ReadinessInv /\ OpenFabric => ReadinessInv'
<1> SUFFICES ASSUME ReadinessInv, OpenFabric PROVE ReadinessInv'
  OBVIOUS
<1> DEFINE now == IF site.mode = "embedded" /\ site.refresh /\ session' = "available"
                    THEN [w \in Worker |-> IF "down" \in defects[w] THEN defects[w] ELSE defects[w] \ {"stale"}]
                    ELSE defects
<1>1. ReadinessTypeOK /\ RestOK /\ JudgedOK /\ phase = "start"
  BY DEF ReadinessInv, OpenFabric
<1>2. now \in [Worker -> SUBSET Defect]
  BY <1>1 DEF ReadinessTypeOK
<1>3. Reach("opened", now)
  BY DEF OpenFabric
<1> HIDE DEF now
<1>4. UNCHANGED <<site, changes, evidence, profile, verdict>>
  BY DEF OpenFabric
<1>5. session' \in {"disabled", "available", "unavailable"}
  BY DEF OpenFabric
<1>6. phase' = "opened"
  BY <1>1, <1>2, <1>3, Reaches
<1>7. ReadinessTypeOK'
  BY <1>1, <1>2, <1>3, <1>4, <1>5, <1>6, Reaches DEF ReadinessTypeOK, IsEvidence
<1>8. HonestOK' /\ QuietOK'
  BY <1>6 DEF HonestOK, QuietOK, Heard
<1>9. RestOK'
  BY <1>1, <1>4, <1>6 DEF RestOK, Live, Asked, Unidentified
<1>10. JudgedOK'
  BY <1>1, <1>4 DEF JudgedOK
<1>11. SuppliedOK'
  BY <1>1, <1>4, <1>6 DEF ReadinessInv, SuppliedOK, Asked, Live
<1>12. QED
  BY <1>7, <1>8, <1>9, <1>10, <1>11 DEF ReadinessInv


\* The rows of the list of workers, when the fleet is as it is now.
LEMMA RowsAreHonest ==
  ASSUME site \in Site, defects \in [Worker -> SUBSET Defect], NEW w \in Worker, site' = site,
         defects' = defects, evidence'.workers[w] = Row(w), Defect \ defects[w] \subseteq absent'[w]
  PROVE  HonestRow(w)' /\ QuietRow(w)'
<1> DEFINE e == evidence'.workers[w]
<1>1. /\ e.found = defects[w] \cap (RowDefect \cup ShownBy(site.carries))
      /\ e.lacking = Field \ site.carries
      /\ e.decision = IF "decision" \notin site.carries THEN "none"
                      ELSE IF defects[w] \cap ManagedDefect = {} THEN "ready" ELSE "not ready"
      /\ e.models = IF "models" \in site.carries THEN site.models[w] ELSE {}
  <2>1. e = Row(w)
    OBVIOUS
  <2> HIDE DEF e
  <2>2. e.found = Row(w).found /\ e.lacking = Row(w).lacking
        /\ e.decision = Row(w).decision /\ e.models = Row(w).models
    BY <2>1
  <2>3. QED
    BY <2>2 DEF Row
<1> HIDE DEF e
<1>2. site.carries \subseteq Field \cup Extra /\ defects[w] \subseteq Defect
  BY DEF Site
<1>3. \A d : d \in e.found <=>
                d \in defects[w] /\ (d \in RowDefect \/ \E f \in site.carries : d \in Shown(f))
  BY <1>1, ShownByIs
<1>4. \A d : Tells(w, d)' => d \in RowDefect \/ \E f \in site.carries : d \in Shown(f)
  BY <1>1 DEF Tells, e
<1>5. ManagedDefect \subseteq Defect
  BY DEF Defect
<1>6. HonestRow(w)'
  <2>1. e.decision = "ready" => ManagedDefect \subseteq absent'[w]
    BY <1>1, <1>5
  <2>2. /\ e.decision = "none" <=> "decision" \notin site.carries
        /\ "service" \notin e.lacking <=> "service" \in site.carries
    BY <1>1 DEF Field
  <2>3. \A d \in Defect : Tells(w, d)' => d \in e.found \cup absent'[w]
    BY <1>3, <1>4
  <2>4. QED
    BY <1>1, <2>1, <2>2, <2>3 DEF HonestRow, e
<1>7. QuietRow(w)'
  <2>1. \A d \in defects[w] : Tells(w, d)' => d \in e.found
    BY <1>3, <1>4
  <2>2. e.found \subseteq defects[w] \ {"rebuilt", "redesired"}
    BY <1>3, ShownIs DEF RowDefect
  <2>3. "outdated" \in e.found => "service" \in site.carries
    BY <1>3, ShownIs DEF RowDefect
  <2>4. /\ e.decision = "ready" => defects[w] \cap ManagedDefect = {}
        /\ e.decision = "not ready" => defects[w] \cap ManagedDefect # {}
    BY <1>1
  <2>5. QED
    BY <2>1, <2>2, <2>3, <2>4 DEF QuietRow, e
<1>8. QED
  BY <1>6, <1>7

LEMMA RowTyped ==
  ASSUME site \in Site, defects \in [Worker -> SUBSET Defect], NEW w \in Worker
  PROVE  Row(w) \in WorkerEvidence
<1>1. defects[w] \subseteq Defect /\ site.models[w] \subseteq Model
  BY DEF Site
<1>2. QED
  BY <1>1 DEF Row, WorkerEvidence

LEMMA ObserveKeeps == ReadinessInv /\ Observe => ReadinessInv'
<1> SUFFICES ASSUME ReadinessInv, Observe PROVE ReadinessInv'
  OBVIOUS
<1>1. ReadinessTypeOK /\ RestOK /\ JudgedOK /\ phase = "opened"
  BY DEF ReadinessInv, Observe
<1>2. UNCHANGED <<site, changes, session, profile, verdict>> /\ Reach("observed", defects)
  BY DEF Observe
<1>3. /\ phase' = "observed" /\ defects' = defects /\ absent' \in [Worker -> SUBSET Defect]
      /\ \A w \in Worker : Defect \ defects[w] \subseteq absent'[w]
  BY <1>1, <1>2, Reaches DEF ReadinessTypeOK
<1>4. PICK answered \in BOOLEAN :
        evidence' = [evidence EXCEPT
         !.workers = IF answered THEN [w \in Worker |-> Row(w)] ELSE [w \in {} |-> Row(w)],
         !.available = answered,
         !.connected = IF answered THEN "yes" ELSE "no",
         !.routing = IF answered /\ \E w \in Worker : "down" \notin defects[w] THEN "yes" ELSE "no"]
  BY DEF Observe
<1>5. PICK W \in SUBSET Worker : evidence \in Evidence(W)
  BY <1>1 DEF ReadinessTypeOK, IsEvidence
<1> DEFINE A == IF answered THEN Worker ELSE {}
<1>6. /\ evidence'.workers = [w \in A |-> Row(w)]
      /\ evidence'.available = answered
      /\ evidence'.connected = IF answered THEN "yes" ELSE "no"
      /\ evidence'.routing = IF answered /\ \E w \in Worker : "down" \notin defects[w] THEN "yes" ELSE "no"
      /\ evidence'.harness = evidence.harness /\ evidence'.forge = evidence.forge
  BY <1>4, <1>5 DEF Evidence
<1>7. A \in SUBSET Worker
  OBVIOUS
<1>8. Live /\ site \in Site
  <2>1. Live
    BY <1>1 DEF ReadinessInv, SuppliedOK, Asked
  <2>2. QED
    BY <1>1, <2>1, ReadinessAssumption DEF ReadinessTypeOK, Live, NoSite
<1> HIDE DEF A
<1>9. IsEvidence(evidence')
  <2>1. evidence'.workers \in [A -> WorkerEvidence]
    BY <1>1, <1>6, <1>7, <1>8, RowTyped DEF ReadinessTypeOK
  <2>2. evidence'.connected \in {"yes", "no", "unsaid"} /\ evidence'.available \in BOOLEAN
        /\ evidence'.routing \in {"none", "silent fallback", "unsaid", "yes", "no"}
    BY <1>6
  <2>3. evidence' = [evidence EXCEPT !.workers = evidence'.workers, !.available = evidence'.available,
                                     !.connected = evidence'.connected, !.routing = evidence'.routing]
    BY <1>4, <1>5 DEF Evidence
  <2>4. evidence' \in Evidence(A)
    BY <1>5, <2>1, <2>2, <2>3 DEF Evidence
  <2>5. QED
    BY <1>7, <2>4 DEF IsEvidence
<1>10. \A w \in A : HonestRow(w)' /\ QuietRow(w)'
  BY <1>1, <1>2, <1>3, <1>6, <1>7, <1>8, RowsAreHonest DEF ReadinessTypeOK
<1>11. DOMAIN evidence'.workers = A
  BY <1>6
<1>12. HonestOK'
  BY <1>10, <1>11 DEF HonestOK
<1>13. QuietOK'
  BY <1>3, <1>6, <1>10, <1>11 DEF QuietOK, A
<1>14. RestOK'
  BY <1>1, <1>2, <1>3, <1>6 DEF RestOK, Live, Asked, Unidentified
<1>15. JudgedOK' /\ SuppliedOK'
  BY <1>1, <1>2, <1>8 DEF JudgedOK, SuppliedOK, Live
<1>16. ReadinessTypeOK'
  BY <1>1, <1>2, <1>3, <1>9 DEF ReadinessTypeOK, IsEvidence
<1>17. QED
  BY <1>12, <1>13, <1>14, <1>15, <1>16 DEF ReadinessInv


LEMMA OpenCommonsKeeps == ReadinessInv /\ OpenCommons => ReadinessInv'
<1> SUFFICES ASSUME ReadinessInv, OpenCommons PROVE ReadinessInv'
  OBVIOUS
<1>1. ReadinessTypeOK /\ SuppliedOK /\ RestOK /\ JudgedOK /\ phase = "observed"
  BY DEF ReadinessInv, OpenCommons
<1>2. UNCHANGED <<site, changes, session, profile, verdict>> /\ Reach("commons", defects)
  BY DEF OpenCommons
<1>3. /\ phase' = "commons" /\ defects' = defects /\ absent' \in [Worker -> SUBSET Defect]
      /\ \A w \in Worker : absent[w] \subseteq absent'[w]
  BY <1>1, <1>2, Reaches DEF ReadinessTypeOK
<1>4. Live /\ site \in Site
  BY <1>1, ReadinessAssumption DEF SuppliedOK, Asked, ReadinessTypeOK, Live, NoSite
<1>5. PICK opened \in {site.commons, "closed"} : evidence' = [evidence EXCEPT !.commons = opened]
  BY DEF OpenCommons
<1>6. opened \in {"none", "closed", "reads", "publishes"}
  BY <1>4 DEF Site
<1>7. PICK W \in SUBSET Worker : evidence \in Evidence(W)
  BY <1>1 DEF ReadinessTypeOK, IsEvidence
<1>8. /\ evidence' \in Evidence(W)
      /\ evidence'.workers = evidence.workers /\ evidence'.connected = evidence.connected
      /\ evidence'.available = evidence.available /\ evidence'.routing = evidence.routing
      /\ evidence'.harness = evidence.harness /\ evidence'.forge = evidence.forge
  BY <1>5, <1>6, <1>7 DEF Evidence
<1>9. HonestOK' /\ QuietOK'
  BY <1>1, <1>2, <1>3, <1>8, RowsStay DEF Heard
<1>10. RestOK' /\ SuppliedOK' /\ JudgedOK'
  BY <1>1, <1>2, <1>3, <1>4, <1>8 DEF RestOK, SuppliedOK, JudgedOK, Live, Asked, Unidentified
<1>11. ReadinessTypeOK'
  BY <1>1, <1>2, <1>3, <1>7, <1>8 DEF ReadinessTypeOK, IsEvidence
<1>12. QED
  BY <1>9, <1>10, <1>11 DEF ReadinessInv

LEMMA ProbeArtifactsKeeps == ReadinessInv /\ ProbeArtifacts => ReadinessInv'
<1> SUFFICES ASSUME ReadinessInv, ProbeArtifacts PROVE ReadinessInv'
  OBVIOUS
<1>1. ReadinessTypeOK /\ SuppliedOK /\ RestOK /\ JudgedOK /\ phase = "commons"
  BY DEF ReadinessInv, ProbeArtifacts
<1>2. UNCHANGED <<site, changes, session, profile, verdict>> /\ Reach("probed", defects)
  BY DEF ProbeArtifacts
<1>3. /\ phase' = "probed" /\ defects' = defects /\ absent' \in [Worker -> SUBSET Defect]
      /\ \A w \in Worker : absent[w] \subseteq absent'[w]
  BY <1>1, <1>2, Reaches DEF ReadinessTypeOK
<1>4. Live
  BY <1>1 DEF SuppliedOK, Asked
<1> DEFINE found == IF site.writable THEN "READY" ELSE "BLOCKED"
<1>5. evidence' = [evidence EXCEPT !.artifacts = found]
  BY DEF ProbeArtifacts
<1>6. found \in Status
  BY DEF Status
<1>7. PICK W \in SUBSET Worker : evidence \in Evidence(W)
  BY <1>1 DEF ReadinessTypeOK, IsEvidence
<1> HIDE DEF found
<1>8. /\ evidence' \in Evidence(W)
      /\ evidence'.workers = evidence.workers /\ evidence'.connected = evidence.connected
      /\ evidence'.available = evidence.available /\ evidence'.routing = evidence.routing
      /\ evidence'.harness = evidence.harness /\ evidence'.forge = evidence.forge
      /\ evidence'.artifacts = found
  BY <1>5, <1>6, <1>7 DEF Evidence
<1>9. HonestOK' /\ QuietOK'
  BY <1>1, <1>2, <1>3, <1>8, RowsStay DEF Heard
<1>10. RestOK' /\ SuppliedOK' /\ JudgedOK'
  BY <1>1, <1>2, <1>3, <1>4, <1>8 DEF RestOK, SuppliedOK, JudgedOK, Live, Asked, found, Unidentified
<1>11. ReadinessTypeOK'
  BY <1>1, <1>2, <1>3, <1>7, <1>8 DEF ReadinessTypeOK, IsEvidence
<1>12. QED
  BY <1>9, <1>10, <1>11 DEF ReadinessInv

\* What is kept of a row stays honest, and what management tells is told of now.
LEMMA EnrichedIsHonest ==
  ASSUME site \in Site, defects \in [Worker -> SUBSET Defect], NEW w \in Worker, site' = site,
         defects' = defects, evidence.workers[w] \in WorkerEvidence,
         evidence'.workers[w] = Enriched(w, evidence.workers[w]),
         absent[w] \cup (Defect \ defects[w]) \subseteq absent'[w]
  PROVE  /\ Enriched(w, evidence.workers[w]) \in WorkerEvidence
         /\ HonestRow(w) => HonestRow(w)'
         /\ QuietRow(w) => QuietRow(w)'
<1> DEFINE r == evidence.workers[w]
           e == evidence'.workers[w]
           kept == Kept(r)
           told == (site.tells \ {"service"}) \ kept
<1>1. r \in WorkerEvidence /\ e = [r EXCEPT
        !.found = (@ \cap (RowDefect \cup ShownBy(kept))) \cup (defects[w] \cap ShownBy(told)),
        !.lacking = Field \ (kept \cup told)]
  BY DEF Enriched
<1>2. /\ kept \subseteq Field \ r.lacking /\ told \subseteq Field \ {"service"}
      /\ "service" \in kept <=> "service" \notin r.lacking
  BY DEF Kept, Field, Site
<1>3. Enriched(w, r) = e
  OBVIOUS
<1> HIDE DEF r, e, kept, told
<1>4. /\ e.found = (r.found \cap (RowDefect \cup ShownBy(kept))) \cup (defects[w] \cap ShownBy(told))
      /\ e.lacking = Field \ (kept \cup told)
      /\ e.decision = r.decision /\ e.models = r.models /\ e \in WorkerEvidence
  <2>1. defects[w] \subseteq Defect /\ r.found \subseteq Defect
    BY <1>1 DEF WorkerEvidence
  <2>2. QED
    BY <1>1, <2>1 DEF WorkerEvidence
<1>5. \A d : Tells(w, d)' => d \in RowDefect \/ d \in ShownBy(kept) \/ d \in ShownBy(told)
  BY <1>2, <1>4, ShownByIs DEF Tells, e
<1>6. \A d : d \in RowDefect \/ d \in ShownBy(kept) => Tells(w, d)
  BY <1>2, ShownByIs DEF Tells, r
<1>7. ASSUME HonestRow(w) PROVE HonestRow(w)'
  <2>1. /\ r.decision = "none" <=> "decision" \notin site.carries
        /\ r.decision = "ready" => ManagedDefect \subseteq absent[w]
        /\ r.models = IF "models" \in site.carries THEN site.models[w] ELSE {}
        /\ "service" \notin r.lacking <=> "service" \in site.carries
        /\ \A d \in Defect : Tells(w, d) => d \in r.found \cup absent[w]
    BY <1>7 DEF HonestRow, r
  <2>2. \A d \in Defect : Tells(w, d)' => d \in e.found \cup absent'[w]
    BY <1>4, <1>5, <1>6, <2>1
  <2>3. "service" \notin e.lacking <=> "service" \in site.carries
    BY <1>2, <1>4, <2>1 DEF Field
  <2>4. QED
    BY <1>4, <2>1, <2>2, <2>3 DEF HonestRow, e
<1>8. ASSUME QuietRow(w) PROVE QuietRow(w)'
  <2>1. /\ \A d \in defects[w] : Tells(w, d) => d \in r.found
        /\ r.found \subseteq defects[w] \ {"rebuilt", "redesired"}
        /\ "outdated" \in r.found => "service" \in site.carries
        /\ r.decision = "ready" => defects[w] \cap ManagedDefect = {}
        /\ r.decision = "not ready" => defects[w] \cap ManagedDefect # {}
    BY <1>8 DEF QuietRow, r
  <2>2. \A d \in defects[w] : Tells(w, d)' => d \in e.found
    BY <1>4, <1>5, <1>6, <2>1
  <2>3. \A d \in ShownBy(told) : d \notin {"rebuilt", "redesired", "outdated"}
    BY <1>2, ShownByIs, ShownIs
  <2>4. /\ e.found \subseteq defects[w] \ {"rebuilt", "redesired"}
        /\ "outdated" \in e.found => "service" \in site.carries
    BY <1>4, <2>1, <2>3
  <2>5. QED
    BY <1>4, <2>1, <2>2, <2>4 DEF QuietRow, e
<1>9. QED
  BY <1>3, <1>4, <1>7, <1>8 DEF e, r


LEMMA InspectFleetKeeps == ReadinessInv /\ InspectFleet => ReadinessInv'
<1> SUFFICES ASSUME ReadinessInv, InspectFleet PROVE ReadinessInv'
  OBVIOUS
<1>1. ReadinessTypeOK /\ SuppliedOK /\ RestOK /\ JudgedOK /\ phase = "probed"
  BY DEF ReadinessInv, InspectFleet
<1>2. UNCHANGED <<site, changes, session, profile, verdict>> /\ Reach("inspected", defects)
  BY DEF InspectFleet
<1>3. /\ phase' = "inspected" /\ defects' = defects /\ absent' \in [Worker -> SUBSET Defect]
      /\ \A w \in Worker : absent[w] \cup (Defect \ defects[w]) \subseteq absent'[w]
  BY <1>1, <1>2, Reaches DEF ReadinessTypeOK
<1>4. Live /\ site \in Site
  BY <1>1, ReadinessAssumption DEF SuppliedOK, Asked, ReadinessTypeOK, Live, NoSite
<1>5. PICK W \in SUBSET Worker : evidence \in Evidence(W)
  BY <1>1 DEF ReadinessTypeOK, IsEvidence
<1>6. evidence.workers \in [W -> WorkerEvidence] /\ DOMAIN evidence.workers = W
  BY <1>5 DEF Evidence
<1>7. PICK named \in SUBSET W :
        evidence' = [evidence EXCEPT
          !.workers = [w \in W |-> IF w \in named THEN Enriched(w, evidence.workers[w])
                                   ELSE evidence.workers[w]]]
  BY <1>6 DEF InspectFleet
<1>8. HonestOK' /\ QuietOK' /\ RestOK' /\ IsEvidence(evidence')
  <2> DEFINE rows == [w \in W |-> IF w \in named THEN Enriched(w, evidence.workers[w])
                                  ELSE evidence.workers[w]]
  <2>1. evidence' = [evidence EXCEPT !.workers = rows]
    BY <1>7
  <2> HIDE DEF rows
  <2>2. /\ evidence'.workers = rows /\ evidence'.connected = evidence.connected
        /\ evidence'.available = evidence.available /\ evidence'.routing = evidence.routing
        /\ evidence'.harness = evidence.harness /\ evidence'.forge = evidence.forge
        /\ evidence'.artifacts = evidence.artifacts
    BY <1>5, <2>1 DEF Evidence
  <2>3. ASSUME NEW w \in W
        PROVE  /\ rows[w] \in WorkerEvidence
               /\ HonestRow(w) => HonestRow(w)'
               /\ QuietRow(w) => QuietRow(w)'
    <3>1. defects \in [Worker -> SUBSET Defect] /\ w \in Worker
          /\ evidence.workers[w] \in WorkerEvidence
      BY <1>1, <1>6 DEF ReadinessTypeOK
    <3>2. CASE w \in named
      <4>1. rows[w] = Enriched(w, evidence.workers[w])
        BY <3>2 DEF rows
      <4>2. QED
        BY <1>2, <1>3, <1>4, <2>2, <3>1, <4>1, EnrichedIsHonest
    <3>3. CASE w \notin named
      <4>1. rows[w] = evidence.workers[w]
        BY <3>3 DEF rows
      <4>2. evidence'.workers[w] = evidence.workers[w] /\ defects'[w] = defects[w]
            /\ absent[w] \subseteq absent'[w]
        BY <1>3, <2>2, <3>1, <4>1
      <4>3. (HonestRow(w) => HonestRow(w)') /\ (QuietRow(w) => QuietRow(w)')
        BY <1>2, <4>2, RowStays
      <4>4. QED
        BY <3>1, <4>1, <4>3
    <3>4. QED
      BY <3>2, <3>3
  <2>4. rows \in [W -> WorkerEvidence] /\ DOMAIN rows = W
    BY <2>3 DEF rows
  <2>5. IsEvidence(evidence')
    <3>1. evidence' \in Evidence(W)
      BY <1>5, <2>1, <2>4 DEF Evidence
    <3>2. QED
      BY <3>1 DEF IsEvidence
  <2>6. HonestOK'
    <3>1. \A w \in W : HonestRow(w)
      BY <1>1, <1>4, <1>6 DEF ReadinessInv, HonestOK, Heard
    <3>2. \A w \in W : HonestRow(w)'
      BY <2>3, <3>1
    <3>3. QED
      BY <2>2, <2>4, <3>2 DEF HonestOK
  <2>7. QuietOK'
    <3> SUFFICES ASSUME changes = 0 PROVE QuietOK'
      BY <1>2 DEF QuietOK
    <3>1. QuietOK!2
      BY <1>1, <1>4 DEF ReadinessInv, QuietOK, Heard
    <3>2. \A w \in W : QuietRow(w)'
      BY <1>6, <2>3, <3>1
    <3>3. QED
      BY <1>3, <1>6, <2>2, <2>4, <3>1, <3>2 DEF QuietOK
  <2>8. RestOK'
    BY <1>1, <1>2, <1>3, <1>4, <2>2 DEF RestOK, Live, Asked, Unidentified
  <2>9. QED
    BY <2>5, <2>6, <2>7, <2>8
<1>10. ReadinessTypeOK' /\ SuppliedOK' /\ JudgedOK'
  BY <1>1, <1>2, <1>3, <1>4, <1>8 DEF ReadinessTypeOK, IsEvidence, SuppliedOK, JudgedOK, Live
<1>11. QED
  BY <1>8, <1>10 DEF ReadinessInv

LEMMA AskControllerKeeps == ReadinessInv /\ AskController => ReadinessInv'
<1> SUFFICES ASSUME ReadinessInv, AskController PROVE ReadinessInv'
  OBVIOUS
<1>1. ReadinessTypeOK /\ SuppliedOK /\ RestOK /\ JudgedOK /\ phase = "inspected"
  BY DEF ReadinessInv, AskController
<1>2. UNCHANGED <<site, changes, session, profile, verdict>> /\ Reach("asked", defects)
  BY DEF AskController
<1>3. /\ phase' = "asked" /\ defects' = defects /\ absent' \in [Worker -> SUBSET Defect]
      /\ \A w \in Worker : absent[w] \subseteq absent'[w]
  BY <1>1, <1>2, Reaches DEF ReadinessTypeOK
<1>4. Live /\ site \in Site
  BY <1>1, ReadinessAssumption DEF SuppliedOK, Asked, ReadinessTypeOK, Live, NoSite
<1>5. PICK W \in SUBSET Worker : evidence \in Evidence(W)
  BY <1>1 DEF ReadinessTypeOK, IsEvidence
<1>6. PICK answered \in BOOLEAN :
       LET missing == ~answered \/ site.fabric.missing IN
       evidence' = [evidence EXCEPT
         !.fabric = [site.fabric EXCEPT !.missing = missing,
                                        !.parseable = @ /\ site.mode = "service",
                                        !.exact = @ /\ answered],
         !.unidentified = site.unidentified
           \cup (IF answered THEN {} ELSE {"fabric_controller"})
           \cup (IF site.studies \in {"pinned", "schemaless"} THEN {} ELSE {"reference_studies"}),
         !.residency = IF ~site.keepAlive THEN "no keep-alive"
                       ELSE IF ~missing /\ Recorded(evidence) # {} THEN "supported" ELSE "unsupported",
         !.studies = site.studies,
         !.ravel = site.ravel]
  BY DEF AskController
<1> DEFINE missing == ~answered \/ site.fabric.missing
           version == [site.fabric EXCEPT !.missing = missing,
                                          !.parseable = @ /\ site.mode = "service",
                                          !.exact = @ /\ answered]
           gaps == site.unidentified
                     \cup (IF answered THEN {} ELSE {"fabric_controller"})
                     \cup (IF site.studies \in {"pinned", "schemaless"} THEN {} ELSE {"reference_studies"})
           residency == IF ~site.keepAlive THEN "no keep-alive"
                        ELSE IF ~missing /\ Recorded(evidence) # {} THEN "supported" ELSE "unsupported"
<1>7. site.fabric \in Version /\ site.keepAlive \in BOOLEAN
  BY <1>4 DEF Site
<1>8. /\ version \in Version /\ version.missing = missing /\ version.old = site.fabric.old
      /\ version.parseable = (site.fabric.parseable /\ site.mode = "service")
  BY <1>7 DEF Version
<1>9. gaps \subseteq Component /\ site.studies \in Studies
      /\ site.ravel \in {"unsaid", "limited", "current"}
  BY <1>4 DEF Site, Component
<1>10. residency \in {"none", "supported", "unsupported", "no keep-alive"}
  OBVIOUS
<1>11. evidence' = [evidence EXCEPT !.fabric = version, !.unidentified = gaps, !.residency = residency,
                                    !.studies = site.studies, !.ravel = site.ravel]
  BY <1>6
<1>12. gaps # Unidentified => missing
  BY DEF Unidentified
<1>13. residency = "supported" <=> site.keepAlive /\ ~missing /\ Recorded(evidence) # {}
  BY <1>7
<1>14. missing \in BOOLEAN /\ (site.fabric.missing => missing)
  BY <1>7 DEF Version
<1> HIDE DEF version, gaps, residency, missing
<1>15. /\ evidence' \in Evidence(W)
       /\ evidence'.workers = evidence.workers /\ evidence'.connected = evidence.connected
       /\ evidence'.available = evidence.available /\ evidence'.routing = evidence.routing
       /\ evidence'.harness = evidence.harness /\ evidence'.forge = evidence.forge
       /\ evidence'.artifacts = evidence.artifacts
  BY <1>5, <1>8, <1>9, <1>10, <1>11 DEF Evidence
<1>16. /\ evidence'.fabric = version /\ evidence'.unidentified = gaps /\ evidence'.residency = residency
       /\ evidence'.studies = site.studies /\ evidence'.ravel = site.ravel
  BY <1>5, <1>11 DEF Evidence
<1>17. HonestOK' /\ QuietOK'
  BY <1>1, <1>2, <1>3, <1>15, RowsStay DEF Heard
<1>18. Recorded(evidence') = Recorded(evidence)
  BY <1>15 DEF Recorded
<1>19. RestOK'
  <2>1. /\ evidence'.harness = "READY" /\ evidence'.forge = "UNKNOWN"
        /\ evidence'.artifacts = IF site.writable THEN "READY" ELSE "BLOCKED"
    BY <1>1, <1>4, <1>15 DEF RestOK
  <2>2. ~evidence'.fabric.missing => ~site.fabric.missing /\ evidence'.unidentified = Unidentified
    BY <1>8, <1>12, <1>14, <1>16
  <2>3. /\ evidence'.fabric.parseable <=> site.fabric.parseable /\ site.mode = "service"
        /\ evidence'.fabric.old = site.fabric.old
    BY <1>8, <1>16
  <2>4. evidence'.residency = "supported" <=>
          site.keepAlive /\ ~evidence'.fabric.missing /\ Recorded(evidence') # {}
    BY <1>8, <1>13, <1>16, <1>18
  <2>5. Unidentified' = Unidentified
    BY <1>2 DEF Unidentified
  <2>6. QED
    BY <1>2, <1>16, <2>1, <2>2, <2>3, <2>4, <2>5 DEF RestOK
<1>20. ReadinessTypeOK' /\ SuppliedOK' /\ JudgedOK'
  BY <1>1, <1>2, <1>3, <1>4, <1>5, <1>15 DEF ReadinessTypeOK, IsEvidence, SuppliedOK, JudgedOK, Live
<1>21. QED
  BY <1>17, <1>19, <1>20 DEF ReadinessInv


LEMMA JudgeKeeps == ASSUME NEW p \in Profile PROVE ReadinessInv /\ Judge(p) => ReadinessInv'
<1> SUFFICES ASSUME ReadinessInv, Judge(p) PROVE ReadinessInv'
  OBVIOUS
<1>1. ReadinessTypeOK /\ SuppliedOK /\ RestOK /\ phase = "asked"
  BY DEF ReadinessInv, Judge
<1>2. /\ UNCHANGED <<site, defects, changes, session, evidence, absent>>
      /\ phase' = "judged" /\ profile' = p /\ verdict' = Judgement(evidence, p)
  BY DEF Judge
<1>3. Judgement(evidence, p) \in Status
  BY <1>1, JudgementIsReady DEF ReadinessTypeOK
<1>4. HonestOK' /\ QuietOK'
  BY <1>1, <1>2, RowsStay DEF Heard
<1>5. RestOK' /\ SuppliedOK'
  BY <1>1, <1>2 DEF RestOK, SuppliedOK, Live, Asked, Unidentified
<1>6. JudgedOK'
  BY <1>2 DEF JudgedOK
<1>7. ReadinessTypeOK'
  BY <1>1, <1>2, <1>3 DEF ReadinessTypeOK, IsEvidence
<1>8. QED
  BY <1>4, <1>5, <1>6, <1>7 DEF ReadinessInv

LEMMA ChangeKeeps ==
  ASSUME NEW v \in Worker, NEW d \in Defect PROVE ReadinessInv /\ Change(v, d) => ReadinessInv'
<1> SUFFICES ASSUME ReadinessInv, Change(v, d) PROVE ReadinessInv'
  OBVIOUS
<1> DEFINE now == [defects EXCEPT ![v] = IF d \in @ THEN @ \ {d} ELSE @ \cup {d}]
<1>1. /\ ReadinessTypeOK /\ SuppliedOK /\ RestOK /\ JudgedOK
      /\ phase \notin {"start", "judged"} /\ Live /\ changes < MaxChanges
  BY DEF ReadinessInv, Change, Live
<1>2. UNCHANGED <<site, session, evidence, profile, verdict>> /\ Reach(phase, now) /\ changes' = changes + 1
  BY DEF Change
<1>3. now \in [Worker -> SUBSET Defect]
  BY <1>1 DEF ReadinessTypeOK
<1> HIDE DEF now
<1>4. /\ phase' = phase /\ defects' = now /\ absent' \in [Worker -> SUBSET Defect]
      /\ \A w \in Worker : absent[w] \subseteq absent'[w]
  BY <1>1, <1>2, <1>3, Reaches
<1>5. changes' \in 0..MaxChanges /\ changes' # 0
  BY <1>1, <1>2, ReadinessAssumption DEF ReadinessTypeOK
<1>6. DOMAIN evidence.workers \subseteq Worker
  BY <1>1 DEF ReadinessTypeOK, IsEvidence, Evidence
<1>7. HonestOK'
  BY <1>1, <1>2, <1>4, <1>6, RowStays DEF ReadinessInv, HonestOK, Heard, Live
<1>8. QuietOK'
  BY <1>5 DEF QuietOK
<1>9. RestOK' /\ SuppliedOK' /\ JudgedOK'
  BY <1>1, <1>2, <1>4 DEF RestOK, SuppliedOK, JudgedOK, Live, Asked, Unidentified
<1>10. ReadinessTypeOK'
  BY <1>1, <1>2, <1>3, <1>4, <1>5 DEF ReadinessTypeOK, IsEvidence
<1>11. QED
  BY <1>7, <1>8, <1>9, <1>10 DEF ReadinessInv

LEMMA StepReadinessInv == ReadinessInv /\ [ReadinessNext]_readinessVars => ReadinessInv'
<1> SUFFICES ASSUME ReadinessInv, [ReadinessNext]_readinessVars PROVE ReadinessInv'
  OBVIOUS
<1>1. CASE UNCHANGED readinessVars
  <2>1. \A w : (HonestRow(w) => HonestRow(w)') /\ (QuietRow(w) => QuietRow(w)')
    BY <1>1, RowStays DEF readinessVars
  <2>2. HonestOK' /\ QuietOK'
    BY <1>1, <2>1 DEF readinessVars, ReadinessInv, HonestOK, QuietOK, Live, Heard
  <2>3. ReadinessTypeOK' /\ SuppliedOK' /\ RestOK' /\ JudgedOK'
    BY <1>1 DEF readinessVars, ReadinessInv, ReadinessTypeOK, IsEvidence, SuppliedOK, RestOK, JudgedOK, Live, Asked, Unidentified
  <2>4. QED
    BY <2>2, <2>3 DEF ReadinessInv
<1>2. CASE ReadinessNext
  BY <1>2, OpenFabricKeeps, ObserveKeeps, OpenCommonsKeeps, ProbeArtifactsKeeps, InspectFleetKeeps,
     AskControllerKeeps, JudgeKeeps, ChangeKeeps DEF ReadinessNext
<1>3. QED
  BY <1>1, <1>2

LEMMA ReadinessInvariant == ReadinessSpec => []ReadinessInv
BY InitReadinessInv, StepReadinessInv, PTL DEF ReadinessSpec

------------------------------------------------------------------------------

\* An eligible worker was, at some moment, without each defect it was seen to be
\* without: so without each one that evidence without a gap there speaks of.
LEMMA EligibleWasSound ==
  ASSUME NEW w, HonestRow(w), evidence.workers[w] \in WorkerEvidence, Eligible(evidence.workers[w])
  PROVE  Defect \ Unseen(w) \subseteq absent[w]
<1> DEFINE e == evidence.workers[w]
<1>1. /\ e.found \subseteq Defect /\ e.lacking \subseteq Field /\ e.decision \in {"none", "ready", "not ready"}
  BY DEF WorkerEvidence
<1>2. /\ e.decision = "none" <=> "decision" \notin site.carries
      /\ e.decision = "ready" => ManagedDefect \subseteq absent[w]
      /\ \A d \in Defect : Tells(w, d) => d \in e.found \cup absent[w]
  BY DEF HonestRow
<1>3. Blockers(e) = {} /\ "stale" \notin e.found
  BY DEF Eligible, FabricEligible
<1>4. "down" \notin e.found /\ e.decision # "not ready"
  BY <1>3 DEF Blockers
<1>5. RowDefect \subseteq absent[w]
  BY <1>2, <1>3, <1>4 DEF Tells, RowDefect, Defect
<1>6. CASE e.decision = "ready"
  BY <1>2, <1>5, <1>6 DEF Defect
<1>7. CASE e.decision = "none"
  <2>1. IF Ledger(e) THEN LedgerBlockers(e) = {} ELSE OtherBlockers(e) = {}
    BY <1>3, <1>7 DEF Blockers
  <2>2. Ledger(e)
    <3> SUFFICES ASSUME OtherBlockers(e) = {} PROVE Ledger(e)
      BY <2>1
    <3>1. e.found \cap (ManagedDefect \ {"rebuilt"}) = {} /\ e.lacking \cap {"state", "certification"} = {}
      BY DEF OtherBlockers
    <3>2. QED
      BY <3>1 DEF Ledger, ManagedDefect
  <2>3. e.found \cap {"held", "uncertified", "barred", "nonconforming", "updating", "outdated"} = {}
    BY <2>1, <2>2 DEF Ledger, LedgerBlockers
  <2>4. \A d \in Defect : Tells(w, d) => d \in absent[w]
    <3>1. \A d : Tells(w, d) => d \notin {"rebuilt", "redesired"}
      BY ShownIs DEF Tells, RowDefect
    <3>2. QED
      BY <1>2, <1>3, <1>4, <2>3, <3>1 DEF Defect, ManagedDefect, RowDefect
  <2>5. ASSUME NEW d \in Defect \ Unseen(w) PROVE Tells(w, d)
    <3>1. d \notin {"rebuilt", "redesired"} /\ d \notin ShownBy(e.lacking)
      BY <1>2, <1>7 DEF Unseen
    <3>2. d \in RowDefect \/ \E f \in Field : d \in Shown(f)
      BY <3>1, ShownIs DEF Defect, ManagedDefect, Field
    <3>3. QED
      BY <3>1, <3>2, ShownByIs DEF Tells
  <2>6. QED
    BY <2>4, <2>5
<1>8. QED
  BY <1>1, <1>4, <1>6, <1>7

\* Over a fleet that keeps still, with every gap filled but that of the service,
\* the eligible workers are those nothing is wrong with that is not overlooked.
LEMMA EligibleIsSound ==
  ASSUME NEW w, HonestRow(w), QuietRow(w), evidence.workers[w] \in WorkerEvidence,
         evidence.workers[w].lacking \subseteq {"service"}, defects[w] \subseteq Defect
  PROVE  Eligible(evidence.workers[w]) <=> defects[w] \subseteq Overlooked
<1> DEFINE e == evidence.workers[w]
           bad == {"held", "uncertified", "barred", "nonconforming", "updating", "outdated"}
<1>1. /\ e.decision \in {"none", "ready", "not ready"} /\ e.lacking \subseteq {"service"}
      /\ "service" \notin e.lacking <=> "service" \in site.carries
      /\ e.decision = "none" <=> "decision" \notin site.carries
  BY DEF HonestRow, WorkerEvidence
<1>2. /\ \A d \in defects[w] : Tells(w, d) => d \in e.found
      /\ e.found \subseteq defects[w] \ {"rebuilt", "redesired"}
      /\ "outdated" \in e.found => "service" \in site.carries
      /\ e.decision = "ready" => defects[w] \cap ManagedDefect = {}
      /\ e.decision = "not ready" => defects[w] \cap ManagedDefect # {}
  BY DEF QuietRow
<1>3. \A d \in RowDefect : d \in e.found <=> d \in defects[w]
  BY <1>2 DEF Tells
<1>4. Eligible(e) <=> "down" \notin e.found /\ "stale" \notin e.found /\
        (e.decision = "ready" \/ (e.decision = "none" /\ e.found \cap bad = {}))
  <2>1. CASE e.decision = "none"
    <3>1. Ledger(e) <=> e.found \cap {"held", "uncertified"} = {}
      BY <1>1 DEF Ledger
    <3>2. ~Ledger(e) => OtherBlockers(e) # {}
      BY <3>1 DEF OtherBlockers, ManagedDefect
    <3>3. Blockers(e) = {} <=> "down" \notin e.found /\ Ledger(e) /\ LedgerBlockers(e) = {}
      BY <2>1, <3>2 DEF Blockers
    <3>4. QED
      BY <2>1, <3>1, <3>3 DEF Eligible, FabricEligible, LedgerBlockers
  <2>2. CASE e.decision = "ready"
    BY <2>2 DEF Eligible, FabricEligible, Blockers
  <2>3. CASE e.decision = "not ready"
    BY <2>3 DEF Eligible, FabricEligible, Blockers
  <2>4. QED
    BY <1>1, <2>1, <2>2, <2>3
<1>5. CASE "decision" \in site.carries
  <2>1. Overlooked = {}
    BY <1>5 DEF Overlooked
  <2>2. e.decision = "ready" <=> defects[w] \cap ManagedDefect = {}
    BY <1>1, <1>2, <1>5
  <2>3. e.decision # "none"
    BY <1>1, <1>5
  <2>4. QED
    BY <1>3, <1>4, <2>1, <2>2, <2>3 DEF RowDefect, Defect
<1>6. CASE "decision" \notin site.carries
  <2>1. Overlooked = {"rebuilt", "redesired"} \cup IF "service" \in site.carries THEN {} ELSE {"outdated"}
    BY <1>6 DEF Overlooked
  <2>2. ASSUME NEW d \in bad, d \notin Overlooked PROVE Tells(w, d)
    <3>1. PICK f \in Field : d \in Shown(f)
      BY ShownIs DEF Field
    <3>2. f = "service" => "service" \in site.carries
      BY <2>1, <2>2, <3>1, ShownIs
    <3>3. QED
      BY <1>1, <3>1, <3>2 DEF Tells
  <2>3. e.found \cap bad = {} <=> defects[w] \cap (bad \ Overlooked) = {}
    <3>1. ASSUME NEW d \in bad PROVE d \in e.found <=> d \in defects[w] /\ d \notin Overlooked
      BY <1>2, <2>1, <2>2
    <3>2. QED
      BY <3>1
  <2>4. Defect \ Overlooked = RowDefect \cup (bad \ Overlooked)
    BY <2>1 DEF Defect, ManagedDefect, RowDefect
  <2>5. e.decision = "none"
    BY <1>1, <1>6
  <2>6. QED
    BY <1>3, <1>4, <2>3, <2>4, <2>5 DEF RowDefect
<1>7. QED
  BY <1>5, <1>6


LEMMA DispatchOnlyTo ==
  ASSUME NEW f \in Version
  PROVE  DispatchAllowed(f) <=> ~f.missing /\ f.parseable /\ ~f.old
<1>1. /\ f.missing \in BOOLEAN /\ f.parseable \in BOOLEAN /\ f.old \in BOOLEAN
      /\ f.exact \in BOOLEAN /\ f.certified \in BOOLEAN
  BY DEF Version
<1>2. CASE f.missing
  BY <1>2 DEF DispatchAllowed, Classify
<1>3. CASE ~f.missing /\ ~f.parseable
  BY <1>3 DEF DispatchAllowed, Classify
<1>4. CASE ~f.missing /\ f.parseable /\ f.old
  BY <1>4 DEF DispatchAllowed, Classify
<1>5. CASE ~f.missing /\ f.parseable /\ ~f.old
  BY <1>1, <1>5 DEF DispatchAllowed, Classify
<1>6. QED
  BY <1>1, <1>2, <1>3, <1>4, <1>5

LEMMA WorkersAreReady ==
  ASSUME NEW ev
  PROVE  /\ WorkersLayer(ev) = "READY" <=> EligibleWorkers(ev) # {}
         /\ ModelsLayer(ev) = "READY" <=> Offers(ev, EligibleWorkers(ev))
<1>1. EligibleWorkers(ev) \subseteq Available(ev)
  <2>1. ASSUME NEW e, Eligible(e) PROVE "down" \notin e.found
    BY <2>1 DEF Eligible, FabricEligible, Blockers
  <2>2. QED
    BY <2>1 DEF EligibleWorkers, Available
<1>2. Available(ev) \subseteq DOMAIN ev.workers
  BY DEF Available
<1>3. QED
  BY <1>1, <1>2 DEF WorkersLayer, ModelsLayer

LEMMA EvidenceOfWorkers ==
  ASSUME ReadinessTypeOK
  PROVE  /\ DOMAIN evidence.workers \subseteq Worker
         /\ \A w \in DOMAIN evidence.workers : evidence.workers[w] \in WorkerEvidence
         /\ evidence.fabric \in Version
BY DEF ReadinessTypeOK, IsEvidence, Evidence

\* READY was earned: the worker is one that the judged evidence calls eligible.
THEOREM ReadyEarned == ReadinessSpec => []ReadyWasEarned
<1>1. ReadinessInv => ReadyWasEarned
  <2> SUFFICES ASSUME ReadinessInv, Live, verdict = "READY"
               PROVE \E w \in DOMAIN evidence.workers :
                       /\ Defect \ Unseen(w) \subseteq absent[w]
                       /\ site.models[w] \ {"failed", "denied", "unnamed"} # {}
    BY DEF ReadyWasEarned
  <2>1. /\ ReadinessTypeOK /\ phase = "judged" /\ profile \in Profile
        /\ Judgement(evidence, profile) = "READY"
    BY DEF ReadinessInv, JudgedOK
  <2>2. ModelsLayer(evidence) = "READY"
    BY <2>1, JudgementIsReady DEF ReadinessTypeOK, BaseReady
  <2>3. PICK w \in EligibleWorkers(evidence) : \E m \in evidence.workers[w].models : Usable(m)
    BY <2>2, WorkersAreReady DEF Offers
  <2>4. /\ w \in DOMAIN evidence.workers /\ Eligible(evidence.workers[w])
        /\ evidence.workers[w] \in WorkerEvidence
    BY <2>1, EvidenceOfWorkers DEF EligibleWorkers
  <2>5. HonestRow(w)
    BY <2>1, <2>4 DEF ReadinessInv, HonestOK, Heard
  <2>6. Defect \ Unseen(w) \subseteq absent[w]
    BY <2>4, <2>5, EligibleWasSound
  <2>7. evidence.workers[w].models \subseteq site.models[w]
    BY <2>5 DEF HonestRow
  <2>8. site.models[w] \ {"failed", "denied", "unnamed"} # {}
    BY <2>3, <2>7 DEF Usable
  <2>9. QED
    BY <2>4, <2>6, <2>8
<1>2. QED
  BY <1>1, ReadinessInvariant, PTL

THEOREM ProfilesBuildOnOneAnother == ReadinessSpec => []ProfilesNest
<1>1. ReadinessInv => ProfilesNest
  BY Nest DEF ReadinessInv, ReadinessTypeOK
<1>2. QED
  BY <1>1, ReadinessInvariant, PTL

THEOREM ReadinessTyped == ReadinessSpec => []ReadinessTypeOK
<1>1. ReadinessInv => ReadinessTypeOK
  BY DEF ReadinessInv
<1>2. QED
  BY <1>1, ReadinessInvariant, PTL

LEMMA QuietJudgement ==
  ASSUME ReadinessInv, Live, verdict # "none", changes = 0, EveryCallAnswered
  PROVE  verdict = "READY" <=> Meets(profile, Overlooked, {"sound", "misfit"})
<1>1. /\ ReadinessTypeOK /\ phase = "judged" /\ profile \in Profile
      /\ verdict = Judgement(evidence, profile)
  BY DEF ReadinessInv, JudgedOK
<1>2. site \in Site
  BY <1>1, ReadinessAssumption DEF ReadinessTypeOK, Live, NoSite
<1>3. /\ evidence.connected = "yes" /\ evidence.commons = site.commons
      /\ evidence.fabric.missing = site.fabric.missing
      /\ \A w \in Worker : evidence.workers[w].lacking \subseteq {"service"}
  BY DEF EveryCallAnswered
<1>4. /\ DOMAIN evidence.workers = Worker
      /\ evidence.available
      /\ (\E w \in Worker : "down" \notin defects[w]) => evidence.routing = "yes"
      /\ \A w \in Worker : QuietRow(w)
  BY <1>1, <1>3 DEF ReadinessInv, QuietOK, Heard
<1>5. \A w \in Worker : HonestRow(w)
  BY <1>1, <1>4 DEF ReadinessInv, HonestOK, Heard
<1>6. /\ evidence.harness = "READY" /\ evidence.forge = "UNKNOWN"
      /\ evidence.artifacts = IF site.writable THEN "READY" ELSE "BLOCKED"
      /\ ~evidence.fabric.missing => evidence.unidentified = Unidentified
      /\ evidence.fabric.parseable <=> site.fabric.parseable /\ site.mode = "service"
      /\ evidence.fabric.old = site.fabric.old
      /\ evidence.residency = "supported" <=>
           site.keepAlive /\ ~evidence.fabric.missing /\ Recorded(evidence) # {}
      /\ evidence.studies = site.studies
  BY <1>1 DEF ReadinessInv, RestOK, Asked
<1> DEFINE Fine(w) == defects[w] \subseteq Overlooked
<1>7. \A w \in Worker : Eligible(evidence.workers[w]) <=> Fine(w)
  <2> TAKE w \in Worker
  <2>1. defects[w] \subseteq Defect /\ evidence.workers[w] \in WorkerEvidence
    BY <1>1, <1>4, EvidenceOfWorkers DEF ReadinessTypeOK
  <2>2. QED
    BY <1>3, <1>4, <1>5, <2>1, EligibleIsSound
<1>8. EligibleWorkers(evidence) = {w \in Worker : Fine(w)}
  BY <1>4, <1>7 DEF EligibleWorkers
<1>9. \A w \in Worker : /\ evidence.workers[w].models = IF "models" \in site.carries THEN site.models[w] ELSE {}
                        /\ site.models[w] \subseteq Model
  BY <1>2, <1>5 DEF HonestRow, Site
<1>10. FabricLayer(evidence) = "READY" <=>
         /\ site.mode = "service" /\ ~site.fabric.missing /\ site.fabric.parseable /\ ~site.fabric.old
  <2>1. FabricLayer(evidence) = "READY" <=> DispatchAllowed(evidence.fabric)
    BY <1>3, <1>4 DEF FabricLayer
  <2>2. evidence.fabric \in Version
    BY <1>1, EvidenceOfWorkers
  <2>3. QED
    BY <1>3, <1>6, <2>1, <2>2, DispatchOnlyTo
<1>11. RoutingLayer(evidence) = "READY" <=> \E w \in Worker : Fine(w)
  <2>1. ASSUME NEW w \in Worker, Fine(w) PROVE evidence.routing = "yes"
    <3>1. "down" \notin Overlooked
      BY DEF Overlooked
    <3>2. QED
      BY <1>4, <2>1, <3>1
  <2>2. evidence.routing \in {"none", "silent fallback", "unsaid", "yes", "no"}
    BY <1>1 DEF ReadinessTypeOK, IsEvidence, Evidence
  <2> HIDE DEF Fine
  <2>3. EligibleWorkers(evidence) # {} <=> \E w \in Worker : Fine(w)
    BY <1>8
  <2>4. QED
    BY <2>1, <2>2, <2>3 DEF RoutingLayer
<1> HIDE DEF Fine
<1>12. WorkersLayer(evidence) = "READY" <=> \E w \in Worker : Fine(w)
  BY <1>8, WorkersAreReady
<1>13. ModelsLayer(evidence) = "READY" <=>
         "models" \in site.carries
           /\ \E w \in Worker : Fine(w) /\ site.models[w] \cap {"sound", "misfit", "undigested"} # {}
  <2>1. \A m \in Model : Usable(m) <=> m \in {"sound", "misfit", "undigested"}
    BY DEF Model, Usable
  <2>2. ModelsLayer(evidence) = "READY" <=>
          \E w \in Worker : Fine(w) /\ \E m \in evidence.workers[w].models : Usable(m)
    BY <1>8, WorkersAreReady DEF Offers
  <2>3. QED
    BY <1>9, <2>1, <2>2
<1>14. Recorded(evidence) = UNION {evidence.workers[w].models : w \in Worker}
  BY <1>4 DEF Recorded
<1>15. \A m : m \in Recorded(evidence) <=>
                "models" \in site.carries /\ \E w \in Worker : m \in site.models[w]
  BY <1>9, <1>14
<1>16. Complete(evidence) <=>
         /\ evidence.unidentified = {}
         /\ Worker # {}
         /\ ("models" \in site.carries => \A w \in Worker : "undigested" \notin site.models[w])
  BY <1>3, <1>4, <1>15 DEF Complete, Field
<1>17. StudiesLayer(evidence, "MNEL") = "READY" <=> site.studies = "pinned"
  <2>1. evidence.studies \in Studies
    BY <1>1 DEF ReadinessTypeOK, IsEvidence, Evidence
  <2>2. QED
    BY <1>6, <2>1 DEF StudiesLayer, Studies
<1>18. ResidencyLayer(evidence) = "READY" <=> evidence.residency = "supported"
  <2>1. evidence.residency \in {"none", "supported", "unsupported", "no keep-alive"}
    BY <1>1 DEF ReadinessTypeOK, IsEvidence, Evidence
  <2>2. QED
    BY <2>1 DEF ResidencyLayer
<1>19. evidence.artifacts = "READY" <=> site.writable
  BY <1>2, <1>6 DEF Site
<1>20. verdict = "READY" <=>
              /\ Complete(evidence)
              /\ BaseReady(evidence)
              /\ profile \notin {"code-analysis", "RAVEL"}
              /\ profile \in {"multi-agent", "sustained-experiment", "MNEL"} => RoutingLayer(evidence) = "READY"
              /\ profile = "sustained-experiment" => ResidencyLayer(evidence) = "READY"
              /\ profile = "MNEL" => evidence.commons = "publishes" /\ StudiesLayer(evidence, "MNEL") = "READY"
  BY <1>1, <1>6, JudgementIsReady DEF ReadinessTypeOK, Profile
<1>21. BaseReady(evidence) <=>
         /\ FabricLayer(evidence) = "READY" /\ WorkersLayer(evidence) = "READY"
         /\ ModelsLayer(evidence) = "READY" /\ site.commons \in {"reads", "publishes"} /\ site.writable
  BY <1>3, <1>6, <1>19 DEF BaseReady
<1>22. BaseReady(evidence) /\ Complete(evidence) <=>
         /\ site.mode = "service" /\ ~site.fabric.missing /\ site.fabric.parseable /\ ~site.fabric.old
         /\ site.writable /\ site.commons \in {"reads", "publishes"} /\ Unidentified = {}
         /\ "models" \in site.carries
         /\ \E w \in Worker : Fine(w) /\ site.models[w] \cap {"sound", "misfit"} # {}
         /\ \A w \in Worker : "undigested" \notin site.models[w]
  <2>1. FabricLayer(evidence) = "READY" => evidence.unidentified = Unidentified
    BY <1>3, <1>6, <1>10
  <2>2. BaseReady(evidence) /\ Complete(evidence) <=>
         /\ FabricLayer(evidence) = "READY" /\ site.writable /\ site.commons \in {"reads", "publishes"}
         /\ Unidentified = {} /\ "models" \in site.carries
         /\ \E w \in Worker : Fine(w) /\ site.models[w] \cap {"sound", "misfit", "undigested"} # {}
         /\ \A w \in Worker : "undigested" \notin site.models[w]
    BY <1>12, <1>13, <1>16, <1>21, <2>1
  <2>3. QED
    BY <1>10, <2>2
<1>23. BaseReady(evidence) => Recorded(evidence) # {} /\ ~evidence.fabric.missing
         /\ RoutingLayer(evidence) = "READY"
  BY <1>3, <1>10, <1>11, <1>12, <1>13, <1>15, <1>21
<1>24. BaseReady(evidence) => (ResidencyLayer(evidence) = "READY" <=> site.keepAlive)
  BY <1>6, <1>18, <1>23
<1>25. QED
  <2>1. Unidentified = {} <=> site.unidentified = {} /\ site.studies \in {"pinned", "schemaless"}
    BY DEF Unidentified
  <2>2. Meets(profile, Overlooked, {"sound", "misfit"}) <=>
          /\ BaseReady(evidence) /\ Complete(evidence)
          /\ profile = "sustained-experiment" => site.keepAlive
          /\ profile = "MNEL" => site.commons = "publishes" /\ site.studies = "pinned"
          /\ profile \notin {"code-analysis", "RAVEL"}
    BY <1>22, <2>1 DEF Meets, Fine
  <2>3. QED
    BY <1>3, <1>17, <1>20, <1>23, <1>24, <2>2

\* A fleet that keeps still and answers in full is judged as the document asks,
\* but for the defects that are overlooked and the role of the model.
THEOREM QuietlyExact == ReadinessSpec => []QuietVerdict
<1>1. ASSUME Documented(profile) PROVE Meets(profile, Overlooked, {"sound", "misfit"})
  BY <1>1 DEF Documented, Meets
<1>2. ReadinessInv => QuietVerdict
  BY <1>1, QuietJudgement DEF QuietVerdict
<1>3. QED
  BY <1>2, ReadinessInvariant, PTL

------------------------------------------------------------------------------
(***************************************************************************)
(* The two together: the verdict of an inspection folds its layers with    *)
(* the readiness kernel.                                                   *)
(***************************************************************************)

\* The readiness kernel's pairwise step is one the fold may be built on.
LEMMA ReadinessJoins ==
  /\ \A a, b \in Status :
       /\ dominate_readiness(a, b) \in Status
       /\ dominate_readiness(a, b) = dominate_readiness(b, a)
       /\ dominate_readiness(a, a) = a
       /\ dominate_readiness("READY", a) = a
  /\ \A a, b, c \in Status :
       dominate_readiness(dominate_readiness(a, b), c) = dominate_readiness(a, dominate_readiness(b, c))
<1>1. \A a, b \in Status :
        dominate_readiness(a, b) =
          IF "BLOCKED" \in {a, b} THEN "BLOCKED"
          ELSE IF "UNKNOWN" \in {a, b} THEN "UNKNOWN"
          ELSE IF "DEGRADED" \in {a, b} THEN "DEGRADED" ELSE "READY"
  BY DEF dominate_readiness, Status
<1>2. \A a, b \in Status : dominate_readiness(a, b) \in Status
  BY <1>1 DEF Status
<1>3. QED
  BY <1>1, <1>2 DEF Status

\* However a host cuts the layers of a profile into envelopes, what it returns is
\* the worst of their statuses: Worst is what the overall verdict may be computed by.
THEOREM FoldIsWorst ==
  ASSUME Value = Status, Neutral = "READY",
         \A a, b \in Status : Join(a, b) = dominate_readiness(a, b)
  PROVE  Spec => [](result # << >> => result[1] = Worst({input[k] : k \in DOMAIN input}))
<1>1. Spec => []IInv
  BY InitIInv, StepIInv, PTL DEF Spec
<1>2. ASSUME IInv, result # << >> PROVE result[1] = Worst({input[k] : k \in DOMAIN input})
  <2> DEFINE v == result[1]
             R == {input[k] : k \in DOMAIN input}
  <2>1. v \in Status /\ input \in Seq(Status) /\ R \subseteq Status
    BY <1>2 DEF IInv, AfterResult, TypeOK
  <2>2. \A a, b \in Status :
          Join(a, b) = IF "BLOCKED" \in {a, b} THEN "BLOCKED"
                       ELSE IF "UNKNOWN" \in {a, b} THEN "UNKNOWN"
                       ELSE IF "DEGRADED" \in {a, b} THEN "DEGRADED" ELSE "READY"
    BY DEF dominate_readiness, Status
  <2>3. \A u \in Status : Join(v, u) = u <=> \A x \in R : Join(x, u) = u
    BY <1>2 DEF IInv, ResultIsJoin, Dominates, Above
  <2> HIDE DEF v, R
  <2>4. \A u \in Status : \A x \in Status :
          Join(x, u) = u <=>
            \/ u = "BLOCKED"
            \/ u = "UNKNOWN" /\ x # "BLOCKED"
            \/ u = "DEGRADED" /\ x \in {"DEGRADED", "READY"}
            \/ u = "READY" /\ x = "READY"
    BY <2>2 DEF Status
  <2>5. {"READY", "DEGRADED", "UNKNOWN", "BLOCKED"} = Status
    BY DEF Status
  <2>6. /\ v = "READY" <=> R \subseteq {"READY"}
        /\ v \in {"READY", "DEGRADED"} <=> R \subseteq {"READY", "DEGRADED"}
        /\ v # "BLOCKED" <=> "BLOCKED" \notin R
    <3>1. v = "READY" <=> \A x \in R : x = "READY"
      <4>1. Join(v, "READY") = "READY" <=> \A x \in R : Join(x, "READY") = "READY"
        BY <2>3, <2>5
      <4>2. \A x \in Status : Join(x, "READY") = "READY" <=> x = "READY"
        BY <2>4, <2>5
      <4>3. QED
        BY <2>1, <4>1, <4>2
    <3>2. v \in {"READY", "DEGRADED"} <=> \A x \in R : x \in {"READY", "DEGRADED"}
      <4>1. Join(v, "DEGRADED") = "DEGRADED" <=> \A x \in R : Join(x, "DEGRADED") = "DEGRADED"
        BY <2>3, <2>5
      <4>2. \A x \in Status : Join(x, "DEGRADED") = "DEGRADED" <=> x \in {"READY", "DEGRADED"}
        BY <2>4, <2>5
      <4>3. QED
        BY <2>1, <4>1, <4>2
    <3>3. v # "BLOCKED" <=> \A x \in R : x # "BLOCKED"
      <4>1. Join(v, "UNKNOWN") = "UNKNOWN" <=> \A x \in R : Join(x, "UNKNOWN") = "UNKNOWN"
        BY <2>3, <2>5
      <4>2. \A x \in Status : Join(x, "UNKNOWN") = "UNKNOWN" <=> x # "BLOCKED"
        BY <2>4, <2>5
      <4>3. QED
        BY <2>1, <4>1, <4>2
    <3>4. QED
      BY <3>1, <3>2, <3>3
  <2>7. v = Worst(R)
    BY <2>1, <2>5, <2>6 DEF Worst
  <2>8. QED
    BY <2>7 DEF v, R
<1>3. IInv => (result # << >> => result[1] = Worst({input[k] : k \in DOMAIN input}))
  BY <1>2
<1>4. QED
  BY <1>1, <1>3, PTL
==============================================================================
