---------------------- MODULE ExperimentResidency_proofs ----------------------
(***************************************************************************)
(* Proofs about ExperimentResidency, for every fleet, every order of       *)
(* dispatch and every fault the specification allows.                      *)
(***************************************************************************)
EXTENDS ExperimentResidency, FiniteSetTheorems, WellFoundedInduction, TLAPS

(***************************************************************************)
(* What Stored adds up to.  The fold picks the models in some order; a     *)
(* function that is additive in every order satisfies the fold's recursion *)
(* and therefore is the fold.  Both halves go by the smallest set for      *)
(* which they would fail.                                                  *)
(***************************************************************************)
LEMMA StoredIs ==
  ASSUME NEW S
  PROVE  Stored(S) = (CHOOSE g : g = [s \in SUBSET S |->
            IF s = {} THEN 0 ELSE Size[CHOOSE x \in s : TRUE] + g[s \ {CHOOSE x \in s : TRUE}]])[S]
BY DEF Stored, MapThenSumSet, MapThenFoldSet

\* Of a set of finite sets one is smallest.
LEMMA Smallest ==
  ASSUME NEW F, F # {}, \A s \in F : IsFiniteSet(s)
  PROVE  \E s \in F : \A t \in F : ~(Cardinality(t) < Cardinality(s))
<1> DEFINE R == {p \in Nat \X Nat : p[1] < p[2]}
           C == {Cardinality(s) : s \in F}
<1>1. R = OpToRel(<, Nat)
  BY Zenon DEF OpToRel
<1>2. IsWellFoundedOn(R, Nat)
  BY <1>1, NatLessThanWellFounded, Zenon
<1>3. C \subseteq Nat /\ C # {}
  BY FS_CardinalityType
<1>4. PICK m \in C : \A n \in C : ~(<<n, m>> \in R)
  <2> HIDE DEF R, C
  <2> QED BY <1>2, <1>3, WFMin
<1>5. PICK s \in F : m = Cardinality(s)
  OBVIOUS
<1>6. ASSUME NEW t \in F, Cardinality(t) < Cardinality(s) PROVE FALSE
  <2>1. Cardinality(t) \in C /\ Cardinality(t) \in Nat /\ Cardinality(s) \in Nat
    BY <1>3
  <2>2. <<Cardinality(t), m>> \in R
    BY <1>5, <1>6, <2>1
  <2> QED
    BY <1>4, <2>1, <2>2
<1> QED
  BY <1>6

\* g sums Size over the subsets of N, one model at a time.
Adds(N, g) == /\ g \in [SUBSET N -> Nat]
              /\ g[{}] = 0
              /\ \A s \in SUBSET N : \A x \in N \ s : g[s \cup {x}] = g[s] + Size[x]

\* There is such a sum for every set of models.
LEMMA SumExists ==
  ASSUME NEW M \in SUBSET Model
  PROVE  \E g : Adds(M, g)
<1> DEFINE Bad == {N \in SUBSET M : ~\E g : Adds(N, g)}
<1> SUFFICES ASSUME Bad # {} PROVE FALSE
  OBVIOUS
<1>0. IsFiniteSet(M)
  BY ConstantsAssumption, FS_Subset
<1>1. \A s \in Bad : IsFiniteSet(s)
  BY <1>0, FS_Subset
<1>2. PICK N \in Bad : \A t \in Bad : ~(Cardinality(t) < Cardinality(N))
  <2> HIDE DEF Bad
  <2> QED BY <1>1, Smallest
<1>3. CASE N = {}
  <2> DEFINE g == [s \in SUBSET N |-> 0]
  <2>1. Adds(N, g)
    BY <1>3 DEF Adds
  <2> QED
    BY <2>1
<1>4. CASE N # {}
  <2>1. PICK x \in N : TRUE
    BY <1>4
  <2> DEFINE T == N \ {x}
  <2>2. Cardinality(T) < Cardinality(N)
    <3>1. Cardinality(T) = Cardinality(N) - 1 /\ Cardinality(N) \in Nat
      BY <1>1, <2>1, FS_RemoveElement, FS_CardinalityType
    <3> QED
      BY <3>1
  <2>3. PICK h : Adds(T, h)
    <3>1. T \in SUBSET M /\ T \notin Bad
      BY <1>2, <2>2
    <3> QED
      BY <3>1
  <2>4. x \in Model /\ Size[x] \in Nat
    BY <2>1, ConstantsAssumption
  <2> DEFINE g == [s \in SUBSET N |-> IF x \in s THEN h[s \ {x}] + Size[x] ELSE h[s]]
  <2>5. g \in [SUBSET N -> Nat]
    <3> SUFFICES ASSUME NEW s \in SUBSET N PROVE g[s] \in Nat
      OBVIOUS
    <3>1. CASE x \in s
      <4>1. s \ {x} \in SUBSET T
        OBVIOUS
      <4>2. h[s \ {x}] \in Nat
        BY <2>3, <4>1 DEF Adds
      <4> QED
        BY <2>4, <3>1, <4>2
    <3>2. CASE x \notin s
      <4>1. s \in SUBSET T
        BY <3>2
      <4> QED
        BY <2>3, <3>2, <4>1 DEF Adds
    <3> QED
      BY <3>1, <3>2
  <2>6. g[{}] = 0
    BY <2>3 DEF Adds
  <2>7. ASSUME NEW s \in SUBSET N, NEW y \in N \ s PROVE g[s \cup {y}] = g[s] + Size[y]
    <3>0. y \in Model /\ Size[y] \in Nat /\ s \cup {y} \in SUBSET N
      BY ConstantsAssumption
    <3>1. CASE x = y
      <4>1. (s \cup {y}) \ {x} = s
        BY <3>1
      <4> QED
        BY <3>0, <3>1, <4>1
    <3>2. CASE x # y /\ x \in s
      <4>1. s \ {x} \in SUBSET T /\ y \in T \ (s \ {x}) /\ (s \cup {y}) \ {x} = (s \ {x}) \cup {y}
        BY <3>2
      <4>2. h[(s \ {x}) \cup {y}] = h[s \ {x}] + Size[y] /\ h[s \ {x}] \in Nat
        BY <2>3, <4>1 DEF Adds
      <4>3. g[s \cup {y}] = h[(s \ {x}) \cup {y}] + Size[x]
        BY <3>0, <3>2, <4>1
      <4>4. g[s] = h[s \ {x}] + Size[x]
        BY <3>2
      <4> HIDE DEF g, T
      <4> QED
        BY <2>4, <3>0, <4>2, <4>3, <4>4
    <3>3. CASE x # y /\ x \notin s
      <4>1. s \in SUBSET T /\ y \in T \ s
        BY <3>3
      <4>2. h[s \cup {y}] = h[s] + Size[y]
        BY <2>3, <4>1 DEF Adds
      <4> QED
        BY <3>0, <3>3, <4>2
    <3> QED
      BY <3>1, <3>2, <3>3
  <2>8. Adds(N, g)
    <3> HIDE DEF g
    <3> QED
      BY <2>5, <2>6, <2>7 DEF Adds
  <2> QED
    BY <2>8
<1> QED
  BY <1>3, <1>4

\* And it is what the fold computes.
LEMMA SumIsStored ==
  ASSUME NEW M \in SUBSET Model, NEW g, Adds(M, g), NEW S \in SUBSET M
  PROVE  Stored(S) = g[S]
<1> DEFINE pick(s) == CHOOSE x \in s : TRUE
           Folds(h) == h = [s \in SUBSET S |-> IF s = {} THEN 0 ELSE Size[pick(s)] + h[s \ {pick(s)}]]
           k == [s \in SUBSET S |-> g[s]]
<1>1. ASSUME NEW s \in SUBSET S, s # {}
      PROVE  /\ pick(s) \in s /\ s \ {pick(s)} \in SUBSET S
             /\ g[s] = Size[pick(s)] + g[s \ {pick(s)}]
  <2>1. pick(s) \in s
    BY <1>1
  <2> DEFINE x == pick(s)
  <2>2. x \in s
    BY <2>1
  <2> HIDE DEF x
  <2>3. s \ {x} \in SUBSET M /\ x \in M \ (s \ {x}) /\ (s \ {x}) \cup {x} = s
    BY <2>2
  <2>4. g[s] = g[s \ {x}] + Size[x] /\ g[s \ {x}] \in Nat
    BY <2>3 DEF Adds
  <2>5. Size[x] \in Nat
    BY <2>3, ConstantsAssumption
  <2>6. g[s] = Size[x] + g[s \ {x}]
    BY <2>4, <2>5
  <2> QED
    BY <2>2, <2>3, <2>6 DEF x
<1>2. Folds(k)
  <2>1. ASSUME NEW s \in SUBSET S
        PROVE  k[s] = IF s = {} THEN 0 ELSE Size[pick(s)] + k[s \ {pick(s)}]
    <3>1. CASE s = {}
      BY <3>1 DEF Adds
    <3>2. CASE s # {}
      <4>1. k[s] = g[s]
        OBVIOUS
      <4>2. k[s \ {pick(s)}] = g[s \ {pick(s)}]
        BY <1>1, <3>2
      <4> HIDE DEF k, pick
      <4> QED
        BY <1>1, <3>2, <4>1, <4>2
    <3> QED
      BY <3>1, <3>2
  <2> QED
    BY <2>1
<1> DEFINE h == CHOOSE x : Folds(x)
<1>3. Folds(h)
  <2> HIDE DEF Folds, k
  <2> QED BY <1>2
<1>4. Stored(S) = h[S]
  BY StoredIs
<1> HIDE DEF h
<1> DEFINE Bad == {s \in SUBSET S : h[s] # g[s]}
<1>5. Bad = {}
  <2> SUFFICES ASSUME Bad # {} PROVE FALSE
    OBVIOUS
  <2>1. \A s \in Bad : IsFiniteSet(s)
    BY ConstantsAssumption, FS_Subset
  <2>2. PICK s \in Bad : \A t \in Bad : ~(Cardinality(t) < Cardinality(s))
    <3> HIDE DEF Bad
    <3> QED BY <2>1, Smallest
  <2>3. s # {}
    BY <1>3 DEF Adds
  <2>4. pick(s) \in s /\ s \ {pick(s)} \in SUBSET S /\ g[s] = Size[pick(s)] + g[s \ {pick(s)}]
    BY <1>1, <2>3
  <2>5. h[s] = Size[pick(s)] + h[s \ {pick(s)}]
    BY <1>3, <2>3
  <2> HIDE DEF pick
  <2>6. Cardinality(s \ {pick(s)}) < Cardinality(s)
    <3>1. Cardinality(s \ {pick(s)}) = Cardinality(s) - 1 /\ Cardinality(s) \in Nat
      BY <2>1, <2>4, FS_RemoveElement, FS_CardinalityType
    <3> QED
      BY <3>1
  <2>7. s \ {pick(s)} \notin Bad
    BY <2>2, <2>6
  <2> QED
    BY <2>4, <2>5, <2>7
<1> QED
  BY <1>4, <1>5

\* Stored sums the sizes, in whatever order the fold takes the models.
LEMMA StoredAdds ==
  ASSUME NEW S \in SUBSET Model
  PROVE  /\ Stored(S) \in Nat
         /\ \A m \in Model \ S : Stored(S \cup {m}) = Stored(S) + Size[m]
<1>1. PICK g : Adds(Model, g)
  BY SumExists
<1>2. \A T \in SUBSET Model : Stored(T) = g[T]
  BY <1>1, SumIsStored
<1> QED
  BY <1>1, <1>2 DEF Adds

-----------------------------------------------------------------------------
InFlight(c) == flight[c].stage # "none"
Probed(c) == flight[c].stage \in {"observed", "acted", "confirmed"}

\* Only a running call waits for a dispatch, and for a pair it still has to handle.
FlightOK ==
  \A c \in Client :
    InFlight(c) => /\ op[c] # "idle"
                   /\ flight[c].pair \in Pair
                   /\ flight[c].pair \in todo[c]

\* A model loaded since before the client came is not the client's to release,
\* nor about to become so.
UntouchedOK ==
  \A c \in Client : \A p \in untouched[c] :
    /\ p \in Held(loaded)
    /\ lease[c][p] # "managed"
    /\ op[c] = "prepare" /\ Probed(c) /\ flight[c].pair = p => flight[c].before

\* Only managed leases, and pairs an operator names, are ever released.
ReleaseOK ==
  \A c \in Client :
    op[c] = "release" /\ InFlight(c) => lease[c][flight[c].pair] \in {"managed", "named"}

\* What the two listings of /api/ps said was so at the time.
WitnessOK ==
  \A c \in Client :
    /\ InFlight(c) => (flight[c].pair \in Held(loaded)) \in witness[c]
    /\ Probed(c) => flight[c].before \in witness[c]
    /\ flight[c].stage = "confirmed" => flight[c].after \in witness[c]

IInv ==
  /\ TypeOK
  /\ FlightOK
  /\ UntouchedOK
  /\ ReleaseOK
  /\ WitnessOK
  /\ ClaimsWitnessed

-----------------------------------------------------------------------------
\* The provider step.

\* Held is the pairs view of what a worker holds.
LEMMA HeldIsPairs ==
  ASSUME NEW l
  PROVE  Held(l) \subseteq Pair
  BY DEF Held

\* A load leaves every worker with a set of models.
LEMMA LoadSets ==
  ASSUME TypeOK, NEW p \in Pair, NEW who, Load(p, who)
  PROVE  \E l \in [Worker -> SUBSET Model] : SetLoaded(l, who)
<1>1. PICK K \in SurvivorsOf(p[1], p[2]) :
        SetLoaded([loaded EXCEPT ![p[1]] = K \cup {p[2]}], who)
  BY DEF Load
<1>2. p[1] \in Worker /\ p[2] \in Model
  BY DEF Pair
<1>3. K \subseteq Model
  BY <1>2 DEF SurvivorsOf, TypeOK
<1>4. [loaded EXCEPT ![p[1]] = K \cup {p[2]}] \in [Worker -> SUBSET Model]
  BY <1>2, <1>3 DEF TypeOK
<1> QED
  BY <1>1, <1>4

\* So does an unload.
LEMMA UnloadSets ==
  ASSUME TypeOK, NEW p \in Pair, NEW who, Unload(p, who)
  PROVE  \E l \in [Worker -> SUBSET Model] : SetLoaded(l, who)
<1>1. [loaded EXCEPT ![p[1]] = @ \ {p[2]}] \in [Worker -> SUBSET Model]
  BY DEF TypeOK, Pair
<1> QED
  BY <1>1 DEF Unload

\* The history of a provider step: types, and how witness and untouched move.
LEMMA SetLoadedHistory ==
  ASSUME TypeOK, NEW l \in [Worker -> SUBSET Model],
         NEW who \in Client \cup {Outsider}, SetLoaded(l, who)
  PROVE  /\ loaded' = l
         /\ witness' \in [Client -> SUBSET BOOLEAN]
         /\ untouched' \in [Client -> SUBSET Pair]
         /\ origin' \in [Pair -> Client \cup {Outsider}]
         /\ owed' \subseteq owed
         /\ unsettled' \subseteq Client \X Pair
         /\ \A c \in Client : untouched'[c] = untouched[c] \cap Held(loaded')
         /\ \A c \in Client : InFlight(c) =>
              witness'[c] = witness[c] \cup {(flight[c].pair \in Held(loaded'))}
<1>1. loaded' = l
  BY DEF SetLoaded
<1>2. witness' \in [Client -> SUBSET BOOLEAN]
  <2>1. \A c \in Client : (flight[c].pair \in Held(l)) \in BOOLEAN
    OBVIOUS
  <2> QED BY <2>1 DEF SetLoaded, TypeOK
<1>3. untouched' \in [Client -> SUBSET Pair]
  BY DEF SetLoaded, TypeOK
<1>4. origin' \in [Pair -> Client \cup {Outsider}]
  BY DEF SetLoaded, TypeOK
<1>5. \A c \in Client : untouched'[c] = untouched[c] \cap Held(loaded')
  BY <1>1 DEF SetLoaded
<1>6. \A c \in Client : InFlight(c) =>
              witness'[c] = witness[c] \cup {(flight[c].pair \in Held(loaded'))}
  BY <1>1 DEF SetLoaded, InFlight
<1>7. owed' \subseteq owed
  BY DEF SetLoaded, Remaining
<1>8. unsettled' \subseteq Client \X Pair
  BY DEF SetLoaded, TypeOK
<1> QED
  BY <1>1, <1>2, <1>3, <1>4, <1>5, <1>6, <1>7, <1>8

\* Refreshing replaces observations by observations.
LEMMA RefreshesTyped ==
  ASSUME TypeOK
  PROVE  Refreshes \subseteq [Worker -> Observation]
<1>1. ASSUME NEW ok PROVE ProbeResults(ok) \in [Worker -> Observation]
  BY DEF TypeOK, Observation, InventoryStatus, ProbeResults
<1>2. obs \in [Worker -> Observation]
  BY DEF TypeOK
<1> QED
  BY <1>1, <1>2 DEF Refreshes

-----------------------------------------------------------------------------
\* The three shapes of step: a record is appended, weights move, a dispatch
\* moves on by itself.

LEMMA EmitStep ==
  ASSUME IInv, NEW c \in Client, NEW p \in Pair, NEW code,
         NEW hold \in LeaseKind,
         Emit(c, p, code, hold),
         obs' \in [Worker -> Observation], orphans' \subseteq Work,
         p \in untouched[c] => hold # "managed",
         code \in LoadClaims => TRUE \in witness[c],
         code \in ReleaseClaims => FALSE \in witness[c]
  PROVE  IInv'
<1> USE DEF Emit
<1>1. TypeOK'
  <2>1. Grounded \in Flight
    BY DEF Grounded, Flight, Stage
  <2>2. flight' \in [Client -> Flight]
    BY <2>1 DEF IInv, TypeOK
  <2>3. lease' \in [Client -> [Pair -> LeaseKind]]
    BY DEF IInv, TypeOK
  <2>4. todo' \in [Client -> SUBSET Pair] /\ witness' \in [Client -> SUBSET BOOLEAN]
    BY DEF IInv, TypeOK
  <2>5. unsettled' \subseteq Client \X Pair
    BY DEF IInv, TypeOK, Settle
  <2> QED BY <2>2, <2>3, <2>4, <2>5 DEF IInv, TypeOK, Work
<1>2. /\ flight'[c].stage = "none"
      /\ \A d \in Client \ {c} : /\ flight'[d] = flight[d]
                                 /\ witness'[d] = witness[d]
                                 /\ lease'[d] = lease[d]
                                 /\ todo'[d] = todo[d]
  BY DEF IInv, TypeOK, Grounded
<1>3. lease'[c][p] = hold /\ \A q \in Pair \ {p} : lease'[c][q] = lease[c][q]
  BY DEF IInv, TypeOK
<1>4. FlightOK'
  BY <1>2 DEF IInv, FlightOK, InFlight
<1>5. UntouchedOK'
  <2> SUFFICES ASSUME NEW d \in Client, NEW q \in untouched[d]
               PROVE  /\ q \in Held(loaded)
                      /\ lease'[d][q] # "managed"
                      /\ op[d] = "prepare" /\ Probed(d)' /\ flight'[d].pair = q
                           => flight'[d].before
    BY DEF UntouchedOK, Held
  <2>1. q \in Pair
    BY DEF IInv, TypeOK
  <2>2. CASE d = c
    BY <2>1, <2>2, <1>2, <1>3 DEF IInv, UntouchedOK, Probed
  <2>3. CASE d # c
    BY <2>3, <1>2 DEF IInv, UntouchedOK, Probed
  <2> QED BY <2>2, <2>3
<1>6. ReleaseOK'
  BY <1>2 DEF IInv, ReleaseOK, InFlight
<1>7. WitnessOK'
  BY <1>2 DEF IInv, WitnessOK, InFlight, Probed, Held
<1>8. ClaimsWitnessed'
  <2>1. report' = {Record(c, p, code)}
    OBVIOUS
  <2>2. Record(c, p, code).code = code /\ Record(c, p, code).seen = witness[c]
    BY DEF Record
  <2> QED BY <2>1, <2>2, Zenon DEF ClaimsWitnessed
<1> QED
  BY <1>1, <1>4, <1>5, <1>6, <1>7, <1>8 DEF IInv

LEMMA WorldStep ==
  ASSUME IInv, NEW l \in [Worker -> SUBSET Model],
         NEW who \in Client \cup {Outsider}, SetLoaded(l, who),
         UNCHANGED <<up, facts, obs, op, todo, snap, lease>>,
         report' = {}, orphans' \subseteq Work,
         flight' \in [Client -> Flight],
         \A c \in Client :
           /\ flight'[c].pair = flight[c].pair
           /\ flight'[c].before = flight[c].before
           /\ InFlight(c)' => InFlight(c)
           /\ Probed(c)' => Probed(c)
           /\ flight'[c].stage = "confirmed" => flight'[c] = flight[c]
  PROVE  IInv'
<1>1. /\ loaded' = l
      /\ witness' \in [Client -> SUBSET BOOLEAN]
      /\ untouched' \in [Client -> SUBSET Pair]
      /\ origin' \in [Pair -> Client \cup {Outsider}]
      /\ owed' \subseteq owed
      /\ unsettled' \subseteq Client \X Pair
      /\ \A c \in Client : untouched'[c] = untouched[c] \cap Held(loaded')
      /\ \A c \in Client : InFlight(c) =>
           witness'[c] = witness[c] \cup {(flight[c].pair \in Held(loaded'))}
  BY SetLoadedHistory DEF IInv
<1>2. TypeOK'
  BY <1>1 DEF IInv, TypeOK, Work
<1>3. FlightOK'
  BY DEF IInv, FlightOK
<1>4. UntouchedOK'
  BY <1>1 DEF IInv, UntouchedOK
<1>5. ReleaseOK'
  BY DEF IInv, ReleaseOK
<1>6. WitnessOK'
  <2> SUFFICES ASSUME NEW c \in Client, InFlight(c)'
               PROVE  /\ (flight'[c].pair \in Held(loaded')) \in witness'[c]
                      /\ Probed(c)' => flight'[c].before \in witness'[c]
                      /\ flight'[c].stage = "confirmed" => flight'[c].after \in witness'[c]
    BY DEF WitnessOK, InFlight, Probed
  <2>1. InFlight(c)
    OBVIOUS
  <2>2. witness'[c] = witness[c] \cup {(flight[c].pair \in Held(loaded'))}
    BY <2>1, <1>1
  <2>3. (flight'[c].pair \in Held(loaded')) \in witness'[c]
    BY <2>2
  <2>4. Probed(c)' => flight'[c].before \in witness'[c]
    BY <2>2 DEF IInv, WitnessOK
  <2>5. flight'[c].stage = "confirmed" => flight'[c].after \in witness'[c]
    BY <2>2 DEF IInv, WitnessOK
  <2> QED BY <2>3, <2>4, <2>5
<1>7. ClaimsWitnessed'
  BY DEF ClaimsWitnessed
<1> QED
  BY <1>2, <1>3, <1>4, <1>5, <1>6, <1>7 DEF IInv

LEMMA FlightStep ==
  ASSUME IInv, NEW c \in Client, InFlight(c),
         NEW f \in Flight, flight' = [flight EXCEPT ![c] = f],
         f.stage # "none", f.pair = flight[c].pair,
         f.stage \in {"observed", "acted", "confirmed"} => f.before \in witness[c],
         f.stage = "confirmed" => f.after \in witness[c],
         f.pair \in Held(loaded) => f.before \/ Probed(c),
         Probed(c) => f.before = flight[c].before,
         report' = {},
         owed' \subseteq Work,
         UNCHANGED <<loaded, witness, untouched, origin, unsettled, up, facts, obs, op, todo,
                     snap, lease, orphans>>
  PROVE  IInv'
<1>1. flight'[c] = f /\ \A d \in Client \ {c} : flight'[d] = flight[d]
  BY DEF IInv, TypeOK
<1>2. TypeOK'
  BY DEF IInv, TypeOK
<1>3. FlightOK'
  BY <1>1 DEF IInv, FlightOK, InFlight
<1>4. UntouchedOK'
  <2> SUFFICES ASSUME NEW d \in Client, NEW q \in untouched[d]
               PROVE  /\ q \in Held(loaded)
                      /\ lease[d][q] # "managed"
                      /\ op[d] = "prepare" /\ Probed(d)' /\ flight'[d].pair = q
                           => flight'[d].before
    BY DEF UntouchedOK, Held
  <2>1. CASE d = c
    BY <2>1, <1>1 DEF IInv, UntouchedOK
  <2>2. CASE d # c
    BY <2>2, <1>1 DEF IInv, UntouchedOK, Probed
  <2> QED BY <2>1, <2>2
<1>5. ReleaseOK'
  BY <1>1 DEF IInv, ReleaseOK, InFlight
<1>6. WitnessOK'
  <2> SUFFICES ASSUME NEW d \in Client
               PROVE  /\ InFlight(d)' => (flight'[d].pair \in Held(loaded)) \in witness[d]
                      /\ Probed(d)' => flight'[d].before \in witness[d]
                      /\ flight'[d].stage = "confirmed" => flight'[d].after \in witness[d]
    BY DEF WitnessOK, Held
  <2>1. CASE d = c
    BY <2>1, <1>1 DEF IInv, WitnessOK, InFlight, Probed
  <2>2. CASE d # c
    BY <2>2, <1>1 DEF IInv, WitnessOK, InFlight, Probed
  <2> QED BY <2>1, <2>2
<1>7. ClaimsWitnessed'
  BY DEF ClaimsWitnessed
<1> QED
  BY <1>2, <1>3, <1>4, <1>5, <1>6, <1>7 DEF IInv

-----------------------------------------------------------------------------
\* The actions, in the order of the component's module.

LEMMA InitIInv == Init => IInv
<1> SUFFICES ASSUME Init PROVE IInv
  OBVIOUS
<1>1. TypeOK
  <2>1. obs \in [Worker -> Observation]
    BY DEF Init, Observation, InventoryStatus
  <2>2. snap \in [Client -> [Worker -> Snapshot]]
    BY DEF Init, NoSnapshot, Snapshot, InventoryStatus
  <2>3. flight \in [Client -> Flight]
    BY DEF Init, Grounded, Flight, Stage
  <2>4. facts \in [Worker -> Int]
    <3>1. ASSUME NEW w \in Worker PROVE Memory[w] - Stored(loaded[w]) \in Int
      <4>1. loaded[w] \in SUBSET Model /\ Memory[w] \in Nat
        BY ConstantsAssumption DEF Init
      <4>2. Stored(loaded[w]) \in Nat
        BY <4>1, StoredAdds
      <4> QED BY <4>1, <4>2
    <3> QED BY <3>1 DEF Init
  <2>5. lease \in [Client -> [Pair -> LeaseKind]]
    BY DEF Init, LeaseKind
  <2> QED BY <2>1, <2>2, <2>3, <2>4, <2>5 DEF Init, TypeOK
<1>2. \A c \in Client : ~InFlight(c) /\ ~Probed(c) /\ flight[c].stage = "none"
  BY DEF Init, Grounded, InFlight, Probed
<1> QED
  BY <1>1, <1>2 DEF IInv, FlightOK, UntouchedOK, ReleaseOK, WitnessOK, ClaimsWitnessed, Init

LEMMA BeginPrepareStep ==
  ASSUME IInv, NEW c \in Client, NEW req \in Request, BeginPrepare(c, req)
  PROVE  IInv'
<1> USE DEF BeginPrepare
<1>1. op[c] = "idle" /\ ~InFlight(c) /\ ~Probed(c)
  BY DEF MayCall, IInv, FlightOK, InFlight, Probed
<1>2. TypeOK'
  <2>1. PICK o \in Refreshes :
           /\ obs' = o
           /\ snap' = [snap EXCEPT ![c] = [w \in Worker |->
                [up |-> up[w], status |-> o[w].status, loaded |-> o[w].loaded,
                 free |-> facts[w]]]]
    OBVIOUS
  <2>2. o \in [Worker -> Observation]
    BY RefreshesTyped DEF IInv
  <2>3. [w \in Worker |-> [up |-> up[w], status |-> o[w].status, loaded |-> o[w].loaded,
                         free |-> facts[w]]]
          \in [Worker -> Snapshot]
    BY <2>2 DEF Observation, Snapshot, IInv, TypeOK
  <2>4. snap' \in [Client -> [Worker -> Snapshot]]
    BY <2>1, <2>3 DEF IInv, TypeOK
  <2>5. req \subseteq Pair
    BY ConstantsAssumption DEF ConstantsAssumption
  <2>6. todo' \in [Client -> SUBSET Pair] /\ untouched' \in [Client -> SUBSET Pair]
    BY <2>5, HeldIsPairs DEF IInv, TypeOK
  <2> QED BY <2>1, <2>2, <2>4, <2>6 DEF IInv, TypeOK
<1>3. \A d \in Client \ {c} : op'[d] = op[d] /\ untouched'[d] = untouched[d]
  BY DEF IInv, TypeOK
<1>4. FlightOK'
  <2>1. \A d \in Client \ {c} : todo'[d] = todo[d]
    BY DEF IInv, TypeOK
  <2> QED BY <2>1, <1>1, <1>3 DEF IInv, FlightOK, InFlight
<1>5. UntouchedOK'
  <2> SUFFICES ASSUME NEW d \in Client, NEW q \in untouched'[d]
               PROVE  /\ q \in Held(loaded)
                      /\ lease[d][q] # "managed"
                      /\ op'[d] = "prepare" /\ Probed(d) /\ flight[d].pair = q
                           => flight[d].before
    BY DEF UntouchedOK, Held, Probed
  <2>1. CASE d = c
    BY <2>1, <1>1 DEF IInv, UntouchedOK, TypeOK
  <2>2. CASE d # c
    BY <2>2, <1>3 DEF IInv, UntouchedOK
  <2> QED BY <2>1, <2>2
<1>6. ReleaseOK'
  BY <1>1, <1>3 DEF IInv, ReleaseOK, InFlight
<1>7. WitnessOK'
  BY DEF IInv, WitnessOK, InFlight, Probed, Held
<1>8. ClaimsWitnessed'
  BY DEF ClaimsWitnessed
<1> QED
  BY <1>2, <1>4, <1>5, <1>6, <1>7, <1>8 DEF IInv

LEMMA RefusePrepareStep ==
  ASSUME IInv, NEW c \in Client, NEW req \in Request, RefusePrepare(c, req)
  PROVE  IInv'
<1> USE DEF RefusePrepare, world
<1>1. \A p, code : Record(c, p, code).code = code
  BY DEF Record
<1>2. \A r \in report' : \/ r.code = "RESIDENCY_PIN_LIMIT_EXCEEDED"
                        \/ r.code = "RESIDENCY_INVENTORY_REFRESH_FAILED"
  <2>1. ASSUME NEW S, report' = {Record(c, p, "RESIDENCY_PIN_LIMIT_EXCEEDED") : p \in S}
        PROVE  \A r \in report' : r.code = "RESIDENCY_PIN_LIMIT_EXCEEDED"
    BY <2>1, <1>1, Zenon
  <2>2. ASSUME report' = {Record(c, p, "RESIDENCY_INVENTORY_REFRESH_FAILED") : p \in req}
        PROVE  \A r \in report' : r.code = "RESIDENCY_INVENTORY_REFRESH_FAILED"
    BY <2>2, <1>1, Zenon
  <2> QED BY <2>1, <2>2
<1>3. ClaimsWitnessed'
  BY <1>2 DEF ClaimsWitnessed, LoadClaims, ReleaseClaims
<1> QED
  BY <1>3 DEF IInv, TypeOK, FlightOK, UntouchedOK, ReleaseOK, WitnessOK, InFlight, Probed, Held

LEMMA BeginReleaseStep ==
  ASSUME IInv, NEW c \in Client, BeginRelease(c)
  PROVE  IInv'
<1> USE DEF BeginRelease, world
<1>1. op[c] = "idle" /\ ~InFlight(c) /\ ~Probed(c)
  BY DEF MayCall, IInv, FlightOK, InFlight, Probed
<1>2. TypeOK'
  BY DEF IInv, TypeOK
<1>3. \A d \in Client \ {c} : op'[d] = op[d] /\ todo'[d] = todo[d]
  BY DEF IInv, TypeOK
<1>4. FlightOK' /\ ReleaseOK'
  BY <1>1, <1>3 DEF IInv, FlightOK, ReleaseOK, InFlight
<1>5. UntouchedOK'
  BY <1>1, <1>3 DEF IInv, UntouchedOK, Probed, Held
<1> QED
  BY <1>2, <1>4, <1>5 DEF IInv, WitnessOK, ClaimsWitnessed, InFlight, Probed, Held

LEMMA RefuseStep ==
  ASSUME IInv, NEW c \in Client, NEW p \in Pair, Refuse(c, p)
  PROVE  IInv'
<1>1. PICK i \in DOMAIN Checks(c, p, snap[c][p[1]]) :
        Emit(c, p, Checks(c, p, snap[c][p[1]])[i].code, lease[c][p])
  BY DEF Refuse
<1>2. Checks(c, p, snap[c][p[1]])[i].code \notin LoadClaims \cup ReleaseClaims
  BY <1>1 DEF Checks, LoadClaims, ReleaseClaims
<1>3. lease[c][p] \in LeaseKind
  BY DEF IInv, TypeOK
<1>4. obs' \in [Worker -> Observation] /\ orphans' \subseteq Work
  BY DEF Refuse, IInv, TypeOK, Work
<1>5. p \in untouched[c] => lease[c][p] # "managed"
  BY DEF IInv, UntouchedOK
<1> QED
  BY <1>1, <1>2, <1>3, <1>4, <1>5, EmitStep

LEMMA LeavePreexistingStep ==
  ASSUME IInv, NEW c \in Client, NEW p \in Pair, LeavePreexisting(c, p)
  PROVE  IInv'
<1>1. obs' \in [Worker -> Observation] /\ orphans' \subseteq Work
  BY DEF LeavePreexisting, IInv, TypeOK, Work
<1>2. Emit(c, p, "RESIDENCY_LEFT_PREEXISTING", "none")
  BY DEF LeavePreexisting
<1>3. "RESIDENCY_LEFT_PREEXISTING" \notin LoadClaims \cup ReleaseClaims /\ "none" \in LeaseKind
  BY DEF LoadClaims, ReleaseClaims, LeaseKind
<1> QED
  BY <1>1, <1>2, <1>3, EmitStep

\* A failed call keeps the lease it had, whichever way it failed.
LEMMA FailedStep ==
  ASSUME IInv, NEW c \in Client, NEW p \in Pair,
         Emit(c, p, FailCode(c), lease[c][p]),
         UNCHANGED obs, orphans' \subseteq Work
  PROVE  IInv'
<1>1. FailCode(c) \notin LoadClaims \cup ReleaseClaims
  BY DEF FailCode, LoadClaims, ReleaseClaims
<1>2. obs' \in [Worker -> Observation] /\ lease[c][p] \in LeaseKind
  BY DEF IInv, TypeOK
<1>3. p \in untouched[c] => lease[c][p] # "managed"
  BY DEF IInv, UntouchedOK
<1> QED
  BY <1>1, <1>2, <1>3, EmitStep

LEMMA DispatchStep ==
  ASSUME IInv, NEW c \in Client, NEW p \in Pair, Dispatch(c, p)
  PROVE  IInv'
<1> USE DEF Dispatch
<1>1. op[c] # "idle" /\ (op[c] = "release" => lease[c][p] \in {"managed", "named"}) /\ p \in todo[c]
  BY DEF Wanted, IsNext, IInv, TypeOK
<1>2. /\ flight'[c] = [stage |-> "sent", pair |-> p, before |-> FALSE, after |-> FALSE]
      /\ witness'[c] = {(p \in Held(loaded))}
      /\ \A d \in Client \ {c} : flight'[d] = flight[d] /\ witness'[d] = witness[d]
  BY DEF IInv, TypeOK
<1>3. /\ flight'[c] \in Flight
      /\ flight'[c].stage = "sent"
      /\ flight'[c].pair = p
  <2>1. [stage |-> "sent", pair |-> p, before |-> FALSE, after |-> FALSE] \in Flight
    BY DEF Flight, Stage
  <2> QED BY <1>2, <2>1
<1>4. TypeOK'
  <2>1. flight' \in [Client -> Flight]
    BY <1>2, <1>3 DEF IInv, TypeOK
  <2>2. (p \in Held(loaded)) \in BOOLEAN
    OBVIOUS
  <2>3. witness' \in [Client -> SUBSET BOOLEAN]
    BY <2>2 DEF IInv, TypeOK
  <2> QED BY <2>1, <2>3 DEF IInv, TypeOK
<1>5. FlightOK' /\ ReleaseOK'
  BY <1>1, <1>2, <1>3 DEF IInv, FlightOK, ReleaseOK, InFlight
<1>6. UntouchedOK'
  BY <1>2, <1>3 DEF IInv, UntouchedOK, Probed, Held
<1>7. WitnessOK'
  <2> SUFFICES ASSUME NEW d \in Client
               PROVE  /\ InFlight(d)' => (flight'[d].pair \in Held(loaded)) \in witness'[d]
                      /\ Probed(d)' => flight'[d].before \in witness'[d]
                      /\ flight'[d].stage = "confirmed" => flight'[d].after \in witness'[d]
    BY DEF WitnessOK, Held
  <2>1. CASE d = c
    <3>1. (flight'[d].pair \in Held(loaded)) \in witness'[d]
      <4>1. flight'[d].pair = p /\ witness'[d] = {(p \in Held(loaded))}
        BY <2>1, <1>2, <1>3
      <4> HIDE DEF Dispatch
      <4>2. ASSUME NEW q, q = p PROVE (q \in Held(loaded)) \in {(p \in Held(loaded))}
        BY <4>2
      <4> QED BY <4>1, <4>2
    <3>2. ~Probed(d)' /\ flight'[d].stage # "confirmed"
      BY <2>1, <1>3 DEF Probed
    <3> QED BY <3>1, <3>2
  <2>2. CASE d # c
    BY <2>2, <1>2 DEF IInv, WitnessOK, InFlight, Probed
  <2> QED BY <2>1, <2>2
<1> QED
  BY <1>4, <1>5, <1>6, <1>7 DEF IInv, ClaimsWitnessed

\* A dispatch moved to another stage, with or without a new listing.
LEMMA FlightMoves ==
  ASSUME NEW f \in Flight, NEW s \in Stage, NEW b \in BOOLEAN
  PROVE  /\ [f EXCEPT !.stage = s] \in Flight
         /\ [f EXCEPT !.stage = s, !.before = b] \in Flight
         /\ [f EXCEPT !.stage = s, !.after = b] \in Flight
  BY DEF Flight

LEMMA DispatchRefusedStep ==
  ASSUME IInv, NEW c \in Client, NEW p \in Pair, DispatchRefused(c, p)
  PROVE  IInv'
<1>1. orphans' \subseteq Work
  BY DEF DispatchRefused, IInv, TypeOK, Work
<1> QED
  BY <1>1, FailedStep DEF DispatchRefused

LEMMA ScriptObserveStep ==
  ASSUME IInv, NEW c \in Client, ScriptObserve(c)
  PROVE  IInv'
<1> DEFINE f == [flight[c] EXCEPT !.stage = "observed",
                                 !.before = flight[c].pair \in Held(loaded)]
<1>1. flight[c] \in Flight /\ flight[c].stage = "sent" /\ InFlight(c) /\ ~Probed(c)
  BY DEF ScriptObserve, IInv, TypeOK, InFlight, Probed
<1>2. f \in Flight /\ f.stage = "observed" /\ f.pair = flight[c].pair
  <2>1. "observed" \in Stage /\ (flight[c].pair \in Held(loaded)) \in BOOLEAN
    BY DEF Stage
  <2>2. f \in Flight
    BY <1>1, <2>1, FlightMoves, Zenon
  <2> QED BY <1>1, <2>2 DEF Flight
<1>3. f.before = (flight[c].pair \in Held(loaded))
  BY <1>1 DEF Flight
<1>4. flight' = [flight EXCEPT ![c] = f]
  BY DEF ScriptObserve
<1>5. f.before \in witness[c]
  BY <1>1, <1>3 DEF IInv, WitnessOK
<1> HIDE DEF f
<1> QED
  BY <1>1, <1>2, <1>3, <1>4, <1>5, FlightStep DEF ScriptObserve, world, IInv, TypeOK

\* A request the provider has answered without moving anything yet.
LEMMA LazyStep ==
  ASSUME IInv, NEW c \in Client, flight[c].stage = "observed", op[c] # "idle",
         flight' = [flight EXCEPT ![c].stage = "acted"], report' = {},
         LazyProvider(c),
         UNCHANGED <<up, facts, obs, op, todo, snap, lease, orphans>>
  PROVE  IInv'
<1> DEFINE f == [flight[c] EXCEPT !.stage = "acted"]
<1>1. flight[c] \in Flight /\ InFlight(c) /\ Probed(c)
  BY DEF IInv, TypeOK, InFlight, Probed
<1>2. f \in Flight /\ f.stage = "acted" /\ f.pair = flight[c].pair /\ f.before = flight[c].before
  BY <1>1 DEF Flight, Stage
<1>3. flight' = [flight EXCEPT ![c] = f]
  OBVIOUS
<1>4. f.before \in witness[c]
  BY <1>1, <1>2 DEF IInv, WitnessOK
<1>5. owed' \subseteq Work
  <2>1. Job(c) \in Work
    BY <1>1 DEF Job, Work, IInv, TypeOK, FlightOK, InFlight
  <2> QED BY <2>1 DEF LazyProvider, Remaining, IInv, TypeOK
<1>6. UNCHANGED <<loaded, witness, untouched, origin, unsettled>>
  BY DEF LazyProvider
<1> HIDE DEF f
<1> QED
  BY <1>1, <1>2, <1>3, <1>4, <1>5, <1>6, FlightStep

\* A request the provider has carried out.
LEMMA ActedStep ==
  ASSUME IInv, NEW c \in Client, flight[c].stage = "observed",
         flight' = [flight EXCEPT ![c].stage = "acted"], report' = {},
         NEW l \in [Worker -> SUBSET Model], SetLoaded(l, c),
         UNCHANGED <<up, facts, obs, op, todo, snap, lease, orphans>>
  PROVE  IInv'
<1>1. flight' \in [Client -> Flight]
  <2>1. [flight[c] EXCEPT !.stage = "acted"] \in Flight
    BY FlightMoves DEF IInv, TypeOK, Stage
  <2> QED BY <2>1 DEF IInv, TypeOK
<1>2. \A d \in Client :
        /\ flight'[d].pair = flight[d].pair
        /\ flight'[d].before = flight[d].before
        /\ InFlight(d)' => InFlight(d)
        /\ Probed(d)' => Probed(d)
        /\ flight'[d].stage = "confirmed" => flight'[d] = flight[d]
  BY DEF IInv, TypeOK, Flight, InFlight, Probed
<1>3. orphans' \subseteq Work
  BY DEF IInv, TypeOK, Work
<1> QED
  BY <1>1, <1>2, <1>3, WorldStep

LEMMA ScriptWarmStep ==
  ASSUME IInv, NEW c \in Client, ScriptWarm(c)
  PROVE  IInv'
<1>1. CASE Load(flight[c].pair, c)
  <2>1. flight[c].pair \in Pair
    BY DEF ScriptWarm, IInv, FlightOK, InFlight
  <2>2. PICK l \in [Worker -> SUBSET Model] : SetLoaded(l, c)
    BY <1>1, <2>1, LoadSets DEF IInv
  <2> QED BY <2>2, ActedStep DEF ScriptWarm
<1>2. CASE LazyProvider(c)
  BY <1>2, LazyStep DEF ScriptWarm
<1> QED
  BY <1>1, <1>2 DEF ScriptWarm

LEMMA ScriptReleaseStep ==
  ASSUME IInv, NEW c \in Client, ScriptRelease(c)
  PROVE  IInv'
<1>1. CASE Unload(flight[c].pair, c)
  <2>1. flight[c].pair \in Pair
    BY DEF ScriptRelease, IInv, FlightOK, InFlight
  <2>2. PICK l \in [Worker -> SUBSET Model] : SetLoaded(l, c)
    BY <1>1, <2>1, UnloadSets DEF IInv
  <2> QED BY <2>2, ActedStep DEF ScriptRelease
<1>2. CASE LazyProvider(c)
  BY <1>2, LazyStep DEF ScriptRelease
<1> QED
  BY <1>1, <1>2 DEF ScriptRelease

LEMMA ScriptSkipStep ==
  ASSUME IInv, NEW c \in Client, ScriptSkip(c)
  PROVE  IInv'
<1> DEFINE f == [flight[c] EXCEPT !.stage = "confirmed", !.after = FALSE]
<1>1. flight[c] \in Flight /\ InFlight(c) /\ Probed(c) /\ flight[c].before = FALSE
  BY DEF ScriptSkip, IInv, TypeOK, Flight, InFlight, Probed
<1>2. /\ f \in Flight /\ f.stage = "confirmed" /\ f.pair = flight[c].pair
      /\ f.before = FALSE /\ f.after = FALSE
  BY <1>1 DEF Flight, Stage
<1>3. flight' = [flight EXCEPT ![c] = f]
  BY DEF ScriptSkip
<1>4. FALSE \in witness[c]
  BY <1>1 DEF IInv, WitnessOK
<1>5. owed' \subseteq Work
  BY DEF ScriptSkip, world, IInv, TypeOK
<1> HIDE DEF f
<1> QED
  BY <1>1, <1>2, <1>3, <1>4, <1>5, FlightStep DEF ScriptSkip, world

LEMMA ScriptConfirmStep ==
  ASSUME IInv, NEW c \in Client, ScriptConfirm(c)
  PROVE  IInv'
<1> DEFINE f == [flight[c] EXCEPT !.stage = "confirmed",
                                 !.after = flight[c].pair \in Held(loaded)]
<1>1. flight[c] \in Flight /\ InFlight(c) /\ Probed(c)
  BY DEF ScriptConfirm, IInv, TypeOK, InFlight, Probed
<1>2. /\ f \in Flight /\ f.stage = "confirmed" /\ f.pair = flight[c].pair
      /\ f.before = flight[c].before
  <2>1. "confirmed" \in Stage /\ (flight[c].pair \in Held(loaded)) \in BOOLEAN
    BY DEF Stage
  <2>2. f \in Flight
    BY <1>1, <2>1, FlightMoves, Zenon
  <2> QED BY <1>1, <2>2 DEF Flight
<1>3. f.after = (flight[c].pair \in Held(loaded))
  BY <1>1 DEF Flight
<1>4. flight' = [flight EXCEPT ![c] = f]
  BY DEF ScriptConfirm
<1>5. f.before \in witness[c] /\ f.after \in witness[c]
  BY <1>1, <1>2, <1>3 DEF IInv, WitnessOK
<1> HIDE DEF f
<1> QED
  BY <1>1, <1>2, <1>4, <1>5, FlightStep DEF ScriptConfirm, world, IInv, TypeOK

LEMMA ReplyStep ==
  ASSUME IInv, NEW c \in Client, Reply(c)
  PROVE  IInv'
<1>1. /\ InFlight(c) /\ Probed(c) /\ flight[c].pair \in Pair
      /\ flight[c].before \in witness[c] /\ flight[c].after \in witness[c]
      /\ flight[c].after = (op[c] = "prepare")
  BY DEF Reply, Verified, IInv, FlightOK, WitnessOK, InFlight, Probed
<1>2. obs' \in [Worker -> Observation] /\ orphans' \subseteq Work
  BY RefreshesTyped DEF Reply, IInv, TypeOK, Work
<1>3. CASE op[c] = "prepare"
  <2> DEFINE code == IF flight[c].before THEN "RESIDENCY_REUSED" ELSE "RESIDENCY_WARMED"
             hold == ManagedLease(lease[c][flight[c].pair], flight[c].before)
  <2>1. Emit(c, flight[c].pair, code, hold)
    BY <1>3 DEF Reply
  <2>2. hold \in LeaseKind
    BY DEF ManagedLease, LeaseKind
  <2>3. flight[c].pair \in untouched[c] => hold # "managed"
    BY <1>1, <1>3 DEF IInv, UntouchedOK, ManagedLease
  <2>4. TRUE \in witness[c] /\ code \notin ReleaseClaims
    BY <1>1, <1>3 DEF ReleaseClaims
  <2> HIDE DEF code, hold
  <2> QED BY <1>1, <1>2, <2>1, <2>2, <2>3, <2>4, EmitStep
<1>4. CASE op[c] = "release"
  <2> DEFINE code == IF flight[c].before THEN "RESIDENCY_RELEASED"
                                        ELSE "RESIDENCY_ALREADY_RELEASED"
  <2>1. Emit(c, flight[c].pair, code, "none")
    BY <1>4 DEF Reply
  <2>2. FALSE \in witness[c] /\ code \notin LoadClaims /\ "none" \in LeaseKind
    BY <1>1, <1>4 DEF LoadClaims, LeaseKind
  <2> HIDE DEF code
  <2> QED BY <1>1, <1>2, <2>1, <2>2, EmitStep
<1> QED
  BY <1>3, <1>4 DEF Reply

LEMMA UnverifiedStep ==
  ASSUME IInv, NEW c \in Client, Unverified(c)
  PROVE  IInv'
<1>1. flight[c].pair \in Pair /\ orphans' \subseteq Work
  BY DEF Unverified, IInv, FlightOK, InFlight, TypeOK, Work
<1> QED
  BY <1>1, FailedStep DEF Unverified

\* An abandoned script is one the client really had sent.
LEMMA LeftBehindTyped ==
  ASSUME IInv, NEW c \in Client
  PROVE  LeftBehind(c) \subseteq SUBSET Work
<1>1. orphans \subseteq Work
  BY DEF IInv, TypeOK, Work
<1>2. flight[c].stage \in {"sent", "observed"} => Job(c) \in Work
  BY DEF IInv, TypeOK, FlightOK, InFlight, Job, Work
<1> QED
  BY <1>1, <1>2 DEF LeftBehind

LEMMA LoseStep ==
  ASSUME IInv, NEW c \in Client, Lose(c)
  PROVE  IInv'
<1>1. flight[c].pair \in Pair
  BY DEF Lose, IInv, FlightOK, InFlight
<1>2. orphans' \subseteq Work
  BY LeftBehindTyped DEF Lose
<1> QED
  BY <1>1, <1>2, FailedStep DEF Lose

LEMMA OrphanActsStep ==
  ASSUME IInv, NEW j \in orphans, OrphanActs(j)
  PROVE  IInv'
<1>1. j \in Work
  BY DEF IInv, TypeOK, Work
<1>2. j.pair \in Pair /\ j.for \in Client \cup {Outsider}
  BY <1>1 DEF Work
<1>3. PICK l \in [Worker -> SUBSET Model] : SetLoaded(l, j.for)
  BY <1>2, LoadSets, UnloadSets DEF OrphanActs, IInv
<1>4. orphans' \subseteq Work /\ flight' \in [Client -> Flight] /\ flight' = flight
  BY DEF OrphanActs, IInv, TypeOK, Work
<1>5. \A c \in Client : (InFlight(c)' => InFlight(c)) /\ (Probed(c)' => Probed(c))
  BY <1>4 DEF InFlight, Probed
<1> QED
  BY <1>2, <1>3, <1>4, <1>5, WorldStep DEF OrphanActs

LEMMA OwedMoveStep ==
  ASSUME IInv, NEW j \in owed, OwedMove(j)
  PROVE  IInv'
<1>1. j.pair \in Pair /\ j.for \in Client \cup {Outsider}
  BY DEF IInv, TypeOK, Work
<1>2. PICK l \in [Worker -> SUBSET Model] : SetLoaded(l, j.for)
  BY <1>1, LoadSets, UnloadSets DEF OwedMove, IInv
<1>3. orphans' \subseteq Work /\ flight' \in [Client -> Flight] /\ flight' = flight
  BY DEF OwedMove, IInv, TypeOK
<1>4. \A c \in Client : (InFlight(c)' => InFlight(c)) /\ (Probed(c)' => Probed(c))
  BY <1>3 DEF InFlight, Probed
<1> QED
  BY <1>1, <1>2, <1>3, <1>4, WorldStep DEF OwedMove

LEMMA FinishStep ==
  ASSUME IInv, NEW c \in Client, Finish(c)
  PROVE  IInv'
<1> USE DEF Finish, world
<1>0. ~InFlight(c)
  BY DEF IInv, FlightOK
<1>1. TypeOK'
  <2>1. NoSnapshot \in [Worker -> Snapshot]
    BY DEF NoSnapshot, Snapshot, InventoryStatus
  <2>2. lease' \in [Client -> [Pair -> LeaseKind]]
    BY DEF IInv, TypeOK, LeaseKind
  <2>3. obs' \in [Worker -> Observation]
    BY RefreshesTyped DEF IInv, TypeOK
  <2> QED BY <2>1, <2>2, <2>3 DEF IInv, TypeOK
<1>2. \A d \in Client \ {c} : op'[d] = op[d] /\ lease'[d] = lease[d]
  BY DEF IInv, TypeOK
<1>3. op'[c] = "idle" /\ \A p \in Pair : lease'[c][p] = "managed" => lease[c][p] = "managed"
  BY DEF IInv, TypeOK
<1>4. FlightOK' /\ ReleaseOK'
  BY <1>0, <1>2, <1>3 DEF IInv, FlightOK, ReleaseOK, InFlight
<1>5. UntouchedOK'
  <2> SUFFICES ASSUME NEW d \in Client, NEW q \in untouched[d]
               PROVE  /\ q \in Held(loaded)
                      /\ lease'[d][q] # "managed"
                      /\ op'[d] = "prepare" /\ Probed(d) /\ flight[d].pair = q
                           => flight[d].before
    BY DEF UntouchedOK, Held, Probed
  <2>1. q \in Pair
    BY DEF IInv, TypeOK
  <2>2. CASE d = c
    BY <2>1, <2>2, <1>3 DEF IInv, UntouchedOK
  <2>3. CASE d # c
    BY <2>3, <1>2 DEF IInv, UntouchedOK
  <2> QED BY <2>2, <2>3
<1> QED
  BY <1>1, <1>4, <1>5 DEF IInv, WitnessOK, ClaimsWitnessed, InFlight, Probed, Held

LEMMA OperatorReleaseStep ==
  ASSUME IInv, NEW c \in Client, NEW p \in Pair, OperatorRelease(c, p)
  PROVE  IInv'
<1> USE DEF OperatorRelease
<1>1. op[c] = "idle" /\ ~InFlight(c) /\ ~Probed(c)
  BY DEF MayCall, IInv, FlightOK, InFlight, Probed
<1>2. TypeOK'
  <2>1. lease' \in [Client -> [Pair -> LeaseKind]]
    BY DEF IInv, TypeOK, LeaseKind
  <2>2. obs' \in [Worker -> Observation]
    BY RefreshesTyped DEF IInv
  <2>3. untouched' \in [Client -> SUBSET Pair]
    BY DEF IInv, TypeOK
  <2> QED BY <2>1, <2>2, <2>3 DEF IInv, TypeOK
<1>3. \A d \in Client \ {c} : /\ op'[d] = op[d] /\ lease'[d] = lease[d]
                           /\ todo'[d] = todo[d] /\ untouched'[d] = untouched[d]
  BY DEF IInv, TypeOK
<1>4. /\ op'[c] = "release" /\ untouched'[c] \subseteq {p} \cap Held(loaded)
      /\ lease'[c][p] = "named"
  BY DEF IInv, TypeOK
<1>5. FlightOK' /\ ReleaseOK'
  BY <1>1, <1>3 DEF IInv, FlightOK, ReleaseOK, InFlight
<1>6. UntouchedOK'
  <2> SUFFICES ASSUME NEW d \in Client, NEW q \in untouched'[d]
               PROVE  /\ q \in Held(loaded)
                      /\ lease'[d][q] # "managed"
                      /\ op'[d] = "prepare" /\ Probed(d) /\ flight[d].pair = q
                           => flight[d].before
    BY DEF UntouchedOK, Held, Probed
  <2>1. CASE d = c
    BY <2>1, <1>4
  <2>2. CASE d # c
    BY <2>2, <1>3 DEF IInv, UntouchedOK
  <2> QED BY <2>1, <2>2
<1> QED
  BY <1>2, <1>5, <1>6 DEF IInv, WitnessOK, ClaimsWitnessed, InFlight, Probed, Held

LEMMA CallerDiesStep ==
  ASSUME IInv, NEW c \in Client, CallerDies(c)
  PROVE  IInv'
<1> USE DEF CallerDies
<1>1. TypeOK'
  <2>1. NoSnapshot \in [Worker -> Snapshot]
    BY DEF NoSnapshot, Snapshot, InventoryStatus
  <2>2. orphans' \subseteq Work
    BY LeftBehindTyped
  <2>3. flight' \in [Client -> Flight]
    BY DEF IInv, TypeOK, Grounded, Flight, Stage
  <2>4. lease' \in [Client -> [Pair -> LeaseKind]]
    BY DEF IInv, TypeOK, LeaseKind
  <2>5. unsettled' \subseteq Client \X Pair
    BY DEF IInv, TypeOK
  <2> QED BY <2>1, <2>2, <2>3, <2>4, <2>5 DEF IInv, TypeOK, Work
<1>2. \A d \in Client \ {c} : /\ op'[d] = op[d] /\ flight'[d] = flight[d]
                           /\ lease'[d] = lease[d] /\ witness'[d] = witness[d]
                           /\ todo'[d] = todo[d]
  BY DEF IInv, TypeOK
<1>3. flight'[c].stage = "none" /\ \A p \in Pair : lease'[c][p] = "none"
  BY DEF IInv, TypeOK, Grounded
<1>4. FlightOK' /\ ReleaseOK'
  BY <1>2, <1>3 DEF IInv, FlightOK, ReleaseOK, InFlight
<1>5. UntouchedOK'
  <2> SUFFICES ASSUME NEW d \in Client, NEW q \in untouched[d]
               PROVE  /\ q \in Held(loaded)
                      /\ lease'[d][q] # "managed"
                      /\ op'[d] = "prepare" /\ Probed(d)' /\ flight'[d].pair = q
                           => flight'[d].before
    BY DEF UntouchedOK, Held
  <2>1. q \in Pair
    BY DEF IInv, TypeOK
  <2>2. CASE d = c
    BY <2>1, <2>2, <1>3 DEF IInv, UntouchedOK, Probed
  <2>3. CASE d # c
    BY <2>3, <1>2 DEF IInv, UntouchedOK, Probed
  <2> QED BY <2>2, <2>3
<1>6. WitnessOK'
  BY <1>2, <1>3 DEF IInv, WitnessOK, InFlight, Probed, Held
<1> QED
  BY <1>1, <1>4, <1>5, <1>6 DEF IInv, ClaimsWitnessed

LEMMA OutsideStep ==
  ASSUME IInv, NEW p \in Pair, OutsideLoad(p) \/ OutsideUnload(p)
  PROVE  IInv'
<1>1. PICK l \in [Worker -> SUBSET Model] : SetLoaded(l, Outsider)
  BY LoadSets, UnloadSets DEF OutsideLoad, OutsideUnload, IInv
<1>2. /\ report' = {} /\ flight' = flight /\ flight' \in [Client -> Flight]
      /\ orphans' \subseteq Work
      /\ UNCHANGED <<up, facts, obs, op, todo, snap, lease>>
  BY DEF OutsideLoad, OutsideUnload, IInv, TypeOK, Work
<1>3. \A c \in Client : (InFlight(c)' => InFlight(c)) /\ (Probed(c)' => Probed(c))
  BY <1>2 DEF InFlight, Probed
<1> QED
  BY <1>1, <1>2, <1>3, WorldStep

LEMMA FleetChangeStep ==
  ASSUME IInv, NEW w \in Worker, FleetChange(w)
  PROVE  IInv'
<1> USE DEF FleetChange, world
<1>1. up' \in [Worker -> BOOLEAN] /\ obs' \in [Worker -> Observation]
  <2>1. ASSUME NEW s \in InventoryStatus
        PROVE  [obs EXCEPT ![w].status = s] \in [Worker -> Observation]
    <3>1. [obs[w] EXCEPT !.status = s] \in Observation
      <4>1. obs[w] \in Observation
        BY DEF IInv, TypeOK
      <4> HIDE DEF FleetChange
      <4> QED BY <4>1 DEF Observation
    <3> QED BY <3>1 DEF IInv, TypeOK
  <2>2. CASE up' = [up EXCEPT ![w] = ~@] /\ UNCHANGED obs
    <3>1. ASSUME NEW b \in BOOLEAN PROVE [up EXCEPT ![w] = b] \in [Worker -> BOOLEAN]
      BY DEF IInv, TypeOK
    <3>2. (~up[w]) \in BOOLEAN
      OBVIOUS
    <3>3. up' \in [Worker -> BOOLEAN]
      BY <2>2, <3>1, <3>2, Zenon
    <3>4. obs \in [Worker -> Observation] /\ obs' = obs
      BY <2>2 DEF IInv, TypeOK
    <3> HIDE DEF FleetChange
    <3> QED BY <3>3, <3>4, Zenon
  <2>3. CASE UNCHANGED up /\ \E s \in {"AGED", "STALE"} : obs' = [obs EXCEPT ![w].status = s]
    <3>1. PICK s \in {"AGED", "STALE"} : obs' = [obs EXCEPT ![w].status = s]
      BY <2>3
    <3>2. obs' \in [Worker -> Observation]
      BY <2>1, <3>1 DEF InventoryStatus
    <3>3. up \in [Worker -> BOOLEAN] /\ up' = up
      BY <2>3 DEF IInv, TypeOK
    <3> HIDE DEF FleetChange
    <3> QED BY <3>2, <3>3, Zenon
  <2> QED BY <2>2, <2>3
<1>2. UNCHANGED <<loaded, facts, op, todo, snap, flight, lease, orphans, owed, witness,
                  untouched, origin, unsettled>>
      /\ report' = {}
  OBVIOUS
<1> HIDE DEF FleetChange
<1> QED
  BY <1>1, <1>2 DEF IInv, TypeOK, FlightOK, UntouchedOK, ReleaseOK, WitnessOK, ClaimsWitnessed,
              InFlight, Probed, Held

LEMMA ReportResourcesStep ==
  ASSUME IInv, NEW w \in Worker, ReportResources(w)
  PROVE  IInv'
<1>1. UNCHANGED <<world, up, obs, op, todo, snap, flight, lease, orphans>> /\ report' = {}
  BY DEF ReportResources
<1>2. facts' \in [Worker -> Int]
  <2>1. PICK n \in {0, Memory[w] - Stored(loaded[w])} : facts' = [facts EXCEPT ![w] = n]
    BY DEF ReportResources
  <2>2. n \in Int
    BY StoredAdds, ConstantsAssumption DEF IInv, TypeOK
  <2> QED BY <2>1, <2>2 DEF IInv, TypeOK
<1>3. TypeOK'
  BY <1>1, <1>2 DEF IInv, TypeOK, world
<1> QED
  BY <1>1, <1>3 DEF IInv, FlightOK, UntouchedOK, ReleaseOK, WitnessOK, ClaimsWitnessed,
              InFlight, Probed, Held, world

\* Nothing a property reads changes in a stuttering step.
LEMMA StutterStep ==
  ASSUME IInv, UNCHANGED vars
  PROVE  IInv'
<1> USE DEF vars, IInv
<1>1. TypeOK'
  BY DEF TypeOK
<1>2. FlightOK' /\ UntouchedOK' /\ ReleaseOK'
  BY DEF FlightOK, UntouchedOK, ReleaseOK, InFlight, Probed, Held
<1>3. WitnessOK' /\ ClaimsWitnessed'
  BY DEF WitnessOK, ClaimsWitnessed, InFlight, Probed, Held
<1> QED
  BY <1>1, <1>2, <1>3

-----------------------------------------------------------------------------
\* The invariant is inductive.
LEMMA NextIInv == IInv /\ [Next]_vars => IInv'
<1> SUFFICES ASSUME IInv, [Next]_vars PROVE IInv'
  OBVIOUS
<1>1. ASSUME NEW c \in Client, NEW req \in Request, BeginPrepare(c, req) PROVE IInv'
  BY <1>1, BeginPrepareStep
<1>2. ASSUME NEW c \in Client, NEW req \in Request, RefusePrepare(c, req) PROVE IInv'
  BY <1>2, RefusePrepareStep
<1>3. ASSUME NEW c \in Client, BeginRelease(c) PROVE IInv'
  BY <1>3, BeginReleaseStep
<1>4. ASSUME NEW c \in Client, NEW p \in Pair, Refuse(c, p) PROVE IInv'
  BY <1>4, RefuseStep
<1>5. ASSUME NEW c \in Client, NEW p \in Pair, LeavePreexisting(c, p) PROVE IInv'
  BY <1>5, LeavePreexistingStep
<1>6. ASSUME NEW c \in Client, NEW p \in Pair, Dispatch(c, p) PROVE IInv'
  BY <1>6, DispatchStep
<1>7. ASSUME NEW c \in Client, NEW p \in Pair, DispatchRefused(c, p) PROVE IInv'
  BY <1>7, DispatchRefusedStep
<1>8. ASSUME NEW c \in Client, ScriptObserve(c) PROVE IInv'
  BY <1>8, ScriptObserveStep
<1>9. ASSUME NEW c \in Client, ScriptWarm(c) PROVE IInv'
  BY <1>9, ScriptWarmStep
<1>10. ASSUME NEW c \in Client, ScriptRelease(c) PROVE IInv'
  BY <1>10, ScriptReleaseStep
<1>11. ASSUME NEW c \in Client, ScriptSkip(c) PROVE IInv'
  BY <1>11, ScriptSkipStep
<1>12. ASSUME NEW c \in Client, ScriptConfirm(c) PROVE IInv'
  BY <1>12, ScriptConfirmStep
<1>13. ASSUME NEW c \in Client, Reply(c) PROVE IInv'
  BY <1>13, ReplyStep
<1>14. ASSUME NEW c \in Client, Unverified(c) PROVE IInv'
  BY <1>14, UnverifiedStep
<1>15. ASSUME NEW c \in Client, Lose(c) PROVE IInv'
  BY <1>15, LoseStep
<1>16. ASSUME NEW c \in Client, Finish(c) PROVE IInv'
  BY <1>16, FinishStep
<1>17. ASSUME NEW c \in Client, CallerDies(c) PROVE IInv'
  BY <1>17, CallerDiesStep
<1>18. ASSUME NEW j \in orphans, OrphanActs(j) PROVE IInv'
  BY <1>18, OrphanActsStep
<1>19. ASSUME NEW p \in Pair, OutsideLoad(p) \/ OutsideUnload(p) PROVE IInv'
  BY <1>19, OutsideStep
<1>20. ASSUME NEW w \in Worker, FleetChange(w) PROVE IInv'
  BY <1>20, FleetChangeStep
<1>21. ASSUME UNCHANGED vars PROVE IInv'
  BY <1>21, StutterStep
<1>22. ASSUME NEW c \in Client, NEW p \in Pair, OperatorRelease(c, p) PROVE IInv'
  BY <1>22, OperatorReleaseStep
<1>23. ASSUME NEW j \in owed, OwedMove(j) PROVE IInv'
  BY <1>23, OwedMoveStep
<1>24. ASSUME NEW w \in Worker, ReportResources(w) PROVE IInv'
  BY <1>24, ReportResourcesStep
<1>25. ASSUME NEW c \in Client, CallerStep(c) PROVE IInv'
  BY <1>4, <1>5, <1>6, <1>7, <1>13, <1>14, <1>15, <1>16, <1>25 DEF CallerStep
<1>26. ASSUME NEW c \in Client, ScriptStep(c) PROVE IInv'
  BY <1>8, <1>9, <1>10, <1>11, <1>12, <1>26 DEF ScriptStep
<1>27. ASSUME NEW c \in Client, Begin(c) PROVE IInv'
  BY <1>1, <1>2, <1>3, <1>22, <1>27 DEF Begin
<1>28. ASSUME Environment PROVE IInv'
  BY <1>18, <1>19, <1>20, <1>23, <1>24, <1>28 DEF Environment
<1> QED
  BY <1>17, <1>21, <1>25, <1>26, <1>27, <1>28 DEF Next

LEMMA Invariant == Spec => []IInv
<1> QED
  BY InitIInv, NextIInv, PTL DEF Spec

\* Every reachable state is well typed, in any fleet and under any fault.
THEOREM TypeCorrect == Spec => []TypeOK
<1>1. IInv => TypeOK
  BY DEF IInv
<1> QED
  BY <1>1, Invariant, PTL

\* Teardown leaves pre-existing models loaded: no client ever has a release on
\* its way for a model that was there before it came and never left
\* (prepare_experiment's managed flag, release_experiment's first test).
THEOREM PreexistingSafe == Spec => []PreexistingLeftLoaded
<1>1. IInv => PreexistingLeftLoaded
  BY DEF IInv, PreexistingLeftLoaded, UntouchedOK, ReleaseOK, InFlight
<1> QED
  BY <1>1, Invariant, PTL

\* A PASS record of a warm or a release was true of the provider while the call
\* was running (the two /api/ps listings and the verification of the second).
THEOREM ClaimsTrue == Spec => []ClaimsWitnessed
<1>1. IInv => ClaimsWitnessed
  BY DEF IInv
<1> QED
  BY <1>1, Invariant, PTL


-----------------------------------------------------------------------------
(***************************************************************************)
(* Nothing is left behind silently.  Beside the weights that are there,    *)
(* the invariant follows those that are on their way: the jobs of          *)
(* abandoned scripts, the moves the provider still owes, and what a script *)
(* in flight concluded from its listings.                                  *)
(***************************************************************************)
\* c's prepare has asked for p, which it found absent.
Warming(c, p) ==
  /\ op[c] = "prepare"
  /\ flight[c].pair = p
  /\ ~flight[c].before
  /\ flight[c].stage \in {"acted", "confirmed"}

\* The request was sent and no listing since has shown the model.
Unseen(c) ==
  \/ flight[c].stage = "acted"
  \/ flight[c].stage = "confirmed" /\ ~flight[c].after

\* A listing of c's script showed the model absent.
Absent(c) ==
  \/ Probed(c) /\ ~flight[c].before
  \/ flight[c].stage = "confirmed" /\ ~flight[c].after

CoveredOK ==
  \A c \in Client : \A p \in Held(loaded) :
    origin[p] = c => lease[c][p] = "managed" \/ <<c, p>> \in unsettled \/ Warming(c, p)

CountedOK ==
  \A c \in Client : \A p \in Pair :
    CountsOn(c, p) => p \in Held(loaded) \/ <<c, p>> \in unsettled

GoneOK ==
  \A c \in Client : \A p \in Pair :
    op[c] = "release" /\ flight[c].pair = p /\ Absent(c)
      => p \notin Held(loaded) \/ origin[p] # c \/ <<c, p>> \in unsettled

OrphansOK ==
  \A j \in orphans : j.action = "prepare" => <<j.for, j.pair>> \in unsettled

OwedOK ==
  \A j \in owed : j.action = "prepare" =>
    /\ j.pair \notin Held(loaded)
    /\ <<j.for, j.pair>> \in unsettled \/ (Warming(j.for, j.pair) /\ Unseen(j.for))

LeftOK == CoveredOK /\ CountedOK /\ GoneOK /\ OrphansOK /\ OwedOK

\* A record that is appended: a failure puts its pair in doubt, any other
\* record needs the pair to be covered by what the caller holds afterwards.
LEMMA LeftEmit ==
  ASSUME IInv, LeftOK, NEW c \in Client, NEW p \in Pair, NEW code, NEW hold,
         Emit(c, p, code, hold),
         InFlight(c) => flight[c].pair = p,
         \A j \in orphans' : j \in orphans
                             \/ (j.for = c /\ j.pair = p /\ code \in Failures),
         code \notin Failures /\ p \in Held(loaded) /\ origin[p] = c /\ <<c, p>> \notin unsettled
           => hold = "managed",
         code \notin Failures => ~(InFlight(c) /\ op[c] = "prepare" /\ Unseen(c))
  PROVE  LeftOK'
<1>1. /\ loaded' = loaded /\ origin' = origin /\ owed' = owed /\ op' = op
      /\ Held(loaded)' = Held(loaded)
  BY DEF Emit, Held
<1>2. /\ flight'[c].stage = "none"
      /\ \A d \in Client \ {c} : flight'[d] = flight[d] /\ lease'[d] = lease[d]
      /\ lease'[c][p] = hold
      /\ \A q \in Pair \ {p} : lease'[c][q] = lease[c][q]
  BY DEF Emit, IInv, TypeOK, Grounded
<1>3. ASSUME NEW d \in Client, NEW q \in Pair, d # c \/ q # p
      PROVE  <<d, q>> \in unsettled' <=> <<d, q>> \in unsettled
  BY <1>3 DEF Emit, Settle
<1>4. code \in Failures => <<c, p>> \in unsettled'
  BY DEF Emit, Settle
<1>5. Pending(c, p) /\ <<c, p>> \in unsettled => <<c, p>> \in unsettled'
  BY DEF Emit, Settle
<1>6. <<c, p>> \in unsettled /\ p \in Held(loaded) => <<c, p>> \in unsettled' \/ hold = "managed"
  BY DEF Emit, Settle
<1>7. \A j \in orphans \cup owed :
         <<j.for, j.pair>> \in unsettled => <<j.for, j.pair>> \in unsettled'
  <2> SUFFICES ASSUME NEW j \in orphans \cup owed, <<j.for, j.pair>> \in unsettled
               PROVE  <<j.for, j.pair>> \in unsettled'
    OBVIOUS
  <2>1. j.for \in Client /\ j.pair \in Pair
    BY DEF IInv, TypeOK, Work
  <2>2. CASE j.for = c /\ j.pair = p
    BY <2>2, <1>5 DEF Pending
  <2>3. CASE j.for # c \/ j.pair # p
    BY <2>1, <2>3, <1>3
  <2> QED BY <2>2, <2>3
<1>8. ASSUME NEW d \in Client, NEW q \in Pair
      PROVE  /\ d # c => (Warming(d, q)' <=> Warming(d, q))
             /\ CountsOn(d, q)' => d # c /\ CountsOn(d, q)
  BY <1>1, <1>2 DEF Warming, CountsOn
<1>9. ASSUME NEW d \in Client, d # c
      PROVE  (Absent(d)' <=> Absent(d)) /\ (Unseen(d)' <=> Unseen(d))
  BY <1>2, <1>9 DEF Absent, Unseen, Probed
<1>10. CoveredOK'
  <2> SUFFICES ASSUME NEW d \in Client, NEW q \in Held(loaded), origin[q] = d
               PROVE  lease'[d][q] = "managed" \/ <<d, q>> \in unsettled' \/ Warming(d, q)'
    BY <1>1 DEF CoveredOK
  <2>1. q \in Pair
    BY HeldIsPairs
  <2>2. lease[d][q] = "managed" \/ <<d, q>> \in unsettled \/ Warming(d, q)
    BY DEF LeftOK, CoveredOK
  <2>3. CASE d # c
    <3>1. /\ lease'[d] = lease[d]
          /\ <<d, q>> \in unsettled' <=> <<d, q>> \in unsettled
          /\ Warming(d, q)' <=> Warming(d, q)
      BY <2>1, <2>3, <1>2, <1>3, <1>8
    <3> QED BY <2>2, <3>1
  <2>4. CASE d = c /\ q # p
    <3>1. ~Warming(d, q)
      BY <2>4 DEF Warming, InFlight
    <3> QED BY <2>1, <2>2, <2>4, <3>1, <1>2, <1>3
  <2>5. CASE d = c /\ q = p
    BY <2>5, <1>2, <1>4, <1>6
  <2> QED BY <2>3, <2>4, <2>5
<1>11. CountedOK'
  <2> SUFFICES ASSUME NEW d \in Client, NEW q \in Pair, CountsOn(d, q)'
               PROVE  q \in Held(loaded) \/ <<d, q>> \in unsettled'
    BY <1>1 DEF CountedOK
  <2>1. d # c /\ CountsOn(d, q)
    BY <1>8
  <2>2. <<d, q>> \in unsettled' <=> <<d, q>> \in unsettled
    BY <2>1, <1>3
  <2>3. q \in Held(loaded) \/ <<d, q>> \in unsettled
    BY <2>1 DEF LeftOK, CountedOK
  <2> QED BY <2>2, <2>3
<1>12. GoneOK'
  <2> SUFFICES ASSUME NEW d \in Client, NEW q \in Pair,
                      op[d] = "release", flight'[d].pair = q, Absent(d)'
               PROVE  q \notin Held(loaded) \/ origin[q] # d \/ <<d, q>> \in unsettled'
    BY <1>1 DEF GoneOK
  <2>1. d # c
    BY <1>2 DEF Absent, Probed
  <2>2. Absent(d) /\ flight[d].pair = q
    BY <2>1, <1>2, <1>9
  <2> QED BY <2>1, <2>2, <1>3 DEF LeftOK, GoneOK
<1>13. OrphansOK'
  <2> SUFFICES ASSUME NEW j \in orphans', j.action = "prepare"
               PROVE  <<j.for, j.pair>> \in unsettled'
    BY DEF OrphansOK
  <2> QED BY <1>4, <1>7 DEF LeftOK, OrphansOK
<1>14. OwedOK'
  <2> SUFFICES ASSUME NEW j \in owed, j.action = "prepare"
               PROVE  /\ j.pair \notin Held(loaded)
                      /\ \/ <<j.for, j.pair>> \in unsettled'
                         \/ Warming(j.for, j.pair)' /\ Unseen(j.for)'
    BY <1>1 DEF OwedOK
  <2>1. j.for \in Client /\ j.pair \in Pair
    BY DEF IInv, TypeOK, Work
  <2>2. /\ j.pair \notin Held(loaded)
        /\ <<j.for, j.pair>> \in unsettled \/ (Warming(j.for, j.pair) /\ Unseen(j.for))
    BY DEF LeftOK, OwedOK
  <2>3. CASE <<j.for, j.pair>> \in unsettled
    BY <2>2, <2>3, <1>7
  <2>4. CASE Warming(j.for, j.pair) /\ Unseen(j.for) /\ j.for # c
    <3>1. Warming(j.for, j.pair)'
      BY <2>1, <2>4, <1>8
    <3>2. Unseen(j.for)'
      BY <2>1, <2>4, <1>9
    <3> QED BY <2>2, <3>1, <3>2
  <2>5. CASE Warming(j.for, j.pair) /\ Unseen(j.for) /\ j.for = c
    <3>1. InFlight(c) /\ op[c] = "prepare" /\ Unseen(c) /\ j.pair = p
      BY <2>5 DEF Warming, InFlight
    <3> QED BY <2>2, <2>5, <3>1, <1>4
  <2> QED BY <2>2, <2>3, <2>4, <2>5
<1> QED
  BY <1>10, <1>11, <1>12, <1>13, <1>14 DEF LeftOK

\* Weights that move: what appears was asked for by a script that waits for it
\* or is in doubt already, what disappears under a prepare is put in doubt.
LEMMA LeftWorld ==
  ASSUME IInv, LeftOK, NEW l \in [Worker -> SUBSET Model], NEW who, SetLoaded(l, who),
         UNCHANGED <<op, lease>>, orphans' \subseteq orphans,
         \A d \in Client : /\ flight'[d].pair = flight[d].pair
                           /\ flight'[d].before = flight[d].before
                           /\ flight'[d].after = flight[d].after
                           /\ \/ flight'[d].stage = flight[d].stage
                              \/ flight[d].stage = "observed" /\ flight'[d].stage = "acted",
         \A q \in Held(l) \ Held(loaded) :
           who \in Client => <<who, q>> \in unsettled \/ Warming(who, q)'
  PROVE  LeftOK'
<1>1. /\ Held(loaded)' = Held(l)
      /\ \A q \in Held(l) : origin'[q] = IF q \in Held(loaded) THEN origin[q] ELSE who
      /\ owed' = Remaining(owed, l)
      /\ unsettled \subseteq unsettled'
  BY HeldIsPairs DEF SetLoaded, Held
<1>2. ASSUME NEW d \in Client, NEW q \in Held(loaded) \ Held(l), CountsOn(d, q)
      PROVE  <<d, q>> \in unsettled'
  <2>1. q \in Pair
    BY HeldIsPairs
  <2> QED BY <1>2, <2>1 DEF SetLoaded
<1>3. ASSUME NEW d \in Client, NEW q \in Pair
      PROVE  /\ Warming(d, q) => Warming(d, q)'
             /\ CountsOn(d, q)' => CountsOn(d, q)
  BY DEF Warming, CountsOn
<1>9. ASSUME NEW d \in Client
      PROVE  /\ Absent(d)' => Absent(d)
             /\ Unseen(d) => Unseen(d)'
  BY DEF Absent, Unseen, Probed
<1>4. CoveredOK'
  <2> SUFFICES ASSUME NEW d \in Client, NEW q \in Held(l), origin'[q] = d
               PROVE  lease[d][q] = "managed" \/ <<d, q>> \in unsettled' \/ Warming(d, q)'
    BY <1>1 DEF CoveredOK
  <2>1. CASE q \in Held(loaded)
    <3>1. q \in Pair /\ origin[q] = d
      BY <2>1, <1>1, HeldIsPairs
    <3>2. lease[d][q] = "managed" \/ <<d, q>> \in unsettled \/ Warming(d, q)
      BY <2>1, <3>1 DEF LeftOK, CoveredOK
    <3>3. Warming(d, q) => Warming(d, q)'
      BY <3>1, <1>3
    <3> QED BY <3>2, <3>3, <1>1
  <2>2. CASE q \notin Held(loaded)
    BY <2>2, <1>1
  <2> QED BY <2>1, <2>2
<1>5. CountedOK'
  <2> SUFFICES ASSUME NEW d \in Client, NEW q \in Pair, CountsOn(d, q)', q \notin Held(l)
               PROVE  <<d, q>> \in unsettled'
    BY <1>1 DEF CountedOK
  <2>1. CountsOn(d, q)
    <3>1. CountsOn(d, q)' => CountsOn(d, q)
      BY <1>3
    <3> QED BY <3>1
  <2>2. q \in Held(loaded) \/ <<d, q>> \in unsettled
    BY <2>1 DEF LeftOK, CountedOK
  <2> QED BY <2>1, <2>2, <1>1, <1>2
<1>6. GoneOK'
  <2> SUFFICES ASSUME NEW d \in Client, NEW q \in Pair,
                      op[d] = "release", flight[d].pair = q, Absent(d)',
                      q \in Held(l), origin'[q] = d
               PROVE  <<d, q>> \in unsettled'
    BY <1>1 DEF GoneOK
  <2>1. CASE q \in Held(loaded)
    <3>1. Absent(d) /\ origin[q] = d
      BY <2>1, <1>1, <1>9
    <3> QED BY <2>1, <3>1, <1>1 DEF LeftOK, GoneOK
  <2>2. CASE q \notin Held(loaded)
    <3>1. who = d
      BY <2>2, <1>1
    <3>2. ~Warming(who, q)'
      BY <3>1 DEF Warming
    <3> QED BY <2>2, <3>1, <3>2, <1>1
  <2> QED BY <2>1, <2>2
<1>7. OrphansOK'
  BY <1>1 DEF LeftOK, OrphansOK
<1>8. OwedOK'
  <2> SUFFICES ASSUME NEW j \in Remaining(owed, l), j.action = "prepare"
               PROVE  /\ j.pair \notin Held(l)
                      /\ \/ <<j.for, j.pair>> \in unsettled'
                         \/ Warming(j.for, j.pair)' /\ Unseen(j.for)'
    BY <1>1 DEF OwedOK
  <2>1. j \in owed /\ j.pair \notin Held(l)
    BY DEF Remaining
  <2>2. j.for \in Client /\ j.pair \in Pair
    BY <2>1 DEF IInv, TypeOK, Work
  <2>3. <<j.for, j.pair>> \in unsettled \/ (Warming(j.for, j.pair) /\ Unseen(j.for))
    BY <2>1 DEF LeftOK, OwedOK
  <2>4. Warming(j.for, j.pair) => Warming(j.for, j.pair)'
    BY <2>2, <1>3
  <2>5. Unseen(j.for) => Unseen(j.for)'
    BY <2>2, <1>9
  <2> QED BY <2>1, <2>3, <2>4, <2>5, <1>1
<1> QED
  BY <1>4, <1>5, <1>6, <1>7, <1>8 DEF LeftOK

\* A dispatch that starts or moves on, while the weights stay where they are.
LEMMA LeftFlight ==
  ASSUME IInv, LeftOK, NEW c \in Client, NEW f \in Flight,
         flight' = [flight EXCEPT ![c] = f],
         UNCHANGED <<loaded, origin, unsettled, op, lease, orphans>>,
         \A q \in Pair : Warming(c, q) => Warming(c, q)',
         \A q \in Pair : CountsOn(c, q)' => q \in Held(loaded) \/ <<c, q>> \in unsettled,
         \A q \in Pair : op[c] = "release" /\ f.pair = q /\ Absent(c)' /\ q \in Held(loaded)
                           => flight[c].pair = q /\ Absent(c),
         \A j \in owed' : j.action = "prepare" =>
            \/ j \in owed /\ (j.for = c /\ Warming(c, j.pair) /\ Unseen(c) => Unseen(c)')
            \/ /\ j.for = c /\ j.pair \in Pair \ Held(loaded)
               /\ <<c, j.pair>> \in unsettled \/ (Warming(c, j.pair)' /\ Unseen(c)')
  PROVE  LeftOK'
<1>1. flight'[c] = f /\ \A d \in Client \ {c} : flight'[d] = flight[d]
  BY DEF IInv, TypeOK
<1>2. Held(loaded)' = Held(loaded)
  BY DEF Held
<1>3. ASSUME NEW d \in Client, NEW q \in Pair
      PROVE  /\ Warming(d, q) => Warming(d, q)'
             /\ d # c => (CountsOn(d, q)' <=> CountsOn(d, q))
  <2>1. CASE d = c
    BY <2>1
  <2>2. CASE d # c
    BY <2>2, <1>1 DEF Warming, CountsOn
  <2> QED BY <2>1, <2>2
<1>4. ASSUME NEW d \in Client, d # c
      PROVE  (Absent(d)' <=> Absent(d)) /\ (Unseen(d)' <=> Unseen(d))
  BY <1>1, <1>4 DEF Absent, Unseen, Probed
<1>5. CoveredOK'
  <2> SUFFICES ASSUME NEW d \in Client, NEW q \in Held(loaded), origin[q] = d
               PROVE  lease[d][q] = "managed" \/ <<d, q>> \in unsettled \/ Warming(d, q)'
    BY <1>2 DEF CoveredOK
  <2>1. lease[d][q] = "managed" \/ <<d, q>> \in unsettled \/ Warming(d, q)
    BY DEF LeftOK, CoveredOK
  <2>2. Warming(d, q) => Warming(d, q)'
    BY <1>3, HeldIsPairs
  <2> QED BY <2>1, <2>2
<1>6. CountedOK'
  <2> SUFFICES ASSUME NEW d \in Client, NEW q \in Pair, CountsOn(d, q)'
               PROVE  q \in Held(loaded) \/ <<d, q>> \in unsettled
    BY <1>2 DEF CountedOK
  <2>1. CASE d = c
    BY <2>1
  <2>2. CASE d # c
    <3>1. CountsOn(d, q)' <=> CountsOn(d, q)
      BY <2>2, <1>3
    <3> QED BY <3>1 DEF LeftOK, CountedOK
  <2> QED BY <2>1, <2>2
<1>7. GoneOK'
  <2> SUFFICES ASSUME NEW d \in Client, NEW q \in Pair,
                      op[d] = "release", flight'[d].pair = q, Absent(d)', q \in Held(loaded)
               PROVE  origin[q] # d \/ <<d, q>> \in unsettled
    BY <1>2 DEF GoneOK
  <2>1. flight[d].pair = q /\ Absent(d)
    <3>1. CASE d = c
      BY <3>1, <1>1
    <3>2. CASE d # c
      BY <3>2, <1>1, <1>4
    <3> QED BY <3>1, <3>2
  <2> QED BY <2>1 DEF LeftOK, GoneOK
<1>8. OrphansOK'
  BY DEF LeftOK, OrphansOK
<1>9. OwedOK'
  <2> SUFFICES ASSUME NEW j \in owed', j.action = "prepare"
               PROVE  /\ j.pair \notin Held(loaded)
                      /\ \/ <<j.for, j.pair>> \in unsettled
                         \/ Warming(j.for, j.pair)' /\ Unseen(j.for)'
    BY <1>2 DEF OwedOK
  <2>1. CASE j \in owed /\ (j.for = c /\ Warming(c, j.pair) /\ Unseen(c) => Unseen(c)')
    <3>1. j.for \in Client /\ j.pair \in Pair
      BY <2>1 DEF IInv, TypeOK, Work
    <3>2. /\ j.pair \notin Held(loaded)
          /\ <<j.for, j.pair>> \in unsettled \/ (Warming(j.for, j.pair) /\ Unseen(j.for))
      BY <2>1 DEF LeftOK, OwedOK
    <3>3. Warming(j.for, j.pair) => Warming(j.for, j.pair)'
      BY <3>1, <1>3
    <3>4. CASE j.for = c
      BY <2>1, <3>2, <3>3, <3>4
    <3>5. CASE j.for # c
      <4>1. Unseen(j.for)' <=> Unseen(j.for)
        BY <3>1, <3>5, <1>4
      <4> QED BY <3>2, <3>3, <4>1
    <3> QED BY <3>4, <3>5
  <2>2. CASE /\ j.for = c /\ j.pair \in Pair \ Held(loaded)
             /\ <<c, j.pair>> \in unsettled \/ (Warming(c, j.pair)' /\ Unseen(c)')
    BY <2>2
  <2> QED BY <2>1, <2>2
<1> QED
  BY <1>5, <1>6, <1>7, <1>8, <1>9 DEF LeftOK

\* A step that touches neither weights nor dispatches, and takes no managed
\* lease away.
LEMMA LeftFrame ==
  ASSUME IInv, LeftOK,
         UNCHANGED <<loaded, origin, unsettled, owed, orphans, flight>>,
         \A d \in Client : InFlight(d) => op'[d] = op[d],
         \A d \in Client : \A q \in Pair : lease[d][q] = "managed" => lease'[d][q] = "managed"
  PROVE  LeftOK'
<1>1. Held(loaded)' = Held(loaded)
  BY DEF Held
<1>2. ASSUME NEW d \in Client, NEW q \in Pair
      PROVE  /\ Warming(d, q) => Warming(d, q)'
             /\ CountsOn(d, q)' => CountsOn(d, q)
             /\ op'[d] = "release" /\ Absent(d)' => op[d] = "release" /\ Absent(d)
             /\ Unseen(d) => Unseen(d)'
  BY DEF Warming, CountsOn, Absent, Unseen, Probed, InFlight
<1>3. CoveredOK'
  <2> SUFFICES ASSUME NEW d \in Client, NEW q \in Held(loaded), origin[q] = d
               PROVE  lease'[d][q] = "managed" \/ <<d, q>> \in unsettled \/ Warming(d, q)'
    BY <1>1 DEF CoveredOK
  <2>1. q \in Pair
    BY HeldIsPairs
  <2>2. lease[d][q] = "managed" \/ <<d, q>> \in unsettled \/ Warming(d, q)
    BY DEF LeftOK, CoveredOK
  <2> QED BY <2>1, <2>2, <1>2
<1>4. CountedOK'
  <2> SUFFICES ASSUME NEW d \in Client, NEW q \in Pair, CountsOn(d, q)'
               PROVE  q \in Held(loaded) \/ <<d, q>> \in unsettled
    BY <1>1 DEF CountedOK
  <2>1. CountsOn(d, q)
    BY <1>2
  <2> QED BY <2>1 DEF LeftOK, CountedOK
<1>5. GoneOK'
  <2> SUFFICES ASSUME NEW d \in Client, NEW q \in Pair,
                      op'[d] = "release", flight[d].pair = q, Absent(d)'
               PROVE  q \notin Held(loaded) \/ origin[q] # d \/ <<d, q>> \in unsettled
    BY <1>1 DEF GoneOK
  <2>1. op[d] = "release" /\ Absent(d)
    BY <1>2
  <2> QED BY <2>1 DEF LeftOK, GoneOK
<1>6. OwedOK'
  <2> SUFFICES ASSUME NEW j \in owed, j.action = "prepare"
               PROVE  /\ j.pair \notin Held(loaded)
                      /\ \/ <<j.for, j.pair>> \in unsettled
                         \/ Warming(j.for, j.pair)' /\ Unseen(j.for)'
    BY <1>1 DEF OwedOK
  <2>1. j.for \in Client /\ j.pair \in Pair
    BY DEF IInv, TypeOK, Work
  <2>2. /\ j.pair \notin Held(loaded)
        /\ <<j.for, j.pair>> \in unsettled \/ (Warming(j.for, j.pair) /\ Unseen(j.for))
    BY DEF LeftOK, OwedOK
  <2>3. Warming(j.for, j.pair) => Warming(j.for, j.pair)'
    BY <2>1, <1>2
  <2>4. Unseen(j.for) => Unseen(j.for)'
    BY <2>1, <1>2
  <2> QED BY <2>2, <2>3, <2>4
<1> QED
  BY <1>3, <1>4, <1>5, <1>6 DEF LeftOK, OrphansOK

LEMMA InitLeft == Init => LeftOK
<1> SUFFICES ASSUME Init PROVE LeftOK
  OBVIOUS
<1>1. CoveredOK
  BY ConstantsAssumption DEF Init, CoveredOK, Held
<1>2. \A c \in Client : flight[c].stage = "none"
  BY DEF Init, Grounded
<1>3. CountedOK /\ GoneOK
  BY <1>2 DEF CountedOK, GoneOK, CountsOn, Absent, Probed
<1> QED
  BY <1>1, <1>3 DEF Init, LeftOK, OrphansOK, OwedOK

\* Only what was there, and what was asked for, is there after a load.
LEMMA LoadBrings ==
  ASSUME TypeOK, NEW p \in Pair, NEW who, Load(p, who)
  PROVE  \E l \in [Worker -> SUBSET Model] :
            SetLoaded(l, who) /\ Held(l) \ Held(loaded) \subseteq {p}
<1>1. PICK K \in SurvivorsOf(p[1], p[2]) :
        SetLoaded([loaded EXCEPT ![p[1]] = K \cup {p[2]}], who)
  BY DEF Load
<1> DEFINE l == [loaded EXCEPT ![p[1]] = K \cup {p[2]}]
<1>2. p[1] \in Worker /\ p[2] \in Model /\ p = <<p[1], p[2]>>
  BY DEF Pair
<1>3. K \subseteq loaded[p[1]] /\ K \subseteq Model
  BY <1>2 DEF SurvivorsOf, TypeOK
<1>4. l \in [Worker -> SUBSET Model]
  BY <1>2, <1>3 DEF TypeOK
<1>5. ASSUME NEW q \in Held(l), q \notin Held(loaded) PROVE q = p
  <2>1. q \in Pair /\ q[2] \in l[q[1]] /\ q[2] \notin loaded[q[1]]
    BY <1>5 DEF Held
  <2>2. q[1] \in Worker /\ q = <<q[1], q[2]>>
    BY <2>1 DEF Pair
  <2>3. q[1] = p[1]
    BY <2>1, <2>2 DEF TypeOK
  <2>4. q[2] \in K \cup {p[2]}
    BY <2>1, <2>2, <2>3 DEF TypeOK
  <2> QED BY <1>2, <1>3, <2>1, <2>2, <2>3, <2>4
<1> HIDE DEF l
<1> QED
  BY <1>1, <1>4, <1>5 DEF l

\* Nothing new is there after an unload.
LEMMA UnloadBrings ==
  ASSUME TypeOK, NEW p \in Pair, NEW who, Unload(p, who)
  PROVE  \E l \in [Worker -> SUBSET Model] :
            SetLoaded(l, who) /\ Held(l) \ Held(loaded) = {}
<1> DEFINE l == [loaded EXCEPT ![p[1]] = @ \ {p[2]}]
<1>1. l \in [Worker -> SUBSET Model] /\ SetLoaded(l, who)
  BY DEF TypeOK, Pair, Unload
<1>2. ASSUME NEW q \in Held(l) PROVE q \in Held(loaded)
  <2>1. q \in Pair /\ q[2] \in l[q[1]] /\ q[1] \in Worker
    BY <1>2 DEF Held, Pair
  <2>2. l[q[1]] \subseteq loaded[q[1]]
    BY <2>1 DEF TypeOK
  <2> QED BY <2>1, <2>2 DEF Held
<1> HIDE DEF l
<1> QED
  BY <1>1, <1>2


\* The records, one action at a time.
LEMMA LeftRefused ==
  ASSUME IInv, LeftOK, NEW c \in Client, NEW p \in Pair,
         Refuse(c, p) \/ LeavePreexisting(c, p) \/ DispatchRefused(c, p)
  PROVE  LeftOK'
<1>1. ~InFlight(c) /\ orphans' = orphans
  BY DEF Refuse, LeavePreexisting, DispatchRefused, Wanted, IsNext, InFlight
<1>2. p \in Held(loaded) /\ origin[p] = c /\ <<c, p>> \notin unsettled => lease[c][p] = "managed"
  BY <1>1 DEF LeftOK, CoveredOK, Warming, InFlight
<1>3. CASE Refuse(c, p)
  <2>1. PICK i \in DOMAIN Checks(c, p, snap[c][p[1]]) :
          Emit(c, p, Checks(c, p, snap[c][p[1]])[i].code, lease[c][p])
    BY <1>3 DEF Refuse
  <2> QED BY <2>1, <1>1, <1>2, LeftEmit
<1>4. CASE LeavePreexisting(c, p)
  <2>1. Emit(c, p, "RESIDENCY_LEFT_PREEXISTING", "none") /\ lease[c][p] = "unmanaged"
    BY <1>4 DEF LeavePreexisting
  <2> QED BY <2>1, <1>1, <1>2, LeftEmit
<1>5. CASE DispatchRefused(c, p)
  <2>1. Emit(c, p, FailCode(c), lease[c][p])
    BY <1>5 DEF DispatchRefused
  <2> QED BY <2>1, <1>1, <1>2, LeftEmit
<1> QED
  BY <1>3, <1>4, <1>5

\* A verified reply: the weights a warm brought are its own, those a release
\* saw gone are gone or in doubt.
LEMMA LeftReply ==
  ASSUME IInv, LeftOK, NEW c \in Client, Reply(c)
  PROVE  LeftOK'
<1> DEFINE p == flight[c].pair
<1>1. /\ InFlight(c) /\ Probed(c) /\ p \in Pair /\ orphans' = orphans
      /\ flight[c].stage = "confirmed"
      /\ flight[c].after = (op[c] = "prepare")
  BY DEF Reply, Verified, IInv, FlightOK, InFlight, Probed
<1>2. p \in Held(loaded) /\ origin[p] = c
        => lease[c][p] = "managed" \/ <<c, p>> \in unsettled \/ Warming(c, p)
  BY DEF LeftOK, CoveredOK
<1>3. CASE op[c] = "prepare"
  <2> DEFINE code == IF flight[c].before THEN "RESIDENCY_REUSED" ELSE "RESIDENCY_WARMED"
             hold == ManagedLease(lease[c][p], flight[c].before)
  <2>1. Emit(c, p, code, hold)
    BY <1>3 DEF Reply
  <2>2. p \in Held(loaded) /\ origin[p] = c /\ <<c, p>> \notin unsettled => hold = "managed"
    BY <1>2 DEF Warming, ManagedLease
  <2>3. ~Unseen(c)
    BY <1>1, <1>3 DEF Unseen
  <2> HIDE DEF code, hold, p
  <2> QED BY <1>1, <2>1, <2>2, <2>3, LeftEmit DEF p
<1>4. CASE op[c] = "release"
  <2> DEFINE code == IF flight[c].before THEN "RESIDENCY_RELEASED"
                                        ELSE "RESIDENCY_ALREADY_RELEASED"
  <2>1. Emit(c, p, code, "none")
    BY <1>4 DEF Reply
  <2>2. Absent(c)
    BY <1>1, <1>4 DEF Absent
  <2>3. ~(p \in Held(loaded) /\ origin[p] = c /\ <<c, p>> \notin unsettled)
    BY <1>1, <1>4, <2>2 DEF LeftOK, GoneOK
  <2> HIDE DEF code, p
  <2> QED BY <1>1, <1>4, <2>1, <2>3, LeftEmit DEF p
<1> QED
  BY <1>3, <1>4 DEF Reply

LEMMA LeftFailed ==
  ASSUME IInv, LeftOK, NEW c \in Client, Unverified(c) \/ Lose(c)
  PROVE  LeftOK'
<1>1. InFlight(c) /\ flight[c].pair \in Pair
  BY DEF Unverified, Lose, IInv, FlightOK, InFlight
<1>2. Emit(c, flight[c].pair, FailCode(c), lease[c][flight[c].pair])
  BY DEF Unverified, Lose
<1>3. FailCode(c) \in Failures
  BY DEF FailCode, Failures
<1>4. \A j \in orphans' : j \in orphans \/ (j.for = c /\ j.pair = flight[c].pair)
  BY DEF Unverified, Lose, LeftBehind, Job
<1> QED
  BY <1>1, <1>2, <1>3, <1>4, LeftEmit

LEMMA LeftDispatch ==
  ASSUME IInv, LeftOK, NEW c \in Client, NEW p \in Pair, Dispatch(c, p)
  PROVE  LeftOK'
<1> DEFINE f == [stage |-> "sent", pair |-> p, before |-> FALSE, after |-> FALSE]
<1>1. f \in Flight /\ f.stage = "sent"
  BY DEF Flight, Stage
<1>2. flight' = [flight EXCEPT ![c] = f] /\ flight[c].stage = "none"
  BY DEF Dispatch, Wanted, IsNext
<1>3. flight'[c] = f
  BY <1>2 DEF IInv, TypeOK
<1>4. UNCHANGED <<loaded, origin, unsettled, op, lease, orphans, owed>>
  BY DEF Dispatch
<1> HIDE DEF f
<1>5. ~Absent(c)'
  BY <1>1, <1>3 DEF Absent, Probed
<1>6. ~Unseen(c)
  BY <1>2 DEF Unseen
<1>7. \A q \in Pair : ~Warming(c, q) /\ ~CountsOn(c, q)'
  BY <1>1, <1>2, <1>3 DEF Warming, CountsOn
<1> QED
  BY <1>1, <1>2, <1>4, <1>5, <1>6, <1>7, LeftFlight

LEMMA LeftObserve ==
  ASSUME IInv, LeftOK, NEW c \in Client, ScriptObserve(c)
  PROVE  LeftOK'
<1> DEFINE f == [flight[c] EXCEPT !.stage = "observed",
                                 !.before = flight[c].pair \in Held(loaded)]
<1>1. flight[c] \in Flight /\ flight[c].stage = "sent"
  BY DEF ScriptObserve, IInv, TypeOK
<1>2. f \in Flight /\ f.stage = "observed" /\ f.pair = flight[c].pair
  <2>1. "observed" \in Stage /\ (flight[c].pair \in Held(loaded)) \in BOOLEAN
    BY DEF Stage
  <2>2. f \in Flight
    BY <1>1, <2>1, FlightMoves, Zenon
  <2> QED BY <1>1, <2>2 DEF Flight
<1>3. f.before = (flight[c].pair \in Held(loaded))
  BY <1>1 DEF Flight
<1>4. flight' = [flight EXCEPT ![c] = f]
  BY DEF ScriptObserve
<1>5. flight'[c] = f
  BY <1>4 DEF IInv, TypeOK
<1>6. UNCHANGED <<loaded, origin, unsettled, op, lease, orphans, owed>>
  BY DEF ScriptObserve, world
<1> HIDE DEF f
<1>7. ~Unseen(c)
  BY <1>1 DEF Unseen
<1>8. \A q \in Pair : ~Warming(c, q)
  BY <1>1 DEF Warming
<1>9. ASSUME NEW q \in Pair, CountsOn(c, q)' PROVE q \in Held(loaded)
  BY <1>9, <1>2, <1>3, <1>5 DEF CountsOn
<1>10. ASSUME NEW q \in Pair, f.pair = q, Absent(c)' PROVE q \notin Held(loaded)
  BY <1>10, <1>2, <1>3, <1>5 DEF Absent, Probed
<1> QED
  BY <1>2, <1>4, <1>6, <1>7, <1>8, <1>9, <1>10, LeftFlight

LEMMA LeftSkip ==
  ASSUME IInv, LeftOK, NEW c \in Client, ScriptSkip(c)
  PROVE  LeftOK'
<1> DEFINE f == [flight[c] EXCEPT !.stage = "confirmed", !.after = FALSE]
<1>1. /\ flight[c] \in Flight /\ flight[c].stage = "observed"
      /\ flight[c].before = FALSE /\ op[c] = "release"
  BY DEF ScriptSkip, IInv, TypeOK, Flight
<1>2. f \in Flight /\ f.stage = "confirmed" /\ f.pair = flight[c].pair
  BY <1>1 DEF Flight, Stage
<1>3. flight' = [flight EXCEPT ![c] = f]
  BY DEF ScriptSkip
<1>4. flight'[c] = f
  BY <1>3 DEF IInv, TypeOK
<1>5. UNCHANGED <<loaded, origin, unsettled, op, lease, orphans, owed>>
  BY DEF ScriptSkip, world
<1> HIDE DEF f
<1>6. ~Unseen(c)
  BY <1>1 DEF Unseen
<1>7. Absent(c)
  BY <1>1 DEF Absent, Probed
<1>8. \A q \in Pair : ~Warming(c, q)
  BY <1>1 DEF Warming
<1>9. \A q \in Pair : ~CountsOn(c, q)'
  BY <1>1, <1>5 DEF CountsOn
<1>10. \A q \in Pair : f.pair = q => flight[c].pair = q /\ Absent(c)
  BY <1>2, <1>7
<1> QED
  BY <1>2, <1>3, <1>5, <1>6, <1>8, <1>9, <1>10, LeftFlight

LEMMA LeftConfirm ==
  ASSUME IInv, LeftOK, NEW c \in Client, ScriptConfirm(c)
  PROVE  LeftOK'
<1> DEFINE f == [flight[c] EXCEPT !.stage = "confirmed",
                                 !.after = flight[c].pair \in Held(loaded)]
<1>1. flight[c] \in Flight /\ flight[c].stage = "acted"
  BY DEF ScriptConfirm, IInv, TypeOK
<1>2. /\ f \in Flight /\ f.stage = "confirmed" /\ f.pair = flight[c].pair
      /\ f.before = flight[c].before
  <2>1. "confirmed" \in Stage /\ (flight[c].pair \in Held(loaded)) \in BOOLEAN
    BY DEF Stage
  <2>2. f \in Flight
    BY <1>1, <2>1, FlightMoves, Zenon
  <2> QED BY <1>1, <2>2 DEF Flight
<1>3. f.after = (flight[c].pair \in Held(loaded))
  BY <1>1 DEF Flight
<1>4. flight' = [flight EXCEPT ![c] = f]
  BY DEF ScriptConfirm
<1>5. flight'[c] = f
  BY <1>4 DEF IInv, TypeOK
<1>6. UNCHANGED <<loaded, origin, unsettled, op, lease, orphans, owed>>
  BY DEF ScriptConfirm, world
<1> HIDE DEF f
<1>7. \A q \in Pair : (Warming(c, q) => Warming(c, q)') /\ ~CountsOn(c, q)'
  BY <1>1, <1>2, <1>5, <1>6 DEF Warming, CountsOn
<1>8. ASSUME NEW q \in Pair, f.pair = q, Absent(c)', q \in Held(loaded)
      PROVE  flight[c].pair = q /\ Absent(c)
  <2>1. f.after = TRUE
    BY <1>2, <1>3, <1>8
  <2>2. ~flight[c].before
    BY <1>2, <1>5, <1>8, <2>1 DEF Absent
  <2> QED BY <1>1, <1>2, <1>8, <2>2 DEF Absent, Probed
<1>9. ASSUME NEW j \in owed, j.action = "prepare", j.for = c, Warming(c, j.pair)
      PROVE  Unseen(c)'
  <2>1. j.pair \notin Held(loaded) /\ flight[c].pair = j.pair
    BY <1>9 DEF LeftOK, OwedOK, Warming
  <2>2. ~f.after
    BY <1>3, <2>1
  <2> QED BY <1>2, <1>5, <2>2 DEF Unseen
<1> QED
  BY <1>2, <1>4, <1>6, <1>7, <1>8, <1>9, LeftFlight


\* The provider answered and owes the move: of a load only if the model is not
\* there, and then it is wanted by the script or in doubt.
LEMMA LeftLazy ==
  ASSUME IInv, LeftOK, NEW c \in Client, LazyProvider(c),
         flight[c].stage = "observed", op[c] # "idle",
         op[c] = "release" => flight[c].before,
         flight' = [flight EXCEPT ![c].stage = "acted"],
         UNCHANGED <<op, lease, orphans>>
  PROVE  LeftOK'
<1> DEFINE f == [flight[c] EXCEPT !.stage = "acted"]
<1>1. flight[c] \in Flight /\ flight[c].pair \in Pair
  BY DEF IInv, TypeOK, FlightOK, InFlight
<1>2. f \in Flight /\ f.stage = "acted" /\ f.pair = flight[c].pair /\ f.before = flight[c].before
  BY <1>1 DEF Flight, Stage
<1>3. flight' = [flight EXCEPT ![c] = f] /\ flight'[c] = f
  BY DEF IInv, TypeOK
<1>4. UNCHANGED <<loaded, origin, unsettled>>
  BY DEF LazyProvider
<1> HIDE DEF f
<1>5. ~Unseen(c) /\ Unseen(c)'
  BY <1>2, <1>3 DEF Unseen
<1>6. \A q \in Pair : ~Warming(c, q)
  BY DEF Warming
<1>7. \A q \in Pair : ~CountsOn(c, q)'
  BY <1>2, <1>3 DEF CountsOn
<1>8. op[c] = "release" => ~Absent(c)'
  BY <1>2, <1>3 DEF Absent, Probed
<1>9. ASSUME NEW j \in owed', j.action = "prepare", j \notin owed
      PROVE  /\ j.for = c /\ j.pair \in Pair \ Held(loaded)
             /\ <<c, j.pair>> \in unsettled \/ (Warming(c, j.pair)' /\ Unseen(c)')
  <2>1. j = Job(c) /\ j.pair \notin Held(loaded)
    BY <1>9 DEF LazyProvider, Remaining
  <2>2. j.for = c /\ j.pair = flight[c].pair /\ op[c] = "prepare"
    BY <1>9, <2>1 DEF Job
  <2>3. CASE flight[c].before
    <3>1. CountsOn(c, j.pair)
      BY <2>2, <2>3 DEF CountsOn
    <3>2. <<c, j.pair>> \in unsettled
      BY <1>1, <2>1, <2>2, <3>1 DEF LeftOK, CountedOK
    <3> QED BY <1>1, <2>1, <2>2, <3>2
  <2>4. CASE ~flight[c].before
    <3>1. Warming(c, j.pair)'
      BY <1>2, <1>3, <2>2, <2>4 DEF Warming
    <3> QED BY <1>1, <1>5, <2>1, <2>2, <3>1
  <2> QED BY <2>3, <2>4
<1> QED
  BY <1>2, <1>3, <1>4, <1>5, <1>6, <1>7, <1>8, <1>9, LeftFlight

LEMMA LeftWarm ==
  ASSUME IInv, LeftOK, NEW c \in Client, ScriptWarm(c)
  PROVE  LeftOK'
<1> DEFINE p == flight[c].pair
<1>1. /\ p \in Pair /\ flight[c].stage = "observed" /\ op[c] = "prepare"
      /\ flight' = [flight EXCEPT ![c].stage = "acted"]
      /\ UNCHANGED <<op, lease, orphans>>
  BY DEF ScriptWarm, IInv, FlightOK, InFlight
<1>2. CASE Load(p, c)
  <2>1. PICK l \in [Worker -> SUBSET Model] :
          SetLoaded(l, c) /\ Held(l) \ Held(loaded) \subseteq {p}
    BY <1>1, <1>2, LoadBrings DEF IInv
  <2>2. \A d \in Client : /\ flight'[d].pair = flight[d].pair
                          /\ flight'[d].before = flight[d].before
                          /\ flight'[d].after = flight[d].after
                          /\ \/ flight'[d].stage = flight[d].stage
                             \/ flight[d].stage = "observed" /\ flight'[d].stage = "acted"
    BY <1>1 DEF IInv, TypeOK, Flight
  <2>3. ASSUME NEW q \in Held(l) \ Held(loaded)
        PROVE  <<c, q>> \in unsettled \/ Warming(c, q)'
    <3>1. q = p
      BY <2>1
    <3>2. CASE flight[c].before
      <4>1. CountsOn(c, q)
        BY <1>1, <3>1, <3>2 DEF CountsOn
      <4> QED BY <1>1, <3>1, <4>1 DEF LeftOK, CountedOK
    <3>3. CASE ~flight[c].before
      <4>1. flight'[c].stage = "acted"
        BY <1>1 DEF IInv, TypeOK, Flight
      <4> QED BY <1>1, <2>2, <3>1, <3>3, <4>1 DEF Warming
    <3> QED BY <3>2, <3>3
  <2> QED BY <1>1, <2>1, <2>2, <2>3, LeftWorld
<1>3. CASE LazyProvider(c)
  BY <1>1, <1>3, LeftLazy
<1> QED
  BY <1>2, <1>3 DEF ScriptWarm

LEMMA LeftRelease ==
  ASSUME IInv, LeftOK, NEW c \in Client, ScriptRelease(c)
  PROVE  LeftOK'
<1> DEFINE p == flight[c].pair
<1>1. /\ p \in Pair /\ flight[c].stage = "observed" /\ op[c] = "release" /\ flight[c].before
      /\ flight' = [flight EXCEPT ![c].stage = "acted"]
      /\ UNCHANGED <<op, lease, orphans>>
  BY DEF ScriptRelease, IInv, FlightOK, InFlight
<1>2. CASE Unload(p, c)
  <2>1. PICK l \in [Worker -> SUBSET Model] : SetLoaded(l, c) /\ Held(l) \ Held(loaded) = {}
    BY <1>1, <1>2, UnloadBrings DEF IInv
  <2>2. \A d \in Client : /\ flight'[d].pair = flight[d].pair
                          /\ flight'[d].before = flight[d].before
                          /\ flight'[d].after = flight[d].after
                          /\ \/ flight'[d].stage = flight[d].stage
                             \/ flight[d].stage = "observed" /\ flight'[d].stage = "acted"
    BY <1>1 DEF IInv, TypeOK, Flight
  <2> QED BY <1>1, <2>1, <2>2, LeftWorld
<1>3. CASE LazyProvider(c)
  BY <1>1, <1>3, LeftLazy
<1> QED
  BY <1>2, <1>3 DEF ScriptRelease

\* Moves nobody waits for: the abandoned and the owed.
LEMMA LeftLate ==
  ASSUME IInv, LeftOK, NEW j \in orphans \cup owed,
         IF j.action = "prepare" THEN Load(j.pair, j.for) ELSE Unload(j.pair, j.for),
         UNCHANGED <<op, lease, flight>>, orphans' \subseteq orphans
  PROVE  LeftOK'
<1>1. j.pair \in Pair /\ j.for \in Client
  BY DEF IInv, TypeOK, Work
<1>2. CASE j.action = "prepare"
  <2>1. PICK l \in [Worker -> SUBSET Model] :
          SetLoaded(l, j.for) /\ Held(l) \ Held(loaded) \subseteq {j.pair}
    BY <1>1, <1>2, LoadBrings DEF IInv
  <2>2. <<j.for, j.pair>> \in unsettled \/ Warming(j.for, j.pair)
    BY <1>2 DEF LeftOK, OrphansOK, OwedOK
  <2>3. Warming(j.for, j.pair) => Warming(j.for, j.pair)'
    BY DEF Warming
  <2>4. ASSUME NEW q \in Held(l) \ Held(loaded)
        PROVE  <<j.for, q>> \in unsettled \/ Warming(j.for, q)'
    <3>1. q = j.pair
      BY <2>1
    <3>2. <<j.for, j.pair>> \in unsettled \/ Warming(j.for, j.pair)'
      BY <2>2, <2>3
    <3>3. Warming(j.for, j.pair)' => Warming(j.for, q)'
      BY <3>1 DEF Warming
    <3> QED BY <3>1, <3>2, <3>3
  <2> QED BY <1>1, <2>1, <2>4, LeftWorld
<1>3. CASE j.action # "prepare"
  <2>1. PICK l \in [Worker -> SUBSET Model] : SetLoaded(l, j.for) /\ Held(l) \ Held(loaded) = {}
    BY <1>1, <1>3, UnloadBrings DEF IInv
  <2> QED BY <2>1, LeftWorld
<1> QED
  BY <1>2, <1>3

LEMMA LeftOutside ==
  ASSUME IInv, LeftOK, NEW p \in Pair, OutsideLoad(p) \/ OutsideUnload(p)
  PROVE  LeftOK'
<1>1. UNCHANGED <<op, lease, flight, orphans>>
  BY DEF OutsideLoad, OutsideUnload
<1>2. PICK l \in [Worker -> SUBSET Model] : SetLoaded(l, Outsider)
  BY LoadBrings, UnloadBrings DEF OutsideLoad, OutsideUnload, IInv
<1>3. Outsider \notin Client
  BY ConstantsAssumption
<1> QED
  BY <1>1, <1>2, <1>3, LeftWorld

LEMMA LeftDies ==
  ASSUME IInv, LeftOK, NEW c \in Client, CallerDies(c)
  PROVE  LeftOK'
<1>1. /\ loaded' = loaded /\ origin' = origin /\ owed' = owed
      /\ Held(loaded)' = Held(loaded)
      /\ unsettled \subseteq unsettled'
      /\ \A q \in Pair : lease[c][q] = "managed" \/ flight[c].pair = q => <<c, q>> \in unsettled'
  BY DEF CallerDies, Held
<1>2. /\ flight'[c].stage = "none"
      /\ \A d \in Client \ {c} : /\ flight'[d] = flight[d] /\ lease'[d] = lease[d]
                                 /\ op'[d] = op[d]
  BY DEF CallerDies, IInv, TypeOK, Grounded
<1>3. ASSUME NEW d \in Client, NEW q \in Pair, d # c
      PROVE  /\ Warming(d, q)' <=> Warming(d, q)
             /\ CountsOn(d, q)' <=> CountsOn(d, q)
             /\ Absent(d)' <=> Absent(d)
             /\ Unseen(d)' <=> Unseen(d)
  BY <1>2, <1>3 DEF Warming, CountsOn, Absent, Unseen, Probed
<1>4. ~Absent(c)' /\ \A q \in Pair : ~CountsOn(c, q)'
  BY <1>2 DEF CountsOn, Absent, Probed
<1>5. CoveredOK'
  <2> SUFFICES ASSUME NEW d \in Client, NEW q \in Held(loaded), origin[q] = d
               PROVE  lease'[d][q] = "managed" \/ <<d, q>> \in unsettled' \/ Warming(d, q)'
    BY <1>1 DEF CoveredOK
  <2>1. q \in Pair
    BY HeldIsPairs
  <2>2. lease[d][q] = "managed" \/ <<d, q>> \in unsettled \/ Warming(d, q)
    BY DEF LeftOK, CoveredOK
  <2>3. CASE d = c
    BY <2>1, <2>2, <2>3, <1>1 DEF Warming
  <2>4. CASE d # c
    <3>1. Warming(d, q)' <=> Warming(d, q)
      BY <2>1, <2>4, <1>3
    <3> QED BY <2>2, <2>4, <3>1, <1>1, <1>2
  <2> QED BY <2>3, <2>4
<1>6. CountedOK'
  <2> SUFFICES ASSUME NEW d \in Client, NEW q \in Pair, CountsOn(d, q)'
               PROVE  q \in Held(loaded) \/ <<d, q>> \in unsettled'
    BY <1>1 DEF CountedOK
  <2>1. d # c
    BY <1>4
  <2>2. CountsOn(d, q)' <=> CountsOn(d, q)
    BY <2>1, <1>3
  <2> QED BY <2>2, <1>1 DEF LeftOK, CountedOK
<1>7. GoneOK'
  <2> SUFFICES ASSUME NEW d \in Client, NEW q \in Pair,
                      op'[d] = "release", flight'[d].pair = q, Absent(d)'
               PROVE  q \notin Held(loaded) \/ origin[q] # d \/ <<d, q>> \in unsettled'
    BY <1>1 DEF GoneOK
  <2>1. d # c
    BY <1>4
  <2>2. Absent(d)' <=> Absent(d)
    BY <2>1, <1>3
  <2>3. op[d] = "release" /\ flight[d].pair = q
    BY <2>1, <1>2
  <2> QED BY <2>2, <2>3, <1>1 DEF LeftOK, GoneOK
<1>8. OrphansOK'
  <2> SUFFICES ASSUME NEW j \in orphans', j.action = "prepare"
               PROVE  <<j.for, j.pair>> \in unsettled'
    BY DEF OrphansOK
  <2>1. CASE j \in orphans
    BY <2>1, <1>1 DEF LeftOK, OrphansOK
  <2>2. CASE j \notin orphans
    <3>1. j = Job(c) /\ flight[c].stage \in {"sent", "observed"}
      BY <2>2 DEF CallerDies, LeftBehind
    <3>2. j.for = c /\ j.pair = flight[c].pair /\ flight[c].pair \in Pair
      BY <3>1 DEF Job, IInv, FlightOK, InFlight
    <3> QED BY <3>2, <1>1
  <2> QED BY <2>1, <2>2
<1>9. OwedOK'
  <2> SUFFICES ASSUME NEW j \in owed, j.action = "prepare"
               PROVE  /\ j.pair \notin Held(loaded)
                      /\ \/ <<j.for, j.pair>> \in unsettled'
                         \/ Warming(j.for, j.pair)' /\ Unseen(j.for)'
    BY <1>1 DEF OwedOK
  <2>1. j.for \in Client /\ j.pair \in Pair
    BY DEF IInv, TypeOK, Work
  <2>2. /\ j.pair \notin Held(loaded)
        /\ <<j.for, j.pair>> \in unsettled \/ (Warming(j.for, j.pair) /\ Unseen(j.for))
    BY DEF LeftOK, OwedOK
  <2>3. CASE j.for = c
    BY <2>1, <2>2, <2>3, <1>1 DEF Warming
  <2>4. CASE j.for # c
    <3>1. (Warming(j.for, j.pair)' <=> Warming(j.for, j.pair)) /\ (Unseen(j.for)' <=> Unseen(j.for))
      BY <2>1, <2>4, <1>3
    <3> QED BY <2>2, <3>1, <1>1
  <2> QED BY <2>3, <2>4
<1> QED
  BY <1>5, <1>6, <1>7, <1>8, <1>9 DEF LeftOK

LEMMA LeftQuiet ==
  ASSUME IInv, LeftOK, NEW c \in Client, Begin(c) \/ Finish(c)
  PROVE  LeftOK'
<1>1. UNCHANGED <<loaded, origin, unsettled, owed, orphans, flight>>
  BY DEF Begin, BeginPrepare, RefusePrepare, BeginRelease, OperatorRelease, Finish, world
<1>2. ~InFlight(c)
  BY DEF Begin, BeginPrepare, RefusePrepare, BeginRelease, OperatorRelease, MayCall, Finish,
         IInv, FlightOK
<1>3. \A d \in Client \ {c} : op'[d] = op[d] /\ lease'[d] = lease[d]
  BY DEF Begin, BeginPrepare, RefusePrepare, BeginRelease, OperatorRelease, Finish, IInv, TypeOK
<1>4. ASSUME NEW q \in Pair, lease[c][q] = "managed" PROVE lease'[c][q] = "managed"
  <2>1. CASE Begin(c)
    BY <1>4, <2>1 DEF Begin, BeginPrepare, RefusePrepare, BeginRelease, OperatorRelease
  <2>2. CASE Finish(c)
    BY <1>4, <2>2 DEF Finish, IInv, TypeOK
  <2> QED BY <2>1, <2>2
<1> QED
  BY <1>1, <1>2, <1>3, <1>4, LeftFrame

LEMMA LeftNext == IInv /\ LeftOK /\ [Next]_vars => LeftOK'
<1> SUFFICES ASSUME IInv, LeftOK, [Next]_vars PROVE LeftOK'
  OBVIOUS
<1>1. ASSUME NEW c \in Client, Begin(c) PROVE LeftOK'
  BY <1>1, LeftQuiet
<1>2. ASSUME NEW c \in Client, CallerStep(c) PROVE LeftOK'
  BY <1>2, LeftRefused, LeftDispatch, LeftReply, LeftFailed, LeftQuiet DEF CallerStep
<1>3. ASSUME NEW c \in Client, ScriptStep(c) PROVE LeftOK'
  BY <1>3, LeftObserve, LeftWarm, LeftRelease, LeftSkip, LeftConfirm DEF ScriptStep
<1>4. ASSUME NEW c \in Client, CallerDies(c) PROVE LeftOK'
  BY <1>4, LeftDies
<1>5. ASSUME Environment PROVE LeftOK'
  <2>1. ASSUME NEW j \in orphans, OrphanActs(j) PROVE LeftOK'
    BY <2>1, LeftLate DEF OrphanActs
  <2>2. ASSUME NEW j \in owed, OwedMove(j) PROVE LeftOK'
    BY <2>2, LeftLate DEF OwedMove
  <2>3. ASSUME NEW p \in Pair, OutsideLoad(p) \/ OutsideUnload(p) PROVE LeftOK'
    BY <2>3, LeftOutside
  <2>4. ASSUME NEW w \in Worker, FleetChange(w) \/ ReportResources(w) PROVE LeftOK'
    BY <2>4, LeftFrame DEF FleetChange, ReportResources, world
  <2> QED BY <1>5, <2>1, <2>2, <2>3, <2>4 DEF Environment
<1>6. CASE UNCHANGED vars
  BY <1>6, LeftFrame DEF vars
<1> QED
  BY <1>1, <1>2, <1>3, <1>4, <1>5, <1>6 DEF Next

LEMMA Covered == Spec => [](IInv /\ LeftOK)
<1> QED
  BY InitLeft, LeftNext, Invariant, PTL DEF Spec

\* No silent leak, for any number of experiments, models and workers and under
\* every fault: weights that a client's calls brought in are covered by its
\* managed lease, being waited for, or in doubt after a failure it was told of
\* (managed in prepare_experiment, with the listings of _residency_script).
THEOREM LeavesNothing == Spec => []NothingLeftBehind
<1>1. IInv /\ LeftOK => NothingLeftBehind
  BY DEF LeftOK, CoveredOK, Warming, NothingLeftBehind
<1> QED
  BY <1>1, Covered, PTL


-----------------------------------------------------------------------------
(***************************************************************************)
(* The policy: a prepare in flight is one its snapshot admitted, and no    *)
(* worker ever holds more than its memory.                                 *)
(***************************************************************************)
AdmittedOK ==
  \A c \in Client :
    op[c] = "prepare" /\ InFlight(c) => Admitted(c, flight[c].pair, snap[c][flight[c].pair[1]])

CapacityOK == \A w \in Worker : Stored(loaded[w]) =< Memory[w]

\* What prepare may do depends on the pair and the snapshot alone.
LEMMA AdmittedThen ==
  \A c : Admitted(c, flight[c].pair, snap[c][flight[c].pair[1]])'
           <=> Admitted(c, flight'[c].pair, snap'[c][flight'[c].pair[1]])
BY DEF Admitted, Checks, ResourceGate, ResidencyAdmit

\* A dispatch that was in flight before keeps its pair and its snapshot.
LEMMA AdmittedStays ==
  ASSUME IInv, AdmittedOK,
         \A c \in Client : op'[c] = "prepare" /\ InFlight(c)' =>
            \/ /\ op[c] = "prepare" /\ InFlight(c)
               /\ flight'[c].pair = flight[c].pair
               /\ snap'[c] = snap[c]
            \/ /\ Admitted(c, flight'[c].pair, snap[c][flight'[c].pair[1]])
               /\ snap'[c] = snap[c]
  PROVE  AdmittedOK'
<1> SUFFICES ASSUME NEW c \in Client, op'[c] = "prepare", InFlight(c)'
             PROVE  Admitted(c, flight'[c].pair, snap'[c][flight'[c].pair[1]])
  BY AdmittedThen DEF AdmittedOK
<1> QED
  BY DEF AdmittedOK

LEMMA AdmittedNext == IInv /\ AdmittedOK /\ [Next]_vars => AdmittedOK'
<1> SUFFICES ASSUME IInv, AdmittedOK, [Next]_vars PROVE AdmittedOK'
  OBVIOUS
<1>1. ASSUME UNCHANGED <<op, flight, snap>> PROVE AdmittedOK'
  BY <1>1, AdmittedStays DEF InFlight
<1>2. ASSUME NEW c \in Client, Begin(c) PROVE AdmittedOK'
  <2>1. flight' = flight /\ ~InFlight(c)
    BY <1>2 DEF Begin, BeginPrepare, RefusePrepare, BeginRelease, OperatorRelease, MayCall,
                IInv, FlightOK
  <2>2. \A d \in Client \ {c} : op'[d] = op[d] /\ snap'[d] = snap[d]
    BY <1>2 DEF Begin, BeginPrepare, RefusePrepare, BeginRelease, OperatorRelease, IInv, TypeOK
  <2> QED BY <2>1, <2>2, AdmittedStays DEF InFlight
<1>3. ASSUME NEW c \in Client, NEW p \in Pair, NEW code, NEW hold, Emit(c, p, code, hold)
      PROVE  AdmittedOK'
  <2>1. /\ flight'[c].stage = "none" /\ op' = op /\ snap' = snap
        /\ \A d \in Client \ {c} : flight'[d] = flight[d]
    BY <1>3 DEF Emit, Grounded, IInv, TypeOK
  <2> QED BY <2>1, AdmittedStays DEF InFlight
<1>4. ASSUME NEW c \in Client, NEW p \in Pair, Dispatch(c, p) PROVE AdmittedOK'
  <2>1. /\ op' = op /\ snap' = snap /\ flight'[c].pair = p
        /\ \A d \in Client \ {c} : flight'[d] = flight[d]
    BY <1>4 DEF Dispatch, IInv, TypeOK
  <2>2. op[c] = "prepare" => Admitted(c, p, snap[c][p[1]])
    BY <1>4 DEF Dispatch, Wanted
  <2> QED BY <2>1, <2>2, AdmittedStays DEF InFlight
<1>5. ASSUME NEW c \in Client, flight[c].stage # "none", UNCHANGED <<op, snap>>,
             \A d \in Client : flight'[d].pair = flight[d].pair,
             \A d \in Client \ {c} : flight'[d] = flight[d]
      PROVE  AdmittedOK'
  BY <1>5, AdmittedStays DEF InFlight
<1>6. ASSUME NEW c \in Client, CallerStep(c) PROVE AdmittedOK'
  <2>1. ASSUME NEW p \in Pair, Refuse(c, p) \/ LeavePreexisting(c, p) \/ DispatchRefused(c, p)
        PROVE  AdmittedOK'
    BY <2>1, <1>3 DEF Refuse, LeavePreexisting, DispatchRefused
  <2>2. ASSUME Reply(c) \/ Unverified(c) \/ Lose(c) PROVE AdmittedOK'
    <3>1. flight[c].pair \in Pair
      BY <2>2 DEF Reply, Unverified, Lose, IInv, FlightOK, InFlight
    <3> QED BY <2>2, <3>1, <1>3 DEF Reply, Unverified, Lose
  <2>3. ASSUME Finish(c) PROVE AdmittedOK'
    <3>1. flight' = flight /\ ~InFlight(c)
      BY <2>3 DEF Finish, world, IInv, FlightOK
    <3>2. \A d \in Client \ {c} : op'[d] = op[d] /\ snap'[d] = snap[d]
      BY <2>3 DEF Finish, IInv, TypeOK
    <3> QED BY <3>1, <3>2, AdmittedStays DEF InFlight
  <2> QED BY <1>4, <1>6, <2>1, <2>2, <2>3 DEF CallerStep
<1>7. ASSUME NEW c \in Client, ScriptStep(c) PROVE AdmittedOK'
  <2>1. flight[c].stage # "none" /\ UNCHANGED <<op, snap>>
    BY <1>7 DEF ScriptStep, ScriptObserve, ScriptWarm, ScriptRelease, ScriptSkip, ScriptConfirm
  <2>2. \A d \in Client : flight'[d].pair = flight[d].pair
    <3>1. flight \in [Client -> Flight] /\ flight[c] \in Flight
      BY DEF IInv, TypeOK
    <3>2. CASE ScriptObserve(c)
      BY <3>1, <3>2 DEF ScriptObserve, Flight
    <3>3. CASE ScriptWarm(c)
      BY <3>1, <3>3 DEF ScriptWarm, Flight
    <3>4. CASE ScriptRelease(c)
      BY <3>1, <3>4 DEF ScriptRelease, Flight
    <3>5. CASE ScriptSkip(c)
      BY <3>1, <3>5 DEF ScriptSkip, Flight
    <3>6. CASE ScriptConfirm(c)
      BY <3>1, <3>6 DEF ScriptConfirm, Flight
    <3> QED BY <1>7, <3>2, <3>3, <3>4, <3>5, <3>6 DEF ScriptStep
  <2>3. \A d \in Client \ {c} : flight'[d] = flight[d]
    BY <1>7 DEF ScriptStep, ScriptObserve, ScriptWarm, ScriptRelease, ScriptSkip, ScriptConfirm,
                IInv, TypeOK
  <2> QED BY <2>1, <2>2, <2>3, <1>5
<1>8. ASSUME NEW c \in Client, CallerDies(c) PROVE AdmittedOK'
  <2>1. /\ flight'[c].stage = "none"
        /\ \A d \in Client \ {c} : flight'[d] = flight[d] /\ op'[d] = op[d] /\ snap'[d] = snap[d]
    BY <1>8 DEF CallerDies, Grounded, IInv, TypeOK
  <2> QED BY <2>1, AdmittedStays DEF InFlight
<1>9. ASSUME Environment PROVE AdmittedOK'
  BY <1>1, <1>9 DEF Environment, OrphanActs, OwedMove, OutsideLoad, OutsideUnload, FleetChange,
                    ReportResources
<1> QED
  BY <1>1, <1>2, <1>6, <1>7, <1>8, <1>9 DEF Next, vars

\* A model more, when it was there already or not.
LEMMA StoredWith ==
  ASSUME NEW S \in SUBSET Model, NEW m \in Model
  PROVE  Stored(S \cup {m}) =< Stored(S) + Size[m] /\ Stored(S \ {m}) =< Stored(S)
<1>0. Stored(S) \in Nat /\ Stored(S \ {m}) \in Nat /\ Size[m] \in Nat
  BY StoredAdds, ConstantsAssumption
<1>1. CASE m \in S
  <2>1. S \cup {m} = S /\ (S \ {m}) \cup {m} = S
    BY <1>1
  <2>2. Stored(S \cup {m}) = Stored(S)
    BY <2>1, Zenon
  <2>3. Stored((S \ {m}) \cup {m}) = Stored(S \ {m}) + Size[m]
    BY StoredAdds
  <2>4. Stored((S \ {m}) \cup {m}) = Stored(S)
    BY <2>1, Zenon
  <2> QED BY <1>0, <2>2, <2>3, <2>4
<1>2. CASE m \notin S
  <2>1. Stored(S \cup {m}) = Stored(S) + Size[m]
    BY <1>2, StoredAdds
  <2>2. S \ {m} = S
    BY <1>2
  <2>3. Stored(S \ {m}) = Stored(S)
    BY <2>2, Zenon
  <2> QED BY <1>0, <2>1, <2>3
<1> QED
  BY <1>1, <1>2

LEMMA CapacityNext == IInv /\ CapacityOK /\ [Next]_vars => CapacityOK'
<1> SUFFICES ASSUME IInv, CapacityOK, [Next]_vars PROVE CapacityOK'
  OBVIOUS
<1>0. CapacityOK' <=> \A w \in Worker : Stored(loaded'[w]) =< Memory[w]
  BY DEF CapacityOK, Stored, MapThenSumSet, MapThenFoldSet
<1>1. ASSUME loaded' = loaded PROVE CapacityOK'
  BY <1>0, <1>1 DEF CapacityOK
<1>2. ASSUME NEW p \in Pair, NEW who, Load(p, who) PROVE CapacityOK'
  <2>1. PICK K \in SurvivorsOf(p[1], p[2]) : loaded' = [loaded EXCEPT ![p[1]] = K \cup {p[2]}]
    BY <1>2 DEF Load, SetLoaded
  <2>2. Stored(K \cup {p[2]}) =< Memory[p[1]]
    BY DEF SurvivorsOf
  <2>3. \A w \in Worker : loaded'[w] = IF w = p[1] THEN K \cup {p[2]} ELSE loaded[w]
    BY <2>1 DEF IInv, TypeOK
  <2>4. ASSUME NEW w \in Worker PROVE Stored(loaded'[w]) =< Memory[w]
    <3>1. CASE w = p[1]
      BY <2>2, <2>3, <3>1
    <3>2. CASE w # p[1]
      BY <2>3, <3>2 DEF CapacityOK
    <3> QED BY <3>1, <3>2
  <2> QED BY <1>0, <2>4
<1>3. ASSUME NEW p \in Pair, NEW who, Unload(p, who) PROVE CapacityOK'
  <2>1. p[1] \in Worker /\ p[2] \in Model
    BY DEF Pair
  <2>2. \A w \in Worker : loaded'[w] = IF w = p[1] THEN loaded[w] \ {p[2]} ELSE loaded[w]
    BY <1>3 DEF Unload, SetLoaded, IInv, TypeOK
  <2>3. ASSUME NEW w \in Worker PROVE Stored(loaded'[w]) =< Memory[w]
    <3>1. CASE w = p[1]
      <4>1. loaded[w] \in SUBSET Model /\ Memory[w] \in Nat
        BY ConstantsAssumption DEF IInv, TypeOK
      <4>2. /\ Stored(loaded[w] \ {p[2]}) =< Stored(loaded[w])
            /\ Stored(loaded[w]) \in Nat /\ Stored(loaded[w] \ {p[2]}) \in Nat
        BY <2>1, <4>1, StoredWith, StoredAdds
      <4>3. Stored(loaded[w]) =< Memory[w]
        BY DEF CapacityOK
      <4>4. loaded'[w] = loaded[w] \ {p[2]}
        BY <2>2, <3>1
      <4> QED BY <4>1, <4>2, <4>3, <4>4
    <3>2. CASE w # p[1]
      BY <2>2, <3>2 DEF CapacityOK
    <3> QED BY <3>1, <3>2
  <2> QED BY <1>0, <2>3
<1>4. ASSUME NEW c \in Client, Begin(c) \/ CallerStep(c) \/ CallerDies(c) PROVE CapacityOK'
  <2>1. loaded' = loaded
    BY <1>4 DEF Begin, BeginPrepare, RefusePrepare, BeginRelease, OperatorRelease, CallerStep,
                Refuse, LeavePreexisting, Dispatch, DispatchRefused, Reply, Unverified, Lose,
                Finish, CallerDies, Emit, world
  <2> QED BY <2>1, <1>1
<1>5. ASSUME NEW c \in Client, ScriptStep(c) PROVE CapacityOK'
  <2>1. ASSUME ScriptObserve(c) \/ ScriptSkip(c) \/ ScriptConfirm(c) PROVE CapacityOK'
    BY <2>1, <1>1 DEF ScriptObserve, ScriptSkip, ScriptConfirm, world
  <2>2. ASSUME ScriptWarm(c) \/ ScriptRelease(c) PROVE CapacityOK'
    <3>1. flight[c].pair \in Pair
      BY <2>2 DEF ScriptWarm, ScriptRelease, IInv, FlightOK, InFlight
    <3> QED BY <2>2, <3>1, <1>1, <1>2, <1>3 DEF ScriptWarm, ScriptRelease, LazyProvider
  <2> QED BY <1>5, <2>1, <2>2 DEF ScriptStep
<1>6. ASSUME Environment PROVE CapacityOK'
  <2>1. ASSUME NEW j \in orphans \cup owed, OrphanActs(j) \/ OwedMove(j) PROVE CapacityOK'
    <3>1. j.pair \in Pair
      BY DEF IInv, TypeOK, Work
    <3> QED BY <2>1, <3>1, <1>2, <1>3 DEF OrphanActs, OwedMove
  <2>2. ASSUME NEW p \in Pair, OutsideLoad(p) \/ OutsideUnload(p) PROVE CapacityOK'
    BY <2>2, <1>2, <1>3 DEF OutsideLoad, OutsideUnload
  <2>3. ASSUME NEW w \in Worker, FleetChange(w) \/ ReportResources(w) PROVE CapacityOK'
    BY <2>3, <1>1 DEF FleetChange, ReportResources, world
  <2> QED BY <1>6, <2>1, <2>2, <2>3 DEF Environment
<1> QED
  BY <1>1, <1>4, <1>5, <1>6 DEF Next, vars

LEMMA Policy == Spec => [](IInv /\ AdmittedOK /\ CapacityOK)
<1>1. Init => AdmittedOK /\ CapacityOK
  BY DEF Init, AdmittedOK, CapacityOK
<1> QED
  BY <1>1, AdmittedNext, CapacityNext, Invariant, PTL DEF Spec

\* What a warm was admitted on: the policy's veto and the recorded facts.
LEMMA WarmAdmitted ==
  ASSUME IInv, AdmittedOK, NEW c \in Client, ScriptWarm(c)
  PROVE  /\ flight[c].pair \in Pair
         /\ ResourceGate(flight[c].pair, snap[c][flight[c].pair[1]])
         /\ ResidencyAdmit(c, flight[c].pair, snap[c][flight[c].pair[1]])
<1> DEFINE checks == Checks(c, flight[c].pair, snap[c][flight[c].pair[1]])
<1>1. op[c] = "prepare" /\ InFlight(c)
  BY DEF ScriptWarm, InFlight
<1>2. Admitted(c, flight[c].pair, snap[c][flight[c].pair[1]])
  BY <1>1 DEF AdmittedOK
<1>3. checks[6].ok /\ checks[7].ok
  <2>1. DOMAIN checks = 1..7
    BY DEF Checks
  <2> HIDE DEF checks
  <2> QED BY <1>2, <2>1 DEF Admitted, checks
<1> QED
  BY <1>1, <1>3 DEF Checks, IInv, FlightOK

\* A warm for which there is room evicts nothing.
LEMMA RoomKeeps ==
  ASSUME IInv, NEW c \in Client, ScriptWarm(c), flight[c].pair \in Pair,
         Stored(loaded[flight[c].pair[1]] \cup {flight[c].pair[2]}) =< Memory[flight[c].pair[1]]
  PROVE  \/ loaded' = loaded
         \/ loaded' = [loaded EXCEPT ![flight[c].pair[1]] = @ \cup {flight[c].pair[2]}]
<1> DEFINE w == flight[c].pair[1]
           m == flight[c].pair[2]
<1>1. CASE LazyProvider(c)
  BY <1>1 DEF LazyProvider
<1>2. CASE Load(flight[c].pair, c)
  <2>1. PICK K \in SurvivorsOf(w, m) : loaded' = [loaded EXCEPT ![w] = K \cup {m}]
    BY <1>2 DEF Load, SetLoaded
  <2>2. (loaded[w] \ {m}) \cup {m} = loaded[w] \cup {m}
    OBVIOUS
  <2>3. Stored((loaded[w] \ {m}) \cup {m}) = Stored(loaded[w] \cup {m})
    BY <2>2, Zenon
  <2>4. K = loaded[w] \ {m}
    BY <2>1, <2>3 DEF SurvivorsOf
  <2>5. w \in Worker
    BY DEF Pair
  <2> QED
    BY <2>1, <2>2, <2>4, <2>5 DEF IInv, TypeOK
<1> QED
  BY <1>1, <1>2 DEF ScriptWarm

\* A warm takes a resident model away only where the recorded resource facts
\* promised more memory than there was left when it was carried out
\* (_resource_decision and its resource_snapshot), in any fleet and under every
\* fault, whichever models the provider would evict.
THEOREM EvictsNothing == Spec => NoImplicitEviction
<1> DEFINE Kept == \A c \in Client, w \in Worker :
                      ScriptWarm(c) => \/ loaded[w] \subseteq loaded'[w]
                                       \/ snap[c][w].free > Memory[w] - Stored(loaded[w])
<1>1. IInv /\ AdmittedOK => [Kept]_vars
  <2> SUFFICES ASSUME IInv, AdmittedOK, NEW c \in Client, NEW w \in Worker, ScriptWarm(c),
                      ~(snap[c][w].free > Memory[w] - Stored(loaded[w]))
               PROVE  loaded[w] \subseteq loaded'[w]
    OBVIOUS
  <2> DEFINE p == flight[c].pair
             m == p[2]
  <2>1. p \in Pair /\ m \in Model /\ p[1] \in Worker /\ ResourceGate(p, snap[c][p[1]])
    BY WarmAdmitted DEF Pair
  <2>2. CASE w = p[1]
    <3>1. /\ loaded[w] \in SUBSET Model /\ Memory[w] \in Nat /\ Size[m] \in Nat
          /\ snap[c][w].free \in Int
      BY <2>1, ConstantsAssumption DEF IInv, TypeOK, Snapshot
    <3>2. Size[m] =< snap[c][w].free
      BY <2>1, <2>2 DEF ResourceGate
    <3>3. /\ Stored(loaded[w]) \in Nat /\ Stored(loaded[w] \cup {m}) \in Nat
          /\ Stored(loaded[w] \cup {m}) =< Stored(loaded[w]) + Size[m]
      BY <2>1, <3>1, StoredAdds, StoredWith
    <3>4. Stored(loaded[w] \cup {m}) =< Memory[w]
      BY <3>1, <3>2, <3>3
    <3>5. \/ loaded' = loaded
          \/ loaded' = [loaded EXCEPT ![p[1]] = @ \cup {m}]
      BY <2>1, <2>2, <3>4, RoomKeeps
    <3> QED BY <3>5 DEF IInv, TypeOK
  <2>3. CASE w # p[1]
    <3>1. \/ loaded' = loaded
          \/ \E l : loaded' = [loaded EXCEPT ![p[1]] = l]
      BY DEF ScriptWarm, LazyProvider, Load, SetLoaded
    <3> QED BY <2>3, <3>1 DEF IInv, TypeOK
  <2> QED BY <2>2, <2>3
<1> QED
  BY <1>1, Policy, PTL DEF NoImplicitEviction

\* And a prepare under reject_conflicting_loaded_models brings a cold model in
\* on an empty worker only, and leaves it alone there, unless the worker's
\* models changed since the probe its verdict rests on.
THEOREM ColdIsAlone == Spec => ColdTargetAlone
<1> DEFINE Alone == \A c \in Strict, w \in Worker :
                      op[c] = "prepare" /\ ScriptWarm(c) /\ loaded'[w] # loaded[w]
                        => \/ loaded[w] = {} /\ Cardinality(loaded'[w]) = 1
                           \/ loaded[w] # snap[c][w].loaded
<1>1. IInv /\ AdmittedOK /\ CapacityOK => [Alone]_vars
  <2> SUFFICES ASSUME IInv, AdmittedOK, CapacityOK, NEW c \in Strict, NEW w \in Worker,
                      ScriptWarm(c), loaded'[w] # loaded[w], loaded[w] = snap[c][w].loaded
               PROVE  loaded[w] = {} /\ Cardinality(loaded'[w]) = 1
    OBVIOUS
  <2> DEFINE p == flight[c].pair
             m == p[2]
  <2>1. c \in Client
    BY ConstantsAssumption
  <2>2. p \in Pair /\ m \in Model /\ p[1] \in Worker /\ ResidencyAdmit(c, p, snap[c][p[1]])
    BY <2>1, WarmAdmitted DEF Pair
  <2>3. PICK K \in SurvivorsOf(p[1], m) : loaded' = [loaded EXCEPT ![p[1]] = K \cup {m}]
    BY DEF ScriptWarm, LazyProvider, Load, SetLoaded
  <2>4. w = p[1] /\ loaded'[w] = K \cup {m}
    BY <2>2, <2>3 DEF IInv, TypeOK
  <2>5. loaded[w] \ {m} = {} \/ m \in loaded[w]
    BY <2>2, <2>4 DEF ResidencyAdmit
  <2>6. m \notin loaded[w]
    <3> SUFFICES ASSUME m \in loaded[w] PROVE FALSE
      OBVIOUS
    <3>1. loaded[w] \cup {m} = loaded[w]
      OBVIOUS
    <3>2. Stored(loaded[w] \cup {m}) = Stored(loaded[w])
      BY <3>1, Zenon
    <3>3. Stored(loaded[w] \cup {m}) =< Memory[w]
      BY <3>2 DEF CapacityOK
    <3>4. \/ loaded' = loaded
          \/ loaded' = [loaded EXCEPT ![p[1]] = @ \cup {m}]
      BY <2>1, <2>2, <2>4, <3>3, RoomKeeps
    <3>5. loaded'[w] = loaded[w]
      BY <2>4, <3>1, <3>4 DEF IInv, TypeOK
    <3> QED BY <3>5
  <2>7. loaded[w] = {}
    BY <2>5, <2>6
  <2>8. K = {}
    BY <2>4, <2>7 DEF SurvivorsOf
  <2>9. loaded'[w] = {m}
    BY <2>4, <2>8
  <2> QED
    BY <2>7, <2>9, FS_Singleton
<1> QED
  BY <1>1, Policy, PTL DEF ColdTargetAlone
==============================================================================
