----------------------------- MODULE EnvelopeFold -----------------------------
(***************************************************************************)
(* How the host combines an arbitrarily long list of verdicts with kernels *)
(* that only take a fixed number of them: fold, combine and fold_readiness *)
(* of src/src/mncs_harness/mncs_exec.py and the MNCS kernels they call     *)
(* (src/mncs/harness_atlas.mncs, harness_verdict.mncs and                  *)
(* harness_readiness.mncs).                                                *)
(*                                                                         *)
(* The list is cut into envelopes, the last of them padded with the        *)
(* neutral verdict; the kernel iterates over one envelope with an          *)
(* accumulator; the partial results are then combined again, by envelopes  *)
(* or pairwise.  The three hosts differ in the widths and in the kernel's  *)
(* pairwise step Join; everything else is the same loop.                   *)
(***************************************************************************)
EXTENDS Integers, Sequences

CONSTANTS
  Value, Neutral,  \* the verdicts of the lattice, and the one of an unused slot
  Join(_, _),      \* the kernel's pairwise step
  Hosts,           \* the hosts, each with the widths of its envelopes
  Lists            \* the lists the host may be asked to combine

ASSUME JoinAssumption ==
  /\ Neutral \in Value
  /\ \A a, b \in Value :
       /\ Join(a, b) \in Value
       /\ Join(a, b) = Join(b, a)
       /\ Join(a, a) = a
       /\ Join(Neutral, a) = a
  /\ \A a, b, c \in Value : Join(Join(a, b), c) = Join(a, Join(b, c))

ASSUME WidthAssumption ==
  /\ Hosts \subseteq [
       short : Nat \ {0},  \* a list that fits into this many slots takes one envelope
       head : Nat \ {0},   \* slots of the first envelope otherwise
       tail : Nat \ {0},   \* slots of the other envelopes of the list
       group : Nat \ {0}]  \* slots of an envelope of partial results; 1: go pairwise
  /\ Lists \subseteq Seq(Value)

\* The kernels' match tables: the pairwise steps Join stands for.
dominate(left, right) ==
  CASE left = "PASS" -> right
    [] left = "FAIL" -> "FAIL"
    [] left = "UNKNOWN" -> IF right = "FAIL" THEN "FAIL" ELSE "UNKNOWN"

dominate_readiness(left, right) ==
  CASE left = "BLOCKED" -> "BLOCKED"
    [] left = "UNKNOWN" -> IF right = "BLOCKED" THEN "BLOCKED" ELSE "UNKNOWN"
    [] left = "DEGRADED" -> IF right = "READY" THEN "DEGRADED" ELSE right
    [] left = "READY" -> right

VARIABLES
  host,      \* the host that was called
  input,     \* the list the host was called with
  level,     \* "list" while it is cut up, "partials" when partials are
  queue,     \* what this level has not put into an envelope yet
  envelope,  \* the argument of the running kernel call, or << >>
  next,      \* the slot that call looks at
  acc,       \* its accumulator
  partials,  \* the results of this level's calls
  result     \* << >> until the host returns, then << verdict >>

vars == <<host, input, level, queue, envelope, next, acc, partials, result>>

Width ==
  IF level = "partials" THEN host.group
  ELSE IF queue # input THEN host.tail
  ELSE IF Len(input) =< host.short THEN host.short
  ELSE host.head

\* Mutant: the last slot is never filled.
PaddedShort(s, w) == [k \in 1..w |-> IF k =< Len(s) /\ k < w THEN s[k] ELSE Neutral]

Padded(s, w) == [k \in 1..w |-> IF k =< Len(s) THEN s[k] ELSE Neutral]

\* Mutant: the next envelope starts one slot early.
BeyondEarly(s, w) == [k \in 1..(IF Len(s) > w THEN Len(s) - w + 1 ELSE 0) |-> s[k + w - 1]]

Beyond(s, w) == [k \in 1..(IF Len(s) > w THEN Len(s) - w ELSE 0) |-> s[k + w]]

Marshal ==
  /\ result = << >>
  /\ envelope = << >>
  /\ queue # << >>
  /\ envelope' = Padded(queue, Width)
  /\ queue' = Beyond(queue, Width)
  /\ next' = 1
  /\ acc' = Neutral
  /\ UNCHANGED <<host, input, level, partials, result>>

\* One round of the kernel's iterate ... carrying acc.
Iterate ==
  /\ envelope # << >>
  /\ next =< Len(envelope)
  /\ acc' = Join(acc, envelope[next])
  /\ next' = next + 1
  /\ UNCHANGED <<host, input, level, queue, envelope, partials, result>>

Return ==
  /\ envelope # << >>
  /\ next > Len(envelope)
  /\ partials' = Append(partials, acc)
  /\ envelope' = << >>
  /\ UNCHANGED <<host, input, level, queue, next, acc, result>>

LevelDone == result = << >> /\ envelope = << >> /\ queue = << >>

MustCombine == Len(partials) > 1

Regroup ==
  /\ LevelDone
  /\ MustCombine
  /\ host.group > 1
  /\ level' = "partials"
  /\ queue' = partials
  /\ partials' = << >>
  /\ UNCHANGED <<host, input, envelope, next, acc, result>>

Pairwise ==
  /\ LevelDone
  /\ MustCombine
  /\ host.group = 1
  /\ partials' = <<Join(partials[1], partials[2])>> \o Beyond(partials, 2)
  /\ UNCHANGED <<host, input, level, queue, envelope, next, acc, result>>

Deliver ==
  /\ LevelDone
  /\ ~MustCombine
  /\ result' = IF partials = << >> THEN <<Neutral>> ELSE partials
  /\ UNCHANGED <<host, input, level, queue, envelope, next, acc, partials>>

Init ==
  /\ host \in Hosts
  /\ input \in Lists
  /\ level = "list"
  /\ queue = input
  /\ envelope = << >>
  /\ next = 1
  /\ acc = Neutral
  /\ partials = << >>
  /\ result = << >>

Next == Marshal \/ Iterate \/ Return \/ Regroup \/ Pairwise \/ Deliver

Spec == Init /\ [][Next]_vars

\* The host's loop runs to its end, there is nothing it waits for.
FairSpec == Spec /\ WF_vars(Next)

------------------------------------------------------------------------------

\* v dominates u, and u dominates every verdict of a list.
Dominates(u, v) == Join(v, u) = u
Above(u, s) == \A k \in DOMAIN s : Dominates(u, s[k])

\* Every variable stays in its type.
TypeOK ==
  /\ host \in Hosts
  /\ input \in Seq(Value)
  /\ level \in {"list", "partials"}
  /\ queue \in Seq(Value)
  /\ envelope \in Seq(Value)
  /\ next \in Nat
  /\ acc \in Value
  /\ partials \in Seq(Value)
  /\ result \in Seq(Value)

\* However the list is cut and padded, the host returns the least verdict that
\* dominates all of it: a FAIL, a REFUSED or a BLOCKED anywhere in the list is
\* never lost, an UNKNOWN is never promoted, nothing is made worse than its
\* worst element, and neither order nor repetition matters.
ResultIsJoin ==
  result # << >> =>
    \A u \in Value : Dominates(u, result[1]) <=> Above(u, input)

\* The loop over the partial results ends.
HostReturns == <>(result # << >>)
==============================================================================
