---------------------------- MODULE MCEnvelopeFold ----------------------------
(***************************************************************************)
(* The two kernels' pairwise steps side by side in one lattice, and lists  *)
(* long enough to cross every envelope boundary of each host.              *)
(***************************************************************************)
EXTENDS EnvelopeFold, FiniteSets

Status == {"PASS", "UNKNOWN", "FAIL"}
Readiness == {"READY", "DEGRADED", "UNKNOWN", "BLOCKED"}

Verdicts == Status \X Readiness
NeutralVerdict == <<"PASS", "READY">>
Dominate(left, right) == <<dominate(left[1], right[1]), dominate_readiness(left[2], right[2])>>

\* combine; fold; fold_readiness.
ThreeHosts == {
  [short |-> 8, head |-> 8, tail |-> 8, group |-> 4],
  [short |-> 4, head |-> 4, tail |-> 4, group |-> 1],
  [short |-> 4, head |-> 8, tail |-> 4, group |-> 1]}

\* The verdicts that say something of one kernel only.
Plain == {v \in Verdicts : v[1] = "PASS" \/ v[2] = "READY"}
AllLists(n) == UNION {[1..k -> Plain] : k \in 0..n}

\* Long lists of neutral verdicts but for two places.
SparseLists(lengths) ==
  UNION {{[k \in 1..n |-> CASE k = i -> v [] k = j -> w [] OTHER -> NeutralVerdict] :
            i, j \in {k \in 1..n : k % 4 \in {0, 1} \/ k = n}, v, w \in Plain} :
         n \in lengths}

\* 32 verdicts make four envelopes of eight, 33 a fifth and with it a second round
\* of regrouping; fold_readiness has a head of eight and tails of four.
LongLists == AllLists(3) \cup SparseLists({8, 9, 13}) \cup
  {[k \in 1..33 |-> IF k = i THEN v ELSE NeutralVerdict] : i \in {1, 8, 9, 32, 33}, v \in Plain}
==============================================================================
