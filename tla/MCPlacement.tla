----------------------------- MODULE MCPlacement -----------------------------
(***************************************************************************)
(* A small fleet for Placement: two remote workers and the controller's    *)
(* own, a configured model, one that claims tools and one that is plain.   *)
(***************************************************************************)
EXTENDS Placement, TLC

CONSTANTS w1, w2, own, nowhere, mConf, mTool, mPlain, nothing, unprobed

Workers == {w1, w2, own}
RemoteWorkers == {w1, w2}
RankOfWorker == (w1 :> 1 @@ w2 :> 2 @@ own :> 3)
Models == {mConf, mTool, mPlain}
RankOfModel == (mConf :> 1 @@ mTool :> 2 @@ mPlain :> 3)
SizeOfModel == (mConf :> 4 @@ mTool :> 8 @@ mPlain :> 0)
ResidentModel == (w1 :> mPlain @@ w2 :> nothing @@ own :> nothing)
NoLanes == {}

\* A cascade that starts with e2b has three roles, one more than may be tried.
RolesConfigured == ("e2b" :> mConf @@ "e4b" :> mConf @@ "coder" :> mTool @@ "reviewer" :> mConf)
RolesThatThink == ("e2b" :> FALSE @@ "e4b" :> TRUE @@ "coder" :> TRUE @@ "reviewer" :> TRUE)

Held(claims, loaded) == [listed |-> TRUE, claims |-> claims, loaded |-> loaded]
Shows(conf, tool, plain) == (mConf :> conf @@ mTool :> tool @@ mPlain :> plain)
RowOf(up, freshness, models) == [up |-> up, freshness |-> freshness, models |-> models]

Tools == {"completion", "tools"}
Empty == Shows(Absent, Absent, Absent)
WarmTool == Shows(Absent, Held(Tools, TRUE), Held(unprobed, FALSE))
WarmPlain == Shows(Absent, Held(Tools, FALSE), Held({"completion"}, TRUE))
ColdConf == Shows(Held(Tools \cup {"thinking"}, FALSE), Absent, Held({"completion"}, FALSE))
JustPlain == Shows(Absent, Absent, Held({"completion"}, FALSE))

OwnRow == RowOf(TRUE, "CURRENT", WarmTool)
Row1 == {RowOf(TRUE, "CURRENT", WarmTool), RowOf(TRUE, "CURRENT", JustPlain),
         RowOf(TRUE, "STALE", ColdConf)}
Row2 == {RowOf(TRUE, "CURRENT", WarmPlain), RowOf(TRUE, "STALE", WarmPlain),
         RowOf(TRUE, "UNKNOWN", Empty), RowOf(FALSE, "CURRENT", ColdConf)}
SmallRows == (w1 :> Row1 @@ w2 :> Row2 @@ own :> {OwnRow})
SmallFleets == {(w1 :> a @@ w2 :> b @@ own :> OwnRow) : a \in Row1, b \in Row2}

BothOrders == {(w1 :> 1 @@ w2 :> 2 @@ own :> 3), (w1 :> 2 @@ w2 :> 1 @@ own :> 3)}

Asks(mode, role, w, m, fallback) ==
  [mode |-> mode, role |-> role, worker |-> w, model |-> m, fallback |-> fallback]

SmallRequests ==
  {Asks("AUTO", NoRole, nowhere, nothing, FALSE), Asks("ROLE", "e4b", nowhere, nothing, FALSE),
   Asks("ROLE", "reviewer", nowhere, nothing, FALSE),
   Asks("MODEL", NoRole, nowhere, mTool, FALSE), Asks("MODEL", NoRole, nowhere, mTool, TRUE),
   Asks("WORKER", NoRole, w1, nothing, FALSE), Asks("WORKER", NoRole, w2, nothing, TRUE),
   Asks("WORKER_MODEL", NoRole, w1, mPlain, FALSE),
   Asks("WORKER_MODEL", NoRole, own, mTool, TRUE),
   Asks("WORKER_MODEL_ROLE", "coder", w2, mConf, FALSE)}

SmallProfiles == {[code |-> TRUE, acts |-> TRUE, risky |-> FALSE],
                  [code |-> FALSE, acts |-> TRUE, risky |-> FALSE],
                  [code |-> FALSE, acts |-> FALSE, risky |-> FALSE],
                  [code |-> TRUE, acts |-> FALSE, risky |-> TRUE]}
==============================================================================
