--------------------------- MODULE AgentRun_proofs ---------------------------
(***************************************************************************)
(* Proofs about AgentRun, for every fleet, configuration, route and bound  *)
(* on tool steps.                                                          *)
(***************************************************************************)
EXTENDS AgentRun, TLAPS

\* What a step can do to the attempt's record: one lemma per shape of update.
LEMMA BegunType ==
  ASSUME NEW no \in Nat \ {0}, NEW p \in Placement
  PROVE  [Begun(no) EXCEPT !.place = p] \in Attempt
BY DEF Begun, Attempt, Placement

\* A new attempt has nothing to show, a fresh record.
LEMMA InitType == ASSUME AgentAssumption, Init PROVE TypeOK
<1>1. attempt \in Attempt
  BY DEF Init, Begun, Attempt, Placement
<1>2. route \in Route /\ config \in Config
  BY DEF Init, AgentAssumption
<1>3. disk \in [File -> Content]
  BY DEF Init, Content
<1>4. resident \in [Worker -> Model \cup {NoModel}] /\ seen \in [Worker -> Model \cup {NoModel}]
  BY DEF Init, AgentAssumption
<1> QED BY <1>1, <1>2, <1>3, <1>4 DEF Init, TypeOK, Stage

\* Continue keeps the attempt well typed, and decides between two stages.
LEMMA ContinueType ==
  ASSUME TypeOK, NEW outcome \in {"none", "PASS", "UNKNOWN"}, Continue(outcome)
  PROVE  attempt' \in Attempt /\ stage' \in {"done", "resolve"}
<1>1. attempt \in Attempt BY DEF TypeOK
<1>2. attempt.no + 1 \in Nat \ {0} BY <1>1 DEF Attempt
<1>3. [attempt EXCEPT !.restored = outcome] \in Attempt BY <1>1 DEF Attempt
<1>4. [attempt EXCEPT !.restored = outcome, !.no = attempt.no + 1] \in Attempt
  BY <1>1, <1>2 DEF Attempt
<1> QED BY <1>3, <1>4 DEF Continue, NextRole

\* A tool call keeps everything but the files well typed.
LEMMA CallToolType ==
  ASSUME TypeOK, NEW failed \in BOOLEAN, CallTool(failed)
  PROVE  attempt' \in Attempt
<1>1. attempt \in Attempt /\ attempt.calls > 0 BY DEF TypeOK, CallTool
<1>2. attempt.calls - 1 \in Nat BY <1>1 DEF Attempt
<1>3. attempt.toolFailed \in BOOLEAN BY <1>1 DEF Attempt
<1>4. (attempt.toolFailed \/ failed) \in BOOLEAN OBVIOUS
<1>5. attempt' = [attempt EXCEPT !.calls = attempt.calls - 1,
                                 !.toolFailed = attempt.toolFailed \/ failed]
  BY DEF CallTool
<1> QED BY <1>1, <1>2, <1>4, <1>5 DEF Attempt

\* A published record is one some chat left, with the chat that published it.
LEMMA PublishType ==
  ASSUME TypeOK, Publish
  PROVE  published' \subseteq [record : Chat, at : Chat, asked : BOOLEAN]
<1>1. attempt \in Attempt /\ record \in Chat \cup {NoRecord} BY DEF TypeOK
<1>2. At \in Chat BY <1>1 DEF At, Attempt, Chat
<1>3. attempt.asked \in BOOLEAN BY <1>1 DEF Attempt
<1> QED BY <1>1, <1>2, <1>3 DEF Publish, TypeOK

\* A chat that Fabric took was placed on a worker.
Placed == stage \in {"sent", "executed"} => attempt.place.kind = "worker"

\* Every step keeps every variable in its type.
LEMMA TypeStep == ASSUME AgentAssumption, TypeOK, Placed, [Next]_vars PROVE TypeOK'
<1> USE DEF files, fabric, debts
<1>a. attempt \in Attempt BY DEF TypeOK
<1>1. ASSUME NEW p \in Resolutions, Resolve(p) PROVE TypeOK'
  <2>1. p \in Placement BY DEF Resolutions
  <2>2. attempt.no \in Nat \ {0} BY DEF TypeOK, Attempt
  <2>3. attempt' \in Attempt BY <1>1, <2>1, <2>2, BegunType DEF Resolve
  <2> QED BY <1>1, <2>3 DEF Resolve, TypeOK, Stage
<1>2. CASE Dispatch
  <2>1. attempt' \in Attempt BY <1>2, <1>a DEF Dispatch, Attempt
  <2> QED BY <1>2, <2>1 DEF Dispatch, TypeOK, Stage, ResetRecord
<1>3. CASE Unplaced
  <2>1. attempt' \in Attempt BY <1>3, <1>a DEF Unplaced, Attempt
  <2> QED BY <1>3, <2>1 DEF Unplaced, TypeOK, Stage
<1>4. CASE WorkerExecutes
  <2>1. attempt.place.worker \in Worker /\ attempt.place.model \in Model
    BY <1>4, <1>a DEF WorkerExecutes, Placed, Attempt, Placement
  <2>2. owed' \subseteq Worker /\ strayed' \subseteq Worker
    BY <1>4, <2>1 DEF WorkerExecutes, TypeOK
  <2>3. resident' \in [Worker -> Model \cup {NoModel}] BY <1>4, <2>1 DEF WorkerExecutes, TypeOK
  <2> QED BY <1>4, <2>2, <2>3 DEF WorkerExecutes, TypeOK, Stage
<1>5. CASE DispatchRaises
  <2>1. stage = "sent" => attempt.place.worker \in Worker /\ attempt.place.model \in Model
    BY <1>a DEF Placed, Attempt, Placement
  <2>2. lost' \subseteq Worker \X Model BY <1>5, <2>1 DEF DispatchRaises, TypeOK
  <2> QED BY <1>5, <2>2 DEF DispatchRaises, TypeOK, Stage
<1>6. ASSUME NEW usable \in BOOLEAN, Collect(usable) PROVE TypeOK'
  <2>1. attempt' \in Attempt BY <1>6, <1>a DEF Collect, Attempt
  <2>2. At \in Chat BY <1>a DEF At, Attempt, Chat
  <2> QED BY <1>6, <2>1, <2>2 DEF Collect, TypeOK, Stage
<1>7. ASSUME NEW answered \in BOOLEAN, FallBack(answered) PROVE TypeOK'
  <2>1. attempt' \in Attempt BY <1>7, <1>a DEF FallBack, Intended, Attempt
  <2> QED BY <1>7, <2>1 DEF FallBack, TypeOK, Stage
<1>8. CASE ProviderRaises
  <2>1. attempt' \in Attempt BY <1>8, <1>a DEF ProviderRaises, Intended, Attempt
  <2> QED BY <1>8, <2>1 DEF ProviderRaises, TypeOK, Stage
<1>9. ASSUME NEW answered \in BOOLEAN, LocalChat(answered) PROVE TypeOK'
  <2>1. attempt' \in Attempt BY <1>9, <1>a DEF LocalChat, Attempt
  <2> QED BY <1>9, <2>1 DEF LocalChat, TypeOK, Stage
<1>10. CASE Raised
  <2>1. attempt' \in Attempt BY <1>10, <1>a DEF Raised, Attempt
  <2>2. published' \subseteq [record : Chat, at : Chat, asked : BOOLEAN]
    BY <1>10, PublishType DEF Raised
  <2> QED BY <1>10, <2>1, <2>2 DEF Raised, TypeOK, Stage
<1>11. ASSUME NEW calls \in 0..MaxCalls, NEW blank \in BOOLEAN, Reply(calls, blank)
       PROVE  TypeOK'
  <2>1. calls \in Nat BY AgentAssumption DEF AgentAssumption
  <2>2. (IF StepsUsedUp THEN 0 ELSE calls) \in Nat BY <2>1
  <2>3. (calls > 0 /\ StepsUsedUp) \in BOOLEAN OBVIOUS
  <2>4. PICK c \in Nat, e \in BOOLEAN :
          attempt' = [attempt EXCEPT !.blank = blank, !.calls = c, !.error = e]
    BY <1>11, <2>2, <2>3, Zenon DEF Reply
  <2>5. attempt' \in Attempt BY <1>a, <2>4 DEF Attempt
  <2>6. published' \subseteq [record : Chat, at : Chat, asked : BOOLEAN]
    BY <1>11, PublishType DEF Reply
  <2>7. stage' \in Stage BY <1>11 DEF Reply, Stage
  <2> QED BY <1>11, <2>5, <2>6, <2>7 DEF Reply, TypeOK
<1>12. ASSUME NEW f \in File, NEW content \in {"good", "bad"}, WriteFile(f, content)
       PROVE  TypeOK'
  <2>1. attempt' \in Attempt BY <1>12, CallToolType DEF WriteFile
  <2>2. disk' \in [File -> Content] BY <1>12 DEF WriteFile, TypeOK, Content
  <2> QED BY <1>12, <2>1, <2>2 DEF WriteFile, CallTool, TypeOK
<1>13. ASSUME NEW f \in File, WriteTorn(f) PROVE TypeOK'
  <2>1. attempt' \in Attempt BY <1>13, CallToolType DEF WriteTorn
  <2>2. disk' \in [File -> Content] BY <1>13 DEF WriteTorn, TypeOK, Content
  <2> QED BY <1>13, <2>1, <2>2 DEF WriteTorn, CallTool, TypeOK
<1>14. ASSUME NEW f \in File, NEW content \in Content, NEW failed \in BOOLEAN,
              RunCommand(f, content, failed)
       PROVE  TypeOK'
  <2>1. attempt' \in Attempt BY <1>14, CallToolType DEF RunCommand
  <2>2. disk' \in [File -> Content] BY <1>14 DEF RunCommand, TypeOK
  <2> QED BY <1>14, <2>1, <2>2 DEF RunCommand, CallTool, TypeOK
<1>15. ASSUME NEW failed \in BOOLEAN, OtherTool(failed) PROVE TypeOK'
  <2>1. attempt' \in Attempt BY <1>15, CallToolType DEF OtherTool
  <2> QED BY <1>15, <2>1 DEF OtherTool, CallTool, TypeOK
<1>16. CASE ToolsDone
  <2>1. attempt.step + 1 \in Nat BY <1>a DEF Attempt
  <2>2. attempt' \in Attempt BY <1>16, <1>a, <2>1 DEF ToolsDone, Attempt
  <2> QED BY <1>16, <2>2 DEF ToolsDone, TypeOK, Stage
<1>17. ASSUME NEW sound \in BOOLEAN, Verify(sound) PROVE TypeOK'
  <2>1. PICK b \in BOOLEAN : attempt' = [attempt EXCEPT !.passed = b]
    BY <1>17, Zenon DEF Verify
  <2>2. attempt' \in Attempt BY <1>a, <2>1 DEF Attempt
  <2>3. tracked' \subseteq File BY <1>17 DEF Verify, Cumulative, TypeOK
  <2> QED BY <1>17, <2>2, <2>3 DEF Verify, TypeOK, Stage
<1>18. CASE NoRestore
  <2>1. attempt' \in Attempt /\ stage' \in Stage BY <1>18, ContinueType DEF NoRestore, Stage
  <2> QED BY <1>18, <2>1 DEF NoRestore, TypeOK
<1>19. ASSUME NEW outcome \in {"PASS", "UNKNOWN"}, ReconcileIdle(outcome) PROVE TypeOK'
  <2>1. attempt' \in Attempt /\ stage' \in Stage
    BY <1>19, ContinueType DEF ReconcileIdle, Stage
  <2>2. owed' \subseteq Worker /\ strayed' \subseteq Worker /\ lost' = lost
    BY <1>19 DEF ReconcileIdle, Reconciled, TypeOK
  <2> QED BY <1>19, <2>1, <2>2 DEF ReconcileIdle, TypeOK
<1>20. ASSUME NEW loads \in BOOLEAN, NEW confirmed \in BOOLEAN, NEW R \in SUBSET Worker,
              ReconcileWarms(loads, confirmed, R)
       PROVE  TypeOK'
  <2>1. attempt' \in Attempt /\ stage' \in Stage
    BY <1>20, ContinueType DEF ReconcileWarms, Stage
  <2>2. attempt.place.worker \in Worker
    BY <1>20, <1>a DEF ReconcileWarms, RestoreDue, Attempt, Placement
  <2>3. resident' \in [Worker -> Model \cup {NoModel}]
    BY <1>20, <2>2, AgentAssumption DEF ReconcileWarms, AgentAssumption, TypeOK
  <2>4. seen' \in [Worker -> Model \cup {NoModel}]
    BY <1>20, <2>3 DEF ReconcileWarms, TypeOK
  <2>5. owed' \subseteq Worker /\ strayed' \subseteq Worker /\ lost' = lost
    BY <1>20 DEF ReconcileWarms, Reconciled, TypeOK
  <2> QED BY <1>20, <2>1, <2>3, <2>4, <2>5 DEF ReconcileWarms, TypeOK
<1>21. ASSUME NEW w \in Worker, Reobserve(w) PROVE TypeOK'
  <2>1. seen' \in [Worker -> Model \cup {NoModel}] BY <1>21 DEF Reobserve, TypeOK
  <2> QED BY <1>21, <2>1 DEF Reobserve, TypeOK
<1>22. CASE UNCHANGED vars
  BY <1>22 DEF vars, TypeOK
<1>23. ASSUME NEW w \in Worker, NEW m \in Model, RunsLate(w, m) PROVE TypeOK'
  <2>1. resident' \in [Worker -> Model \cup {NoModel}] BY <1>23 DEF RunsLate, TypeOK
  <2>2. /\ lost' \subseteq Worker \X Model
        /\ owed' \subseteq Worker
        /\ strayed' \subseteq Worker
    BY <1>23 DEF RunsLate, TypeOK
  <2> QED BY <1>23, <2>1, <2>2 DEF RunsLate, TypeOK
<1> QED
  BY <1>1, <1>2, <1>3, <1>4, <1>5, <1>6, <1>7, <1>8, <1>9, <1>10, <1>11, <1>12, <1>13,
     <1>14, <1>15, <1>16, <1>17, <1>18, <1>19, <1>20, <1>21, <1>22, <1>23 DEF Next, Step

\* Only Dispatch puts a chat into Fabric's hands, and it asks for a worker.
LEMMA PlacedStep == ASSUME TypeOK, Placed, [Next]_vars PROVE Placed'
<1>a. attempt \in Attempt BY DEF TypeOK
<1>1. CASE Dispatch
  <2>1. attempt'.place = attempt.place BY <1>1, <1>a DEF Dispatch, Attempt
  <2> QED BY <1>1, <2>1 DEF Dispatch, Placed
<1>2. CASE WorkerExecutes
  BY <1>2 DEF WorkerExecutes, Placed
<1>3. CASE UNCHANGED <<stage, attempt>>
  BY <1>3 DEF Placed
<1>4. CASE stage' \notin {"sent", "executed"}
  BY <1>4 DEF Placed
<1>5. Dispatch \/ WorkerExecutes \/ UNCHANGED <<stage, attempt>> \/ stage' \notin {"sent", "executed"}
  <2>1. ASSUME NEW failed \in BOOLEAN, CallTool(failed)
        PROVE  stage' \notin {"sent", "executed"}
    BY <2>1 DEF CallTool
  <2> QED
    BY <2>1 DEF Next, Step, vars, Resolve, Unplaced, DispatchRaises, Collect, FallBack,
      ProviderRaises, LocalChat, Raised, Reply, WriteFile, WriteTorn, RunCommand,
      OtherTool, ToolsDone, Verify, NoRestore, ReconcileIdle, ReconcileWarms, Continue,
      Reobserve, RunsLate
<1> QED BY <1>1, <1>2, <1>3, <1>4, <1>5

\* Every reachable state is well typed, whatever the fleet, the configuration,
\* the route and the bounds (LocalAgent.run and all it calls).
THEOREM TypeCorrect == Spec => []TypeOK
<1>1. Init => TypeOK /\ Placed
  BY InitType, AgentAssumption DEF Init, Placed
<1>2. TypeOK /\ Placed /\ [Next]_vars => (TypeOK /\ Placed)'
  BY TypeStep, PlacedStep, AgentAssumption
<1> QED BY <1>1, <1>2, PTL DEF Spec

------------------------------------------------------------------------------
(***************************************************************************)
(* Evidence.  From the moment Fabric takes a chat until its outcome was    *)
(* published, the session holds that chat's record or none.                *)
(***************************************************************************)
InHand == {"sent", "executed", "failed", "reply", "raised"}

RecordIsOwn == stage \in InHand /\ attempt.asked => record \in {NoRecord, At}

\* Publishing under RecordIsOwn publishes the chat's own record.
LEMMA PublishOwn ==
  ASSUME EvidenceIsOwn, RecordIsOwn, stage \in InHand, Publish
  PROVE  EvidenceIsOwn'
BY DEF EvidenceIsOwn, RecordIsOwn, Publish

LEMMA EvidenceStep ==
  ASSUME TypeOK, EvidenceIsOwn, RecordIsOwn, [Next]_vars
  PROVE  (EvidenceIsOwn /\ RecordIsOwn)'
<1> USE DEF fabric, InHand
<1>a. attempt \in Attempt BY DEF TypeOK
<1>k. ASSUME published' = published PROVE EvidenceIsOwn'
  BY <1>k DEF EvidenceIsOwn
<1>i. ASSUME stage' \notin InHand PROVE RecordIsOwn'
  BY <1>i DEF RecordIsOwn
<1>1. CASE Dispatch
  BY <1>1, <1>k DEF Dispatch, ResetRecord, RecordIsOwn
<1>2. CASE Unplaced
  <2>1. attempt'.asked = FALSE BY <1>2, <1>a DEF Unplaced, Attempt
  <2> QED BY <1>2, <2>1, <1>k DEF Unplaced, RecordIsOwn
<1>3. CASE WorkerExecutes \/ DispatchRaises
  <2>1. UNCHANGED <<attempt, record, published>> /\ stage \in InHand
    BY <1>3 DEF WorkerExecutes, DispatchRaises
  <2> QED BY <2>1, <1>k DEF RecordIsOwn, At
<1>4. ASSUME NEW usable \in BOOLEAN, Collect(usable) PROVE (EvidenceIsOwn /\ RecordIsOwn)'
  <2>1. attempt'.no = attempt.no /\ attempt'.step = attempt.step
    BY <1>4, <1>a DEF Collect, Attempt
  <2> QED BY <1>4, <2>1, <1>k DEF Collect, RecordIsOwn, At
<1>5. ASSUME (\E answered \in BOOLEAN : FallBack(answered)) \/ ProviderRaises
      PROVE  (EvidenceIsOwn /\ RecordIsOwn)'
  <2>1. /\ attempt'.no = attempt.no
        /\ attempt'.step = attempt.step
        /\ attempt'.asked = attempt.asked
    BY <1>5, <1>a DEF FallBack, ProviderRaises, Attempt
  <2>2. UNCHANGED <<record, published>> /\ stage \in InHand
    BY <1>5 DEF FallBack, ProviderRaises
  <2> QED BY <2>1, <2>2, <1>k DEF RecordIsOwn, At
<1>6. ASSUME NEW answered \in BOOLEAN, LocalChat(answered) PROVE (EvidenceIsOwn /\ RecordIsOwn)'
  <2>1. attempt'.asked = FALSE BY <1>6, <1>a DEF LocalChat, Attempt
  <2> QED BY <1>6, <2>1, <1>k DEF LocalChat, RecordIsOwn
<1>7. ASSUME Raised \/ \E calls \in 0..MaxCalls, blank \in BOOLEAN : Reply(calls, blank)
      PROVE  (EvidenceIsOwn /\ RecordIsOwn)'
  <2>1. Publish /\ stage \in InHand /\ stage' \notin InHand BY <1>7 DEF Raised, Reply
  <2> QED BY <2>1, <1>i, PublishOwn
<1>8. CASE UNCHANGED <<stage, attempt, record, published>>
  BY <1>8, <1>k DEF RecordIsOwn, At
<1>9. ASSUME published' = published, stage' \notin InHand PROVE (EvidenceIsOwn /\ RecordIsOwn)'
  BY <1>9, <1>i, <1>k
<1>10. \/ Dispatch \/ Unplaced \/ WorkerExecutes \/ DispatchRaises
       \/ \E usable \in BOOLEAN : Collect(usable)
       \/ (\E answered \in BOOLEAN : FallBack(answered)) \/ ProviderRaises
       \/ \E answered \in BOOLEAN : LocalChat(answered)
       \/ Raised \/ \E calls \in 0..MaxCalls, blank \in BOOLEAN : Reply(calls, blank)
       \/ UNCHANGED <<stage, attempt, record, published>>
       \/ published' = published /\ stage' \notin InHand
  BY DEF Next, Step, vars, Resolve, CallTool, WriteFile, WriteTorn, RunCommand, OtherTool,
    ToolsDone, Verify, NoRestore, ReconcileIdle, ReconcileWarms, Continue, Reobserve, RunsLate
<1> QED BY <1>1, <1>2, <1>3, <1>4, <1>5, <1>6, <1>7, <1>8, <1>9, <1>10

\* The evidence of a chat that Fabric took is that chat's own execution, in every
\* run (_publish_fabric_evidence after FabricSession.chat).
THEOREM EvidenceCorrect == Spec => []EvidenceIsOwn
<1>1. Init => EvidenceIsOwn /\ RecordIsOwn
  BY DEF Init, EvidenceIsOwn, RecordIsOwn, InHand
<1>2. TypeOK /\ EvidenceIsOwn /\ RecordIsOwn /\ [Next]_vars => (EvidenceIsOwn /\ RecordIsOwn)'
  BY EvidenceStep
<1> QED BY <1>1, <1>2, TypeCorrect, PTL DEF Spec

------------------------------------------------------------------------------
(***************************************************************************)
(* Files.  What was written is tracked or about to be; once an attempt was *)
(* verified and passed, none of it is broken.                              *)
(***************************************************************************)
Ended == {"restore", "resolve", "done"}

WrittenIsTracked ==
  /\ written \subseteq tracked \cup touched
  /\ stage \in Ended => written \subseteq tracked

PassedIsSound ==
  stage \in {"restore", "done"} /\ attempt.passed => \A f \in tracked : disk[f] # "bad"

LEMMA FilesStep ==
  ASSUME TypeOK, WrittenIsTracked, PassedIsSound, [Next]_vars
  PROVE  (WrittenIsTracked /\ PassedIsSound)'
<1> USE DEF files, Ended
<1>a. attempt \in Attempt BY DEF TypeOK
<1>1. ASSUME NEW p \in Resolutions, Resolve(p) PROVE (WrittenIsTracked /\ PassedIsSound)'
  BY <1>1 DEF Resolve, WrittenIsTracked, PassedIsSound
<1>2. ASSUME NEW f \in File, NEW content \in {"good", "bad"}, WriteFile(f, content)
      PROVE  (WrittenIsTracked /\ PassedIsSound)'
  BY <1>2 DEF WriteFile, CallTool, WrittenIsTracked, PassedIsSound
<1>3. ASSUME stage = "tools", stage' = "tools", UNCHANGED <<touched, tracked, written>>
      PROVE  (WrittenIsTracked /\ PassedIsSound)'
  BY <1>3 DEF WrittenIsTracked, PassedIsSound
<1>4. ASSUME NEW sound \in BOOLEAN, Verify(sound) PROVE (WrittenIsTracked /\ PassedIsSound)'
  <2>1. PICK b \in BOOLEAN : /\ attempt' = [attempt EXCEPT !.passed = b]
                             /\ b => \A f \in Cumulative : disk[f] # "bad"
    BY <1>4, Zenon DEF Verify
  <2>2. attempt'.passed = b BY <1>a, <2>1 DEF Attempt
  <2> QED BY <1>4, <2>1, <2>2 DEF Verify, Cumulative, WrittenIsTracked, PassedIsSound
<1>5. ASSUME NEW outcome, Continue(outcome), stage = "restore", UNCHANGED files
      PROVE  (WrittenIsTracked /\ PassedIsSound)'
  <2>1. stage' = "done" => attempt'.passed = attempt.passed
    BY <1>5, <1>a DEF Continue, Attempt
  <2>2. stage' \in {"done", "resolve"} BY <1>5 DEF Continue
  <2> QED BY <1>5, <2>1, <2>2 DEF WrittenIsTracked, PassedIsSound
<1>6. CASE UNCHANGED <<stage, attempt, files>>
  BY <1>6 DEF WrittenIsTracked, PassedIsSound
<1>7. ASSUME stage' \notin Ended, UNCHANGED files PROVE (WrittenIsTracked /\ PassedIsSound)'
  BY <1>7 DEF WrittenIsTracked, PassedIsSound
<1>8. \/ \E p \in Resolutions : Resolve(p)
      \/ \E f \in File, content \in {"good", "bad"} : WriteFile(f, content)
      \/ stage = "tools" /\ stage' = "tools" /\ UNCHANGED <<touched, tracked, written>>
      \/ \E sound \in BOOLEAN : Verify(sound)
      \/ \E outcome \in {"none", "PASS", "UNKNOWN"} :
           Continue(outcome) /\ stage = "restore" /\ UNCHANGED files
      \/ UNCHANGED <<stage, attempt, files>>
      \/ stage' \notin Ended /\ UNCHANGED files
  <2>1. ASSUME \/ \E f \in File : WriteTorn(f)
               \/ \E f \in File, content \in Content, failed \in BOOLEAN :
                    RunCommand(f, content, failed)
               \/ \E failed \in BOOLEAN : OtherTool(failed)
        PROVE  stage = "tools" /\ stage' = "tools" /\ UNCHANGED <<touched, tracked, written>>
    BY <2>1 DEF WriteTorn, RunCommand, OtherTool, CallTool
  <2>2. ASSUME \/ NoRestore
               \/ \E outcome \in {"PASS", "UNKNOWN"} : ReconcileIdle(outcome)
               \/ \E loads, confirmed \in BOOLEAN, R \in SUBSET Worker :
                    ReconcileWarms(loads, confirmed, R)
        PROVE  \E outcome \in {"none", "PASS", "UNKNOWN"} :
                 Continue(outcome) /\ stage = "restore" /\ UNCHANGED files
    BY <2>2, Zenon DEF NoRestore, ReconcileIdle, ReconcileWarms
  <2>3. ASSUME \/ Dispatch \/ Unplaced \/ WorkerExecutes \/ DispatchRaises
               \/ \E usable \in BOOLEAN : Collect(usable)
               \/ \E answered \in BOOLEAN : FallBack(answered)
               \/ ProviderRaises
               \/ \E answered \in BOOLEAN : LocalChat(answered)
               \/ Raised
               \/ \E calls \in 0..MaxCalls, blank \in BOOLEAN : Reply(calls, blank)
               \/ ToolsDone
        PROVE  stage' \notin Ended /\ UNCHANGED files
    BY <2>3 DEF Dispatch, Unplaced, WorkerExecutes, DispatchRaises, Collect, FallBack,
      ProviderRaises, LocalChat, Raised, Reply, ToolsDone
  <2>4. ASSUME \E w \in Worker : Reobserve(w) \/ \E m \in Model : RunsLate(w, m)
        PROVE  UNCHANGED <<stage, attempt, files>>
    BY <2>4 DEF Reobserve, RunsLate
  <2>5. UNCHANGED vars => UNCHANGED <<stage, attempt, files>> BY DEF vars
  <2> QED BY <2>1, <2>2, <2>3, <2>4, <2>5 DEF Next, Step
<1> QED BY <1>1, <1>2, <1>3, <1>4, <1>5, <1>6, <1>7, <1>8

\* A run that passed left no broken file among those its attempts wrote, however
\* many attempts, tools, commands and failures there were (cumulative_modified
\* and Verifier.verify).
THEOREM PassedIsVerified == Spec => []PassMeansVerified
<1>1. Init => WrittenIsTracked /\ PassedIsSound
  BY DEF Init, WrittenIsTracked, PassedIsSound
<1>2. TypeOK /\ WrittenIsTracked /\ PassedIsSound /\ [Next]_vars
        => (WrittenIsTracked /\ PassedIsSound)'
  BY FilesStep
<1>3. WrittenIsTracked /\ PassedIsSound => PassMeansVerified
  BY DEF WrittenIsTracked, PassedIsSound, PassMeansVerified, Ended
<1> QED BY <1>1, <1>2, <1>3, TypeCorrect, PTL DEF Spec
------------------------------------------------------------------------------
(***************************************************************************)
(* Workers.  Without a fallback to the controller and but for bundles run   *)
(* late, only the worker of the attempt under way can be displaced, and    *)
(* its attempt will restore it.                                            *)
(***************************************************************************)
Due == owed \ strayed

Owing ==
  config.residency /\ ~config.fallback =>
    /\ stage \in {"resolve", "done"} => Due = {}
    /\ Due # {} => /\ attempt.place.kind = "worker"
                   /\ Due = {attempt.place.worker}
                   /\ Displaces(attempt.place.worker, attempt.place.model)
    /\ attempt.place.kind = "worker" => attempt.target # "controller"

\* A step inside an attempt that leaves owed alone.
OwingKept ==
  /\ UNCHANGED <<config, owed, strayed>>
  /\ stage' \notin {"resolve", "done"}
  /\ stage # "resolve"
  /\ attempt'.place = attempt.place
  /\ \/ attempt'.target = attempt.target
     \/ attempt'.target # "controller"
     \/ attempt.place.kind # "worker"
     \/ config.fallback

\* The steps of an attempt from its first chat to its verification.
LEMMA AttemptKeepsOwing ==
  ASSUME TypeOK,
         \/ Dispatch \/ Unplaced \/ DispatchRaises
         \/ \E usable \in BOOLEAN : Collect(usable)
         \/ \E answered \in BOOLEAN : FallBack(answered)
         \/ ProviderRaises
         \/ \E answered \in BOOLEAN : LocalChat(answered)
         \/ Raised
         \/ \E calls \in 0..MaxCalls, blank \in BOOLEAN : Reply(calls, blank)
         \/ \E failed \in BOOLEAN : CallTool(failed)
         \/ ToolsDone
         \/ \E sound \in BOOLEAN : Verify(sound)
  PROVE  OwingKept
<1> USE DEF files, fabric, debts, OwingKept
<1>a. attempt \in Attempt BY DEF TypeOK
<1>1. CASE Dispatch \/ Unplaced \/ DispatchRaises
  <2>1. attempt'.place = attempt.place /\ attempt'.target = attempt.target
    BY <1>1, <1>a DEF Dispatch, Unplaced, DispatchRaises, Attempt
  <2> QED BY <1>1, <2>1 DEF Dispatch, Unplaced, DispatchRaises
<1>2. ASSUME NEW usable \in BOOLEAN, Collect(usable) PROVE OwingKept
  <2>1. attempt'.place = attempt.place /\ attempt'.target \in {attempt.target, "worker"}
    BY <1>2, <1>a DEF Collect, Attempt
  <2> QED BY <1>2, <2>1 DEF Collect
<1>3. ASSUME NEW answered \in BOOLEAN, FallBack(answered) PROVE OwingKept
  <2>1. attempt'.place = attempt.place BY <1>3, <1>a DEF FallBack, Attempt
  <2> QED BY <1>3, <2>1 DEF FallBack
<1>4. CASE ProviderRaises
  <2>1. attempt'.place = attempt.place /\ attempt'.target # "controller"
    BY <1>4, <1>a DEF ProviderRaises, Intended, Attempt
  <2> QED BY <1>4, <2>1 DEF ProviderRaises
<1>5. ASSUME NEW answered \in BOOLEAN, LocalChat(answered) PROVE OwingKept
  <2>1. attempt'.place = attempt.place /\ attempt.place.kind # "worker"
    BY <1>5, <1>a DEF LocalChat, Attempt
  <2> QED BY <1>5, <2>1 DEF LocalChat
<1>6. CASE Raised \/ ToolsDone
  <2>1. attempt'.place = attempt.place /\ attempt'.target = attempt.target
    BY <1>6, <1>a DEF Raised, ToolsDone, Attempt
  <2> QED BY <1>6, <2>1 DEF Raised, ToolsDone
<1>7. ASSUME NEW calls \in 0..MaxCalls, NEW blank \in BOOLEAN, Reply(calls, blank)
      PROVE  OwingKept
  <2>1. attempt'.place = attempt.place /\ attempt'.target = attempt.target
    BY <1>7, <1>a DEF Reply, Attempt
  <2> QED BY <1>7, <2>1 DEF Reply
<1>8. ASSUME NEW failed \in BOOLEAN, CallTool(failed) PROVE OwingKept
  <2>1. attempt'.place = attempt.place /\ attempt'.target = attempt.target
    BY <1>8, <1>a DEF CallTool, Attempt
  <2> QED BY <1>8, <2>1 DEF CallTool
<1>9. ASSUME NEW sound \in BOOLEAN, Verify(sound) PROVE OwingKept
  <2>1. attempt'.place = attempt.place /\ attempt'.target = attempt.target
    BY <1>9, <1>a DEF Verify, Attempt
  <2> QED BY <1>9, <2>1 DEF Verify
<1> QED BY <1>1, <1>2, <1>3, <1>4, <1>5, <1>6, <1>7, <1>8, <1>9

\* The end of an attempt: a restoration that is due settles what is owed, and
\* when none is due nothing is owed.
LEMMA EndSettlesOwing ==
  ASSUME TypeOK, Owing,
         \/ NoRestore
         \/ \E outcome \in {"PASS", "UNKNOWN"} : ReconcileIdle(outcome)
         \/ \E loads, confirmed \in BOOLEAN, R \in SUBSET Worker :
              ReconcileWarms(loads, confirmed, R)
  PROVE  Owing'
<1> USE DEF files, fabric, debts
<1>a. attempt \in Attempt BY DEF TypeOK
<1>1. \E outcome \in {"none", "PASS", "UNKNOWN"} : Continue(outcome)
  BY DEF NoRestore, ReconcileIdle, ReconcileWarms
<1>2. attempt'.place = attempt.place /\ attempt'.target = attempt.target
  BY <1>1, <1>a DEF Continue, Attempt
<1>3. config' = config BY DEF NoRestore, ReconcileIdle, ReconcileWarms
<1>4. config.residency /\ ~config.fallback => Due' = {}
  <2>1. CASE NoRestore
    <3>1. Due' = Due BY <2>1 DEF NoRestore, Due
    <3> QED BY <2>1, <3>1 DEF NoRestore, RestoreDue, Owing
  <2>2. CASE ~NoRestore
    <3>1. Due' = Due \ {attempt.place.worker}
      BY <2>2 DEF ReconcileIdle, ReconcileWarms, Reconciled, Due
    <3> QED BY <3>1 DEF Owing
  <2> QED BY <2>1, <2>2
<1> QED BY <1>2, <1>3, <1>4 DEF Owing

LEMMA OwingStep ==
  ASSUME TypeOK, Placed, Owing, [Next]_vars
  PROVE  Owing'
<1> USE DEF files, fabric, debts
<1>a. attempt \in Attempt BY DEF TypeOK
<1>1. ASSUME NEW p \in Resolutions, Resolve(p) PROVE Owing'
  <2>1. attempt'.target = "none" BY <1>1 DEF Resolve, Begun
  <2>2. Due' = Due BY <1>1 DEF Resolve, Due
  <2> QED BY <1>1, <2>1, <2>2 DEF Resolve, Owing
<1>2. CASE WorkerExecutes
  <2>1. Due' = IF Displaces(attempt.place.worker, attempt.place.model)
               THEN Due \cup {attempt.place.worker} ELSE Due
    BY <1>2 DEF WorkerExecutes, Due
  <2> QED BY <1>2, <2>1 DEF WorkerExecutes, Placed, Owing
<1>3. CASE OwingKept
  <2>1. Due' = Due BY <1>3 DEF OwingKept, Due
  <2> QED BY <1>3, <2>1 DEF OwingKept, Owing
<1>4. ASSUME UNCHANGED <<config, stage, attempt>>, Due' = Due PROVE Owing'
  BY <1>4 DEF Owing
<1>5. ASSUME \/ \E f \in File, content \in {"good", "bad"} : WriteFile(f, content)
             \/ \E f \in File : WriteTorn(f)
             \/ \E f \in File, content \in Content, failed \in BOOLEAN :
                  RunCommand(f, content, failed)
             \/ \E failed \in BOOLEAN : OtherTool(failed)
      PROVE  \E failed \in BOOLEAN : CallTool(failed)
  BY <1>5, Zenon DEF WriteFile, WriteTorn, RunCommand, OtherTool
<1>6. (\E w \in Worker : Reobserve(w)) \/ UNCHANGED vars
        => UNCHANGED <<config, stage, attempt>> /\ Due' = Due
  BY DEF Reobserve, vars, Due
<1>7. ASSUME NEW w \in Worker, NEW m \in Model, RunsLate(w, m) PROVE Owing'
  BY <1>4, <1>7 DEF RunsLate, Due
<1> QED
  BY <1>1, <1>2, <1>3, <1>4, <1>5, <1>6, <1>7, AttemptKeepsOwing, EndSettlesOwing
     DEF Next, Step

\* Without a fallback to the controller, no attempt leaves a worker displaced
\* without having reconciled it (_restore_residency_after_attempt), unless a
\* bundle that ran after its dispatch had raised is all that displaced it.
THEOREM DisplacedReconciled == Spec => []DisplacedIsReconciled
<1>1. Init => Placed /\ Owing
  BY DEF Init, Begun, Placed, Owing, Due
<1>2. TypeOK /\ Placed /\ Owing /\ [Next]_vars => (Placed /\ Owing)'
  BY PlacedStep, OwingStep
<1>3. Owing => DisplacedIsReconciled
  BY DEF Owing, Due, DisplacedIsReconciled
<1> QED BY <1>1, <1>2, <1>3, TypeCorrect, PTL DEF Spec
==============================================================================
