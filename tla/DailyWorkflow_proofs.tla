------------------------ MODULE DailyWorkflow_proofs ------------------------
(***************************************************************************)
(* Machine-checked proofs about DailyWorkflow, for any runs, plans, dates   *)
(* and upsets.                                                              *)
(***************************************************************************)
EXTENDS DailyWorkflow, TLAPS

(* Stages from which the operator's decision shows. *)
Late == {"APPROVAL", "EXECUTION", "REPORT_FINAL"}

Quiet(m) == \A s \in StageNames : m.stages[s] # "SKIPPED"

-----------------------------------------------------------------------------
(* The order of the stages, and what the store's operations leave behind. *)

LEMMA StageOrder ==
  /\ \A s \in StageNames : s \notin Before(s) /\ s \notin After(s)
  /\ \A s, t \in StageNames : t \in Before(s) <=> s \in After(t)
  /\ \A s, t \in StageNames : t = s \/ t \in Before(s) \/ t \in After(s)
  /\ \A s \in StageNames : Before(s) \subseteq StageNames /\ After(s) \subseteq StageNames
  /\ \A s, t \in StageNames : t \in Before(s) => Before(t) \subseteq Before(s)
<1>1. \A s \in StageNames : Place[s] \in Int
  BY DEF Place, StageNames
<1>2. \A s, t \in StageNames : Place[s] = Place[t] => s = t
  BY DEF Place, StageNames
<1>3. QED  BY <1>1, <1>2 DEF Before, After

LEMMA ApprovalPlace ==
  /\ "APPROVAL" \in StageNames /\ "EXECUTION" \in StageNames /\ "RISK" \in StageNames
  /\ Late \subseteq StageNames
  /\ Before("APPROVAL") = StageNames \ Late
  /\ \A s \in Late \ {"APPROVAL"} : "APPROVAL" \in Before(s)
BY DEF Place, StageNames, Before, Late

LEMMA NewType == NewManifest \in RunManifest
BY DEF NewManifest, RunManifest, StageStatus, RunStatus

LEMMA StoreTypes ==
  ASSUME NEW m \in RunManifest, NEW s
  PROVE  /\ StageStarted(m, s) \in RunManifest
         /\ StageCompleted(m, s) \in RunManifest
         /\ StageFailed(m, s) \in RunManifest
         /\ Awaiting(m) \in RunManifest
         /\ Completed(m) \in RunManifest
         /\ Terminated(m) \in RunManifest
BY DEF StageStarted, StageCompleted, StageFailed, Awaiting, Completed, Terminated,
       RunManifest, StageStatus, RunStatus

LEMMA StoreFields ==
  ASSUME NEW m \in RunManifest, NEW s \in StageNames
  PROVE  /\ StageStarted(m, s).stages = [m.stages EXCEPT ![s] = "RUNNING"]
         /\ StageCompleted(m, s).stages = [m.stages EXCEPT ![s] = "COMPLETED"]
         /\ StageFailed(m, s).stages = [m.stages EXCEPT ![s] = "FAILED"]
         /\ StageStarted(m, s).status = "RUNNING"
         /\ StageCompleted(m, s).status = "RUNNING"
         /\ StageFailed(m, s).status = "FAILED"
         /\ Awaiting(m).stages = m.stages /\ Awaiting(m).status = "AWAITING_APPROVAL"
         /\ Completed(m).stages = m.stages /\ Completed(m).status = "COMPLETED"
         /\ Completed(m).rejected = FALSE
         /\ Terminated(m).status = "FAILED"
         /\ Terminated(m).stages = [t \in StageNames |->
              IF m.stages[t] = "PENDING" THEN "SKIPPED" ELSE m.stages[t]]
BY DEF StageStarted, StageCompleted, StageFailed, Awaiting, Completed, Terminated,
       RunManifest

-----------------------------------------------------------------------------
-----------------------------------------------------------------------------
(* TypeOK in three parts; the Boolean kill switch stands apart. *)
FilesOK ==
  /\ owner \in [Dates -> Plans \cup {Absent}]
  /\ applied \subseteq OrderIds /\ valued \subseteq Dates
  /\ planned \in [Runs -> (SUBSET OrderIds) \cup {Absent}]
  /\ verdict \in [Runs -> Verdicts]
  /\ assessed \in [Runs -> Basis \cup {Absent}]
  /\ approval \in [Runs -> Approvals]
  /\ results \subseteq Runs
  /\ latest \in Runs \cup {Absent}
  /\ damaged \subseteq Runs
  /\ upsets \in 0..MaxUpsets

ManifestOK == manifest \in [Runs -> RunManifest \cup {Absent}]

CallOK ==
  /\ call \in [at: Points, run: Runs \cup {Absent}, stage: StageNames \cup {Absent}]
  /\ call.at # "idle" => call.run \in Runs /\ manifest[call.run] # Absent

Typed == FilesOK /\ ManifestOK /\ CallOK

Kept == LeaveFiles /\ LeaveWorld /\ LeaveLedger

(* What a step may do to the manifests and to the running command. *)
Moves(r) ==
  /\ \/ UNCHANGED manifest
     \/ \E m \in RunManifest : Save(r, m)
  /\ \/ Return
     \/ UNCHANGED call
     \/ call.at # "idle" /\ r = R /\ \E p \in Points : Goto(p)
     \/ /\ manifest'[r] # Absent
        /\ \E p \in Points, s \in StageNames \cup {Absent} : Enter(r, p, s)

LEMMA MovesTyped ==
  ASSUME ManifestOK, CallOK, NEW r \in Runs, Moves(r)
  PROVE  ManifestOK' /\ CallOK'
<1>1. ManifestOK' /\ (\A q \in Runs : manifest[q] # Absent => manifest'[q] # Absent)
  BY AbsentRowsAssumption DEF ManifestOK, Moves, Save
<1>2. CASE Return \/ UNCHANGED call
  BY <1>1, <1>2 DEF CallOK, Return, Idle, Points
<1>3. CASE call.at # "idle" /\ r = R /\ \E p \in Points : Goto(p)
  BY <1>1, <1>3 DEF CallOK, Goto, R
<1>4. CASE /\ manifest'[r] # Absent
           /\ \E p \in Points, s \in StageNames \cup {Absent} : Enter(r, p, s)
  BY <1>1, <1>4 DEF CallOK, Enter
<1>5. QED  BY <1>1, <1>2, <1>3, <1>4 DEF Moves

LEMMA KeptTyped ==
  ASSUME FilesOK, Kept
  PROVE  FilesOK' /\ killSwitch' = killSwitch
BY DEF FilesOK, Kept, LeaveFiles, LeaveWorld, LeaveLedger, worldVars, settlementVars

LEMMA Running ==
  ASSUME Typed, call.at # "idle"
  PROVE  R \in Runs /\ M \in RunManifest /\ manifest[R] = M /\ M # Absent
BY AbsentRowsAssumption DEF Typed, ManifestOK, CallOK, R, M

LEMMA StepRuns == Step => call.at # "idle"
BY DEF Step, WriteApproval, FinishStage, DataReady, RaiseAgain, Produce, MakePlan, Assess,
       ReuseResult, Validate, Recheck, OpenSession, Settle, WriteResult, FindDamage, CompleteRun, Publish,
       DataStage, RunStage, RefuseData, Reject, Await, AtApproval, Turn

(* The files and the running command always have their types, and a running    *)
(* command's run has a manifest, whatever crashes, failures and damage happen.  *)
THEOREM WorkflowTypeCorrect == Spec => []TypeOK
<1>1. Init => TypeOK
  <2> SUFFICES ASSUME Init PROVE TypeOK
    OBVIOUS
  <2>1. FilesOK
    <3>1. planned \in [Runs -> (SUBSET OrderIds) \cup {Absent}]
      BY Zenon DEF Init
    <3>2. assessed \in [Runs -> Basis \cup {Absent}]
      BY Zenon DEF Init
    <3>3. QED  BY <3>1, <3>2, UpsetsAssumption
          DEF Init, SettlementInit, FilesOK, Verdicts, Approvals
  <2>2. ManifestOK /\ CallOK
    BY DEF Init, ManifestOK, CallOK, Idle, Points
  <2>3. killSwitch \in BOOLEAN
    BY Zenon DEF Init
  <2>4. QED  BY <2>1, <2>2, <2>3, Zenon DEF TypeOK, FilesOK, ManifestOK, CallOK
<1>2. TypeOK /\ [Next]_vars => TypeOK'
  <2> SUFFICES ASSUME TypeOK, [Next]_vars
               PROVE  TypeOK'
    OBVIOUS
  <2>1. Typed /\ killSwitch \in BOOLEAN
    BY Zenon DEF TypeOK, Typed, FilesOK, ManifestOK, CallOK
  <2> DEFINE Good == Typed' /\ killSwitch' \in {TRUE, FALSE, killSwitch}
  <2>2. ASSUME NEW r \in Runs, Kept, Moves(r) PROVE Good
    BY <2>1, <2>2, KeptTyped, MovesTyped DEF Typed
  <2>3. SUFFICES ASSUME Next PROVE Good
    <3>1. CASE UNCHANGED vars
      <4>1. Typed' /\ killSwitch' = killSwitch
        BY <2>1, <3>1
        DEF vars, filesVars, worldVars, settlementVars, Typed, FilesOK, CallOK, ManifestOK
      <4>2. QED BY <4>1, <2>1, Zenon DEF TypeOK, Typed, FilesOK, ManifestOK, CallOK
    <3>2. CASE Good
      <4>1. (killSwitch \in BOOLEAN)'
        BY <3>2, <2>1, Zenon
      <4>2. QED  BY <3>2, <4>1, Zenon DEF TypeOK, Typed, FilesOK, ManifestOK, CallOK
    <3>3. QED BY <3>1, <3>2, <2>3
  <2> HIDE DEF Good
  <2>4. ASSUME NEW r \in Runs, Command(r)
        PROVE  Good
    <3>0. Kept
      BY <2>4 DEF Command, Start, Resume, Execute, Grant, Kept
    <3>1. manifest[r] # Absent => manifest[r] \in RunManifest
      BY <2>1 DEF Typed, ManifestOK
    <3>2. ASSUME NEW m, Answer(r, m), manifest'[r] # Absent
          PROVE  Return \/ \E p \in Points, s \in StageNames \cup {Absent} : Enter(r, p, s)
      BY <3>2 DEF Answer, Points
    <3>3. CASE Start(r)
      <4>1. PICK m \in RunManifest : Save(r, m)
        BY <3>1, <3>3, NewType DEF Start, Opened
      <4>2. manifest'[r] # Absent
        BY <4>1, <2>1, AbsentRowsAssumption DEF Save, Typed, ManifestOK
      <4>3. Moves(r)
        BY <3>2, <3>3, <4>1, <4>2 DEF Start, Moves, Points
      <4>4. QED  BY <2>2, <3>0, <4>3
    <3>4. CASE Resume(r)
      <4>1. Moves(r)
        BY <3>2, <3>4 DEF Resume, Moves, Points
      <4>2. QED  BY <2>2, <3>0, <4>1
    <3>5. CASE Execute(r)
      <4>1. Moves(r)
        BY <3>5 DEF Execute, Moves, Points
      <4>2. QED  BY <2>2, <3>0, <4>1
    <3>6. CASE Grant(r)
      <4>1. StageStarted(manifest[r], "APPROVAL") \in RunManifest
        BY <3>1, <3>6, StoreTypes, ApprovalPlace DEF Grant
      <4>2. manifest'[r] # Absent
        BY <3>6, <4>1, <2>1, AbsentRowsAssumption DEF Grant, Save, Typed, ManifestOK
      <4>3. Moves(r)
        BY <3>6, <4>1, <4>2, ApprovalPlace DEF Grant, Moves, Points
      <4>4. QED  BY <2>2, <3>0, <4>3
    <3>7. QED BY <2>4, <3>3, <3>4, <3>5, <3>6 DEF Command
  <2>5. ASSUME Step
        PROVE  Good
    <3>1. call.at # "idle"
      BY <2>5, StepRuns
    <3>2. R \in Runs /\ M \in RunManifest /\ manifest[R] = M /\ M # Absent
      BY <3>1, <2>1, Running
    <3>3. ASSUME UNCHANGED manifest \/ \E m \in RunManifest : Save(R, m),
                 \/ Return \/ UNCHANGED call
                 \/ \E p \in Points : Goto(p)
                 \/ \E p \in Points, s \in StageNames \cup {Absent} : Enter(R, p, s)
          PROVE  Moves(R)
      <4>1. manifest'[R] # Absent
        BY <3>2, <3>3, <2>1, AbsentRowsAssumption DEF Save, Typed, ManifestOK
      <4>2. QED  BY <3>1, <3>2, <3>3, <4>1 DEF Moves
    <3>4. ASSUME Kept, Moves(R) PROVE Good
      BY <2>2, <3>2, <3>4
    <3>5. ASSUME NEW s \in StageNames, BeginStage(s) \/ RefuseStage(s) PROVE Good
      <4>1. Kept
        BY <3>5 DEF BeginStage, RefuseStage, Kept
      <4>2. UNCHANGED manifest \/ \E m \in RunManifest : Save(R, m)
        BY <3>5, <3>2, StoreTypes DEF BeginStage, RefuseStage
      <4>3. Moves(R)
        BY <3>5, <3>3, <4>2 DEF BeginStage, RefuseStage, Points
      <4> QED BY <4>1, <4>3, <3>4
    <3>6. ASSUME FailStage, LeaveWorld PROVE Good
      <4>1. Kept
        BY <3>6 DEF FailStage, Kept
      <4>2. Moves(R)
        BY <3>6, <3>2, <3>3, StoreTypes DEF FailStage
      <4> QED BY <4>1, <4>2, <3>4
    <3>7. CASE Produce \/ DataReady \/ ReuseResult \/ FindDamage
      <4>1. Kept
        BY <3>7 DEF Produce, DataReady, ReuseResult, FindDamage, Kept
      <4>2. Moves(R)
        BY <3>7, <3>3 DEF Produce, DataReady, ReuseResult, FindDamage, Points
      <4> QED BY <4>1, <4>2, <3>4
    <3>21. CASE RaiseAgain
      BY <3>21, <3>6 DEF RaiseAgain
    <3>8. CASE \E s \in StageNames : DataStage(s) \/ RunStage(s)
      BY <3>8, <3>5 DEF DataStage, RunStage
    <3>9. CASE \E s \in StageNames : RefuseData(s)
      BY <3>9, <3>3, <3>4 DEF RefuseData, Kept
    <3>10. CASE \E s \in StageNames : Reject(s) \/ Await(s)
      <4>1. Kept
        BY <3>10 DEF Reject, Await, Kept
      <4>2. Moves(R)
        BY <3>10, <3>2, <3>3, StoreTypes DEF Reject, Await, Save
      <4> QED BY <4>1, <4>2, <3>4
    <3>11. CASE CompleteRun \/ FinishStage
      <4>1. Kept
        BY <3>11 DEF CompleteRun, FinishStage, Kept
      <4>2. Moves(R)
        BY <3>11, <3>2, <3>3, StoreTypes DEF CompleteRun, FinishStage, Points
      <4> QED BY <4>1, <4>2, <3>4
    <3>13. CASE Validate
      <4>1. ASSUME LeaveFiles, LeaveLedger, UNCHANGED manifest, Goto("rechecking")
            PROVE  Good
        BY <4>1, <3>13, <3>3, <3>4 DEF Validate, Kept, Points
      <4>2. QED  BY <4>1, <3>6, <3>13 DEF Validate
    <3>14. CASE Recheck
      <4>1. ASSUME LeaveFiles, LeaveLedger, UNCHANGED manifest, Goto("opening")
            PROVE  Good
        BY <4>1, <3>14, <3>3, <3>4 DEF Recheck, Kept, Points
      <4>2. QED  BY <4>1, <3>6, <3>14 DEF Recheck
    <3>15. ASSUME FilesOK', killSwitch' = killSwitch, UNCHANGED manifest,
                  Return \/ UNCHANGED call \/ \E p \in Points : Goto(p)
           PROVE  Good
      <4>1. Moves(R)
        BY <3>3, <3>15
      <4>2. QED  BY <4>1, <3>2, <3>15, <2>1, MovesTyped DEF Good, Typed
    <3>12. CASE MakePlan
      <4>1. ASSUME planned' = [planned EXCEPT ![R] = applied], Goto("finishing"), LeaveLedger,
                   UNCHANGED <<manifest, verdict, assessed, approval, results, latest>>,
                   LeaveWorld
            PROVE  Good
        <5>1. FilesOK'
          BY <4>1, <3>2, <2>1 DEF Typed, FilesOK, LeaveLedger, settlementVars, LeaveWorld,
             worldVars
        <5>2. QED  BY <5>1, <4>1, <3>15 DEF LeaveWorld, worldVars, Points
      <4>2. QED  BY <4>1, <3>6, <3>12 DEF MakePlan
    <3>16. CASE Assess
      <4>1. ASSUME verdict' \in [Runs -> Verdicts], Goto("finishing"),
                   assessed' = [assessed EXCEPT ![R] = BasisOf(R)],
                   UNCHANGED <<manifest, planned, approval, results, latest>>,
                   LeaveLedger, LeaveWorld
            PROVE  Good
        <5>1. BasisOf(R) \in Basis
          <6>1. NavDays(R) \in SUBSET Dates
            BY <2>1 DEF Typed, FilesOK, NavDays
          <6>2. QED  BY <6>1, <2>1, Zenon DEF BasisOf, Basis
        <5>2. FilesOK'
          BY <4>1, <5>1, <3>2, <2>1 DEF Typed, FilesOK, LeaveLedger, settlementVars,
             LeaveWorld, worldVars
        <5>3. QED  BY <5>2, <4>1, <3>15 DEF LeaveWorld, worldVars, Points
      <4>2. /\ Assessed(R) \subseteq Verdicts
            /\ verdict \in [Runs -> Verdicts]
        BY <2>1 DEF Assessed, Verdicts, Typed, FilesOK
      <4>3. QED  BY <4>1, <4>2, <3>6, <3>16 DEF Assess
    <3>17. CASE WriteApproval \/ WriteResult \/ Publish
      <4>1. FilesOK'
        BY <3>17, <3>2, <2>1 DEF WriteApproval, WriteResult, Publish, Typed, FilesOK,
           LeaveLedger, settlementVars, LeaveWorld, worldVars, Approvals
      <4>2. QED  BY <4>1, <3>17, <3>15
            DEF WriteApproval, WriteResult, Publish, LeaveWorld, worldVars, Points
    <3>18. CASE OpenSession
      <4>1. PlanOf[R] \in Plans
        BY <3>2, RunsAssumption
      <4>2. ASSUME Open(PlanOf[R]), Goto("trading"), UNCHANGED manifest, LeaveFiles, LeaveWorld
            PROVE  Good
        <5>1. FilesOK'
          BY <4>1, <4>2, <2>1 DEF Typed, FilesOK, Open, LeaveFiles, LeaveWorld, worldVars
        <5>2. QED  BY <5>1, <4>2, <3>15 DEF LeaveWorld, worldVars, Points
      <4>3. ASSUME Goto("trading"), UNCHANGED manifest, LeaveFiles, LeaveLedger, LeaveWorld
            PROVE  Good
        BY <4>3, <3>3, <3>4 DEF Kept, Points
      <4>4. QED  BY <4>2, <4>3, <3>6, <3>18 DEF OpenSession
    <3>19. CASE Settle
      <4>1. owner' = owner /\ applied' \subseteq OrderIds /\ valued' \subseteq Dates
        BY <3>19, <3>2, <2>1, RunsAssumption DEF Settle, Apply, Value, Close, Typed, FilesOK,
           LeaveLedger, settlementVars
      <4>3. FilesOK'
        BY <4>1, <3>19, <2>1 DEF Settle, Typed, FilesOK, LeaveFiles, LeaveWorld, worldVars
      <4>2. QED  BY <4>3, <3>19, <3>15 DEF Settle, LeaveWorld, worldVars, Points
    <3>20. QED
      BY <2>5, <3>7, <3>8, <3>9, <3>10, <3>11, <3>12, <3>13, <3>14, <3>16, <3>17, <3>18, <3>19, <3>21
      DEF Step
  <2>6. ASSUME FilesOK', killSwitch' \in {TRUE, FALSE, killSwitch}, UNCHANGED manifest,
               UNCHANGED call \/ Return
        PROVE  Good
    <3>1. Typed'
      BY <2>1, <2>6 DEF Typed, ManifestOK, CallOK, Return, Idle, Points
    <3>2. QED  BY <2>6, <3>1, Zenon DEF Good
  <2>7. ASSUME NEW u, Upset(u) PROVE upsets' \in 0..MaxUpsets
    BY <2>1, <2>7, UpsetsAssumption DEF Upset, Typed, FilesOK
  <2>8. CASE Crash
    <3>1. FilesOK'
      BY <2>1, <2>7, <2>8 DEF Crash, Typed, FilesOK, LeaveFiles, LeaveLedger, settlementVars
    <3>2. QED  BY <2>6, <2>8, <3>1 DEF Crash
  <2>9. CASE Raise
    <3>1. FilesOK'
      BY <2>1, <2>7, <2>9 DEF Raise, Typed, FilesOK, LeaveFiles, LeaveLedger, settlementVars
    <3>2. R \in Runs /\ M \in RunManifest
      BY <2>1, <2>9, Running DEF Raise, InStage
    <3>3. Moves(R)
      BY <2>9, <3>2, StoreTypes DEF Raise, Moves
    <3>4. QED  BY <2>1, <2>9, <3>1, <3>2, <3>3, MovesTyped DEF Good, Typed, Raise
  <2>10. CASE \E r \in Runs : Expire(r)
    <3>1. FilesOK'
      BY <2>1, <2>7, <2>10 DEF Expire, Typed, FilesOK, Approvals, LeaveLedger, settlementVars
    <3>2. QED  BY <2>6, <2>10, <3>1 DEF Expire
  <2>11. CASE \E r \in Runs : Damage(r)
    <3>1. FilesOK'
      BY <2>1, <2>7, <2>11 DEF Damage, Typed, FilesOK, LeaveFiles, LeaveLedger, settlementVars
    <3>2. QED  BY <2>6, <2>11, <3>1 DEF Damage
  <2>12. CASE Engage
    <3>1. FilesOK'
      BY <2>1, <2>7, <2>12 DEF Engage, Typed, FilesOK, LeaveFiles, LeaveLedger, settlementVars
    <3>2. QED  BY <2>6, <2>12, <3>1 DEF Engage
  <2>13. CASE Release
    <3>1. FilesOK'
      BY <2>1, <2>13 DEF Release, Typed, FilesOK, LeaveFiles, LeaveLedger, settlementVars
    <3>2. QED  BY <2>6, <2>13, <3>1 DEF Release
  <2>14. QED
    BY <2>3, <2>4, <2>5, <2>8, <2>9, <2>10, <2>11, <2>12, <2>13 DEF Next
<1>3. QED  BY <1>1, <1>2, PTL DEF Spec

-----------------------------------------------------------------------------
(* The stages of one run, as its manifest shows them. *)
OrderSound(m) ==
  /\ \A s \in StageNames : Done(m, s) => \A t \in Before(s) : Done(m, t)
  /\ \A s \in Before("APPROVAL") : m.stages[s] # "SKIPPED"
  /\ m.status = "COMPLETED" => AllDone(m) /\ m.rejected = FALSE

(* The manifest m of run r against its verdict v, its approval a and the results. *)
GateSound(r, m, v, a, written) ==
  /\ v # "rejected" => Quiet(m)
  /\ v # "approved" => \/ \A s \in Late : m.stages[s] = "PENDING"
                       \/ \A s \in Late : m.stages[s] = "SKIPPED"
  /\ m.stages["RISK"] = "COMPLETED" => v # "none"
  /\ m.stages["APPROVAL"] = "COMPLETED" => a # "none"
  /\ m.stages["EXECUTION"] = "COMPLETED" => r \in written

Sound(r, m, v, a, written) == OrderSound(m) /\ GateSound(r, m, v, a, written)

(* n keeps the stages that m completed before the approval. *)
Keeps(m, n) ==
  \A s \in Before("APPROVAL") : m.stages[s] = "COMPLETED" => n.stages[s] = "COMPLETED"

LEMMA BeginSound ==
  ASSUME NEW r, NEW m \in RunManifest, NEW v, NEW a, NEW written, Sound(r, m, v, a, written),
         NEW s \in StageNames, ~StartRefused(m, s),
         (~Done(m, s) /\ s # "APPROVAL") \/ (s = "APPROVAL" /\ v = "approved")
  PROVE  Sound(r, StageStarted(m, s), v, a, written) /\ Keeps(m, StageStarted(m, s))
<1> DEFINE n == StageStarted(m, s)
<1>1. /\ n.stages = [m.stages EXCEPT ![s] = "RUNNING"]
      /\ n.status = "RUNNING"
      /\ DOMAIN m.stages = StageNames
  BY StoreFields DEF RunManifest
<1> HIDE DEF n
<1>2. \A t \in Before(s) : Done(m, t)
  BY DEF StartRefused
<1>3. \A t \in After(s) : ~Done(m, t)
  <2>1. CASE ~Done(m, s)
    BY <2>1, StageOrder DEF Sound, OrderSound
  <2>2. CASE Done(m, s)
    BY <2>2, StageOrder DEF Sound, GateSound, Quiet, Done, StartRefused
  <2>3. QED  BY <2>1, <2>2
<1>4. OrderSound(n)
  BY <1>1, <1>3, StageOrder, ApprovalPlace DEF Sound, OrderSound, Done
<1>5. v # "approved" => s \notin Late
  <2> SUFFICES ASSUME v # "approved", s \in Late
               PROVE  FALSE
    OBVIOUS
  <2>1. ~Done(m, s) /\ Done(m, "APPROVAL")
    BY <1>2, ApprovalPlace
  <2>2. QED  BY <2>1 DEF Sound, GateSound, Done, Late
<1>6. GateSound(r, n, v, a, written)
  BY <1>1, <1>5, ApprovalPlace DEF Sound, GateSound, Quiet
<1>7. Keeps(m, n)
  BY <1>1, ApprovalPlace DEF Keeps, Done, Late
<1>8. QED  BY <1>4, <1>6, <1>7 DEF Sound, n

LEMMA CompleteSound ==
  ASSUME NEW r, NEW m \in RunManifest, NEW v, NEW a, NEW written, Sound(r, m, v, a, written),
         NEW s \in StageNames, m.stages[s] = "RUNNING", \A t \in Before(s) : Done(m, t),
         s = "RISK" => v # "none", s = "APPROVAL" => a # "none",
         s = "EXECUTION" => r \in written
  PROVE  Sound(r, StageCompleted(m, s), v, a, written) /\ Keeps(m, StageCompleted(m, s))
<1> DEFINE n == StageCompleted(m, s)
<1>1. /\ n.stages = [m.stages EXCEPT ![s] = "COMPLETED"]
      /\ n.status = "RUNNING"
      /\ DOMAIN m.stages = StageNames
  BY StoreFields DEF RunManifest
<1> HIDE DEF n
<1>2. OrderSound(n)
  BY <1>1, StageOrder, ApprovalPlace DEF Sound, OrderSound, Done
<1>3. GateSound(r, n, v, a, written)
  BY <1>1, ApprovalPlace DEF Sound, GateSound, Quiet
<1>4. Keeps(m, n)
  BY <1>1, ApprovalPlace DEF Keeps
<1>5. QED  BY <1>2, <1>3, <1>4 DEF Sound, n

LEMMA FailSound ==
  ASSUME NEW r, NEW m \in RunManifest, NEW v, NEW a, NEW written, Sound(r, m, v, a, written),
         NEW s \in StageNames, m.stages[s] = "RUNNING"
  PROVE  Sound(r, StageFailed(m, s), v, a, written) /\ Keeps(m, StageFailed(m, s))
<1> DEFINE n == StageFailed(m, s)
<1>1. /\ n.stages = [m.stages EXCEPT ![s] = "FAILED"]
      /\ n.status = "FAILED"
      /\ DOMAIN m.stages = StageNames
  BY StoreFields DEF RunManifest
<1> HIDE DEF n
<1>2. OrderSound(n)
  BY <1>1, StageOrder, ApprovalPlace DEF Sound, OrderSound, Done
<1>3. GateSound(r, n, v, a, written)
  BY <1>1, ApprovalPlace DEF Sound, GateSound, Quiet
<1>4. Keeps(m, n)
  BY <1>1, ApprovalPlace DEF Keeps
<1>5. QED  BY <1>2, <1>3, <1>4 DEF Sound, n

LEMMA RejectSound ==
  ASSUME NEW r, NEW m \in RunManifest, NEW a, NEW written, Sound(r, m, "rejected", a, written),
         NextIncomplete(m, "APPROVAL")
  PROVE  Sound(r, Terminated(m), "rejected", a, written) /\ Keeps(m, Terminated(m))
<1> DEFINE n == Terminated(m)
<1>1. /\ n.status = "FAILED"
      /\ n.stages = [t \in StageNames |->
            IF m.stages[t] = "PENDING" THEN "SKIPPED" ELSE m.stages[t]]
  BY StoreFields, ApprovalPlace
<1> HIDE DEF n
<1>2. \A s \in Before("APPROVAL") : m.stages[s] = "COMPLETED"
  BY ApprovalPlace DEF NextIncomplete, Sound, OrderSound, Done
<1>3. \A s \in Late : m.stages[s] = "PENDING"
  BY DEF NextIncomplete, Sound, GateSound, Done, Late
<1>4. OrderSound(n)
  BY <1>1, <1>2, <1>3, StageOrder, ApprovalPlace DEF OrderSound, Done
<1>5. GateSound(r, n, "rejected", a, written)
  BY <1>1, <1>2, <1>3, ApprovalPlace DEF Sound, GateSound, Late
<1>6. Keeps(m, n)
  BY <1>1, ApprovalPlace DEF Keeps
<1>7. QED  BY <1>4, <1>5, <1>6 DEF Sound, n

LEMMA StatusSound ==
  ASSUME NEW r, NEW m \in RunManifest, NEW v, NEW a, NEW written, Sound(r, m, v, a, written)
  PROVE  /\ Sound(r, Awaiting(m), v, a, written)
         /\ AllDone(m) => Sound(r, Completed(m), v, a, written)
         /\ Keeps(m, Awaiting(m)) /\ Keeps(m, Completed(m))
<1>1. /\ Awaiting(m).stages = m.stages /\ Awaiting(m).status = "AWAITING_APPROVAL"
      /\ Completed(m).stages = m.stages /\ Completed(m).status = "COMPLETED"
      /\ Completed(m).rejected = FALSE
  BY StoreFields, ApprovalPlace
<1>2. GateSound(r, Awaiting(m), v, a, written) /\ GateSound(r, Completed(m), v, a, written)
  BY <1>1 DEF Sound, GateSound, Quiet
<1>3. OrderSound(Awaiting(m)) /\ (AllDone(m) => OrderSound(Completed(m)))
  BY <1>1 DEF Sound, OrderSound, Done, AllDone
<1>4. Keeps(m, Awaiting(m)) /\ Keeps(m, Completed(m))
  BY <1>1 DEF Keeps
<1>5. QED  BY <1>2, <1>3, <1>4 DEF Sound

LEMMA NewSound ==
  ASSUME NEW r, NEW v, NEW a, NEW written
  PROVE  Sound(r, NewManifest, v, a, written)
BY ApprovalPlace, StageOrder DEF NewManifest, Sound, OrderSound, GateSound, Quiet, Done, Late

(* Verdicts, approvals and results that are once given stay given. *)
LEMMA SoundGrows ==
  ASSUME NEW r, NEW m \in RunManifest, NEW v, NEW a, NEW written, Sound(r, m, v, a, written),
         NEW w, w = v \/ v = "none", NEW b, a # "none" => b # "none",
         NEW more, written \subseteq more
  PROVE  Sound(r, m, w, b, more)
BY DEF Sound, GateSound, Quiet

-----------------------------------------------------------------------------
LEMMA BegunStage ==
  ASSUME NEW m \in RunManifest, NEW s \in StageNames, ~StartRefused(m, s)
  PROVE  /\ StageStarted(m, s).stages[s] = "RUNNING"
         /\ StageStarted(m, s).status = "RUNNING"
         /\ \A t \in Before(s) : Done(StageStarted(m, s), t)
<1> DEFINE n == StageStarted(m, s)
<1>1. /\ n.stages = [m.stages EXCEPT ![s] = "RUNNING"]
      /\ n.status = "RUNNING"
      /\ DOMAIN m.stages = StageNames
  BY StoreFields DEF RunManifest
<1> HIDE DEF n
<1>2. \A t \in Before(s) : Done(n, t)
  BY <1>1, StageOrder DEF StartRefused, Done
<1>3. QED  BY <1>1, <1>2 DEF n

RunsSound ==
  \A r \in Runs : manifest[r] # Absent =>
    Sound(r, manifest[r], verdict[r], approval[r], results)

(* What the running command has already made sure of. *)
CallSound ==
  /\ call.at \in InStage =>
       /\ call.stage \in StageNames
       /\ M.stages[call.stage] = "RUNNING" /\ M.status = "RUNNING"
       /\ \A t \in Before(call.stage) : Done(M, t)
  /\ call.at \in {"rechecking", "opening", "trading", "recording"} =>
       call.stage = "EXECUTION"
  /\ call.at = "granting" => call.stage = "APPROVAL"
  /\ call.at = "finishing" =>
       /\ call.stage = "RISK" => verdict[R] # "none"
       /\ call.stage = "APPROVAL" => approval[R] # "none"
       /\ call.stage = "EXECUTION" => R \in results
  /\ call.at = "data" => M.status # "COMPLETED"
  /\ call.at = "publishing" => M.status = "COMPLETED"

RunInv == RunsSound /\ CallSound /\ PublishedIsCompleted

(* What no step takes back: the manifest of a completed run, the stages completed *)
(* before the approval, a verdict, that an approval was given, and a result.      *)
Lasting ==
  /\ \A r \in Runs : manifest[r] # Absent /\ manifest[r].status = "COMPLETED"
                      => manifest'[r] = manifest[r]
  /\ \A r \in Runs : manifest[r] # Absent
                      => manifest'[r] # Absent /\ Keeps(manifest[r], manifest'[r])
  /\ \A r \in Runs : verdict'[r] = verdict[r] \/ verdict[r] = "none"
  /\ \A r \in Runs : approval[r] # "none" => approval'[r] # "none"
  /\ results \subseteq results'

(* How one step may change one run. *)
Evolves(r) ==
  /\ \/ UNCHANGED manifest
     \/ \E m \in RunManifest :
          /\ Save(r, m)
          /\ Sound(r, m, verdict[r], approval[r], results)
          /\ manifest[r] # Absent =>
               /\ Keeps(manifest[r], m)
               /\ manifest[r].status = "COMPLETED" => m = manifest[r]
  /\ UNCHANGED <<verdict, approval, results>>

LEMMA EvolvesSound ==
  ASSUME ManifestOK, RunsSound, NEW r \in Runs, Evolves(r)
  PROVE  RunsSound' /\ Lasting
BY AbsentRowsAssumption DEF ManifestOK, RunsSound, Evolves, Save, Lasting, Keeps

LEMMA FilesGrow ==
  ASSUME Typed, RunsSound, UNCHANGED manifest,
         \A r \in Runs : verdict'[r] = verdict[r] \/ verdict[r] = "none",
         \A r \in Runs : approval[r] # "none" => approval'[r] # "none",
         results \subseteq results'
  PROVE  RunsSound' /\ Lasting
<1>1. ASSUME NEW r \in Runs, manifest[r] # Absent
      PROVE  Sound(r, manifest[r], verdict'[r], approval'[r], results')
  <2>1. manifest[r] \in RunManifest
    BY <1>1 DEF Typed, ManifestOK
  <2>2. QED  BY <1>1, <2>1, SoundGrows DEF RunsSound
<1>2. QED  BY <1>1 DEF RunsSound, Lasting, Keeps

(* The command ended or is between two stages: nothing is to be known then. *)
Loose(r) == Return \/ Enter(r, "loop", Absent)

LEMMA LooseSound ==
  ASSUME NEW r, Loose(r)
  PROVE  CallSound'
BY DEF Loose, Return, Enter, Idle, CallSound, InStage

LEMMA RunStep ==
  TypeOK /\ TypeOK' /\ RunInv /\ [Next]_vars => RunInv' /\ Lasting /\ (latest' = latest \/ Publish)
<1> SUFFICES ASSUME TypeOK, TypeOK', RunInv, [Next]_vars
             PROVE  RunInv' /\ Lasting /\ (latest' = latest \/ Publish)
  OBVIOUS
<1>1. Typed /\ Typed'
  BY Zenon DEF TypeOK, Typed, FilesOK, ManifestOK, CallOK
<1>2. SUFFICES RunsSound' /\ Lasting /\ CallSound' /\ (latest' = latest \/ Publish)
  <2>1. ASSUME Lasting, latest' = latest PROVE PublishedIsCompleted'
    BY <1>1, <2>1 DEF RunInv, PublishedIsCompleted, Lasting, Typed, FilesOK
  <2>2. ASSUME Lasting, Publish PROVE PublishedIsCompleted'
    <3>1. M.status = "COMPLETED" /\ M # Absent
      BY <2>2, <1>1, Running DEF Publish, RunInv, CallSound
    <3>2. QED  BY <1>1, <2>2, <3>1 DEF RunInv, PublishedIsCompleted, Publish, M
  <2>3. QED  BY <1>2, <2>1, <2>2 DEF RunInv
<1>3. CASE UNCHANGED vars
  BY <1>1, <1>3 DEF RunInv, RunsSound, CallSound, Lasting, Keeps, M, R, vars, filesVars
<1> DEFINE Good == RunsSound' /\ Lasting /\ CallSound' /\ (latest' = latest \/ Publish)
<1>4. ASSUME NEW r \in Runs, Evolves(r), CallSound', latest' = latest
      PROVE  Good
  BY <1>1, <1>4, EvolvesSound DEF RunInv, Typed
<1>5. ASSUME Typed, RunsSound, UNCHANGED manifest,
             \A r \in Runs : verdict'[r] = verdict[r] \/ verdict[r] = "none",
             \A r \in Runs : approval[r] # "none" => approval'[r] # "none",
             results \subseteq results', CallSound', latest' = latest \/ Publish
      PROVE  Good
  BY <1>1, <1>5, FilesGrow DEF RunInv
<1> SUFFICES Good
  OBVIOUS
<1> HIDE DEF Good
<1>6. ASSUME NEW r \in Runs, Command(r) PROVE Good
  <2>1. UNCHANGED <<verdict, approval, results, latest>>
    BY <1>6 DEF Command, Start, Resume, Execute, Grant, LeaveFiles
  <2>2. manifest[r] # Absent =>
          manifest[r] \in RunManifest /\ Sound(r, manifest[r], verdict[r], approval[r], results)
    BY <1>1 DEF Typed, ManifestOK, RunInv, RunsSound
  <2>3. ASSUME NEW m, m.status = manifest'[r].status, Answer(r, m)
        PROVE  CallSound'
    BY <2>3, LooseSound DEF Answer, Loose, Enter, CallSound, InStage, M, R
  <2>4. CASE Start(r)
    <3>1. PICK m \in RunManifest : /\ m = Opened(r)
                                  /\ Sound(r, m, verdict[r], approval[r], results)
      BY <2>2, NewType, NewSound DEF Opened
    <3>2. manifest[r] # Absent => m = manifest[r] /\ Keeps(manifest[r], m)
      BY <3>1 DEF Opened, Keeps
    <3>3. /\ Save(r, m)
          /\ Answer(r, m) \/ (~Answered(m) /\ Enter(r, "data", Absent))
      BY <2>4, <3>1 DEF Start
    <3>4. Evolves(r) /\ manifest'[r] = m
      BY <2>1, <3>1, <3>2, <3>3, <1>1 DEF Evolves, Save, Typed, ManifestOK
    <3>5. CASE Answer(r, m)
      BY <1>4, <2>1, <2>3, <3>4, <3>5
    <3>6. CASE ~Answered(m) /\ Enter(r, "data", Absent)
      <4>1. CallSound'
        BY <3>4, <3>6 DEF Answered, Enter, CallSound, InStage, M, R
      <4>2. QED  BY <1>4, <2>1, <3>4, <4>1
    <3>7. QED  BY <3>3, <3>5, <3>6
  <2>5. CASE Resume(r)
    <3>1. Evolves(r) /\ manifest'[r] = manifest[r]
      BY <2>1, <2>5 DEF Evolves, Resume
    <3>2. CallSound'
      BY <2>3, <2>5, <3>1, LooseSound DEF Resume, Loose
    <3>3. QED  BY <1>4, <2>1, <3>1, <3>2
  <2>6. CASE Execute(r)
    <3>1. Evolves(r)
      BY <2>1, <2>6 DEF Evolves, Execute
    <3>2. CallSound'
      BY <2>6, LooseSound DEF Execute, Loose
    <3>3. QED  BY <1>4, <2>1, <3>1, <3>2
  <2>7. CASE Grant(r)
    <3> DEFINE m == StageStarted(manifest[r], "APPROVAL")
    <3>1. /\ m \in RunManifest /\ Sound(r, m, verdict[r], approval[r], results)
          /\ Keeps(manifest[r], m)
      BY <2>2, <2>7, ApprovalPlace, StoreTypes, BeginSound DEF Grant
    <3>2. Save(r, m) /\ manifest'[r] = m
      BY <2>7, <1>1 DEF Grant, Save, Typed, ManifestOK
    <3>3. Evolves(r)
      BY <2>1, <2>7, <3>1, <3>2 DEF Evolves, Grant
    <3>4. /\ m.stages["APPROVAL"] = "RUNNING" /\ m.status = "RUNNING"
          /\ \A t \in Before("APPROVAL") : Done(m, t)
      BY <2>2, <2>7, ApprovalPlace, BegunStage DEF Grant
    <3> HIDE DEF m
    <3>5. CallSound'
      BY <2>7, <3>2, <3>4, ApprovalPlace DEF Grant, Enter, CallSound, InStage, M, R
    <3>6. QED  BY <1>4, <2>1, <3>3, <3>5
  <2>8. QED  BY <1>6, <2>4, <2>5, <2>6, <2>7 DEF Command
<1>7. ASSUME Step PROVE Good
  <2>1. call.at # "idle"
    BY <1>7, StepRuns
  <2>2. R \in Runs /\ M \in RunManifest /\ manifest[R] = M /\ M # Absent
    BY <2>1, <1>1, Running
  <2>3. Sound(R, M, verdict[R], approval[R], results)
    BY <2>2 DEF RunInv, RunsSound
  <2>4. ASSUME LeaveFiles PROVE UNCHANGED <<verdict, approval, results, latest>>
    BY <2>4 DEF LeaveFiles
  <2>5. ASSUME NEW m, Save(R, m) PROVE manifest'[R] = m
    BY <2>2, <2>5, <1>1 DEF Save, Typed, ManifestOK
  <2>6. ASSUME LeaveFiles, UNCHANGED manifest, CallSound' PROVE Good
    BY <2>2, <2>4, <2>6, <1>4 DEF Evolves
  <2>7. ASSUME LeaveFiles, NEW m \in RunManifest, Save(R, m),
               Sound(R, m, verdict[R], approval[R], results),
               Keeps(M, m), M.status = "COMPLETED" => m = M, CallSound'
        PROVE  Good
    BY <2>2, <2>4, <2>7, <1>4 DEF Evolves
  <2>8. ASSUME NEW s \in StageNames, s # "APPROVAL", M.status # "COMPLETED", ~Done(M, s),
               BeginStage(s) \/ RefuseStage(s)
        PROVE  Good
    <3>1. CASE RefuseStage(s)
      BY <2>6, <3>1, LooseSound DEF RefuseStage, Loose
    <3>2. CASE BeginStage(s)
      <4> DEFINE m == StageStarted(M, s)
      <4>1. ~StartRefused(M, s) /\ Save(R, m) /\ Enter(R, "acting", s) /\ LeaveFiles
        BY <3>2 DEF BeginStage
      <4>2. m \in RunManifest /\ Sound(R, m, verdict[R], approval[R], results) /\ Keeps(M, m)
        BY <2>2, <2>3, <2>8, <4>1, StoreTypes, BeginSound
      <4>3. /\ m.stages[s] = "RUNNING" /\ m.status = "RUNNING"
            /\ \A t \in Before(s) : Done(m, t)
        BY <2>2, <4>1, BegunStage
      <4> HIDE DEF m
      <4>4. CallSound'
        BY <2>5, <4>1, <4>3 DEF Enter, CallSound, InStage, M, R
      <4>5. QED  BY <2>7, <2>8, <4>1, <4>2, <4>4
    <3>3. QED  BY <2>8, <3>1, <3>2
  <2>9. ASSUME call.at \in InStage
        PROVE  /\ call.stage \in StageNames
               /\ M.stages[call.stage] = "RUNNING" /\ M.status = "RUNNING"
               /\ \A t \in Before(call.stage) : Done(M, t)
    BY <2>9 DEF RunInv, CallSound
  <2>10. ASSUME call.at \in InStage, FailStage PROVE Good
    <3> DEFINE m == StageFailed(M, call.stage)
    <3>1. m \in RunManifest /\ Sound(R, m, verdict[R], approval[R], results) /\ Keeps(M, m)
      BY <2>2, <2>3, <2>9, <2>10, StoreTypes, FailSound
    <3>2. Save(R, m) /\ Return /\ LeaveFiles
      BY <2>10 DEF FailStage
    <3> HIDE DEF m
    <3>3. QED  BY <2>7, <2>9, <2>10, <3>1, <3>2, LooseSound DEF Loose
  <2>11. CASE FinishStage
    <3> DEFINE m == StageCompleted(M, call.stage)
    <3>1. call.at \in InStage
      BY <2>11 DEF FinishStage, InStage
    <3>2. m \in RunManifest /\ Sound(R, m, verdict[R], approval[R], results) /\ Keeps(M, m)
      BY <2>2, <2>3, <2>9, <2>11, <3>1, StoreTypes, CompleteSound DEF FinishStage, RunInv, CallSound
    <3>3. Save(R, m) /\ LeaveFiles /\ (Loose(R) \/ Enter(R, "data", Absent))
      BY <2>11, Zenon DEF FinishStage, Loose
    <3>4. m.status = "RUNNING"
      BY <2>2, <2>9, <3>1, StoreFields
    <3> HIDE DEF m
    <3>5. CallSound'
      BY <2>5, <3>3, <3>4, LooseSound DEF Enter, CallSound, InStage, M, R
    <3>6. QED  BY <2>7, <2>9, <3>1, <3>2, <3>3, <3>5
  <2>12. CASE \E s \in StageNames : DataStage(s)
    <3>1. M.status # "COMPLETED"
      BY <2>12 DEF DataStage, RunInv, CallSound
    <3>2. \A s \in {"DATA_SYNC", "DATA_VALIDATE"} :
            s \in StageNames /\ s # "APPROVAL" /\ M.stages[s] # "SKIPPED"
      BY <2>3, ApprovalPlace DEF Sound, OrderSound, StageNames, Late
    <3>3. QED  BY <2>12, <2>8, <3>1, <3>2 DEF DataStage, Done
  <2>13. CASE \E s \in StageNames : RunStage(s)
    BY <2>13, <2>8 DEF RunStage, Turn, NextIncomplete
  <2>14. CASE DataReady \/ FindDamage \/ \E s \in StageNames : RefuseData(s)
    <3>1. CASE DataReady
      <4>1. call' = [call EXCEPT !.at = "loop"]
        BY <3>1 DEF DataReady, Goto
      <4>2. CallSound'
        BY <4>1, <1>1 DEF CallSound, InStage, M, R, Typed, CallOK
      <4>3. QED  BY <2>6, <3>1, <4>2 DEF DataReady
    <3>2. CASE FindDamage \/ \E s \in StageNames : RefuseData(s)
      BY <2>6, <3>2, LooseSound DEF FindDamage, RefuseData, Loose
    <3>3. QED  BY <2>14, <3>1, <3>2
  <2>15. CASE \E s \in StageNames : Reject(s)
    <3>1. /\ NextIncomplete(M, "APPROVAL") /\ verdict[R] = "rejected" /\ M.status # "COMPLETED"
          /\ Save(R, Terminated(M)) /\ Return /\ LeaveFiles
      BY <2>15 DEF Reject, AtApproval, Turn
    <3>2. /\ Terminated(M) \in RunManifest
          /\ Sound(R, Terminated(M), verdict[R], approval[R], results)
          /\ Keeps(M, Terminated(M))
      BY <2>2, <2>3, <3>1, StoreTypes, RejectSound
    <3>3. QED  BY <2>7, <3>1, <3>2, LooseSound DEF Loose
  <2>16. CASE \E s \in StageNames : Await(s)
    <3>1. /\ M.status # "COMPLETED" /\ Return /\ LeaveFiles
          /\ UNCHANGED manifest \/ Save(R, Awaiting(M))
      BY <2>16 DEF Await, AtApproval, Turn, Save
    <3>2. /\ Awaiting(M) \in RunManifest /\ Keeps(M, Awaiting(M))
          /\ Sound(R, Awaiting(M), verdict[R], approval[R], results)
      BY <2>2, <2>3, StoreTypes, StatusSound
    <3>3. QED  BY <2>6, <2>7, <3>1, <3>2, LooseSound DEF Loose
  <2>17. CASE CompleteRun
    <3>1. Completed(M) \in RunManifest /\ Keeps(M, Completed(M))
      BY <2>2, <2>3, StoreTypes, StatusSound
    <3>2. M.status = "COMPLETED" => Completed(M) = M
      BY <2>2, <2>3 DEF Sound, OrderSound, Completed, RunManifest
    <3>3. Sound(R, Completed(M), verdict[R], approval[R], results)
      BY <2>2, <2>3, <2>17, <3>2, StatusSound DEF CompleteRun
    <3>4. Completed(M).status = "COMPLETED"
      BY <2>2, StoreFields, ApprovalPlace
    <3>5. CallSound'
      <4>1. M' = Completed(M) /\ call' = [call EXCEPT !.at = "publishing"]
        BY <2>5, <2>17, <1>1 DEF CompleteRun, Goto, M, R, Typed, CallOK
      <4>2. QED  BY <4>1, <3>4, <1>1 DEF CallSound, InStage, Typed, CallOK
    <3>6. QED  BY <2>7, <2>17, <3>1, <3>2, <3>3, <3>5 DEF CompleteRun
  <2>18. CASE Publish
    <3>1. CallSound'
      BY <2>18, LooseSound DEF Publish, Loose
    <3>2. QED  BY <1>1, <1>5, <2>18, <3>1 DEF Publish, RunInv
  <2>19. ASSUME call.at \in InStage, UNCHANGED manifest, NEW p \in InStage, Goto(p),
                p \in {"rechecking", "opening", "trading", "recording"} =>
                  call.stage = "EXECUTION",
                p # "granting",
                p = "finishing" =>
                  /\ call.stage = "RISK" => verdict'[R] # "none"
                  /\ call.stage = "APPROVAL" => approval'[R] # "none"
                  /\ call.stage = "EXECUTION" => R \in results'
         PROVE  CallSound'
    <3>1. call'.at = p /\ call'.run = R /\ call'.stage = call.stage /\ M' = M /\ R' = R
      BY <2>19, <1>1 DEF Goto, M, R, Typed, CallOK
    <3>2. QED  BY <2>9, <2>19, <3>1 DEF CallSound, InStage, Done
  <2>20. CASE Produce \/ ReuseResult
    <3>1. call.at \in InStage
      BY <2>20 DEF Produce, ReuseResult, InStage
    <3>2. ASSUME LeaveFiles, UNCHANGED manifest, Goto("finishing"),
                 call.stage \notin {"RISK", "APPROVAL"}, call.stage = "EXECUTION" => R \in results
          PROVE  Good
      <4>1. CallSound'
        BY <2>4, <2>19, <3>1, <3>2 DEF InStage
      <4>2. QED  BY <2>6, <3>2, <4>1
    <3>3. QED  BY <2>20, <3>2 DEF Produce, ReuseResult
  <2>27. CASE RaiseAgain
    BY <2>10, <2>27 DEF RaiseAgain, InStage
  <2>28. CASE MakePlan
    <3>1. call.at \in InStage /\ call.stage = "PLAN"
      BY <2>28 DEF MakePlan, InStage
    <3>2. CASE FailStage
      BY <2>10, <3>1, <3>2
    <3>3. CASE Goto("finishing") /\ UNCHANGED <<manifest, verdict, assessed, approval, results, latest>>
      <4>1. CallSound'
        BY <2>19, <3>1, <3>3 DEF InStage
      <4>2. QED  BY <2>2, <3>3, <4>1, <1>4 DEF Evolves
    <3>4. QED  BY <2>28, <3>2, <3>3 DEF MakePlan
  <2>21. CASE Validate \/ Recheck \/ OpenSession
    <3>1. call.at \in InStage /\ call.stage = "EXECUTION"
      BY <2>21 DEF Validate, Recheck, OpenSession, InStage, RunInv, CallSound
    <3>2. ASSUME LeaveFiles, UNCHANGED manifest, NEW p \in {"rechecking", "opening", "trading"},
                 Goto(p)
          PROVE  Good
      <4>1. CallSound'
        BY <2>19, <3>1, <3>2 DEF InStage
      <4>2. QED  BY <2>6, <3>2, <4>1
    <3>3. QED  BY <2>10, <2>21, <3>1, <3>2 DEF Validate, Recheck, OpenSession
  <2>22. CASE Settle
    <3>1. call.at \in InStage /\ call.stage = "EXECUTION" /\ LeaveFiles /\ UNCHANGED manifest
      BY <2>22 DEF Settle, InStage, RunInv, CallSound
    <3>2. CASE UNCHANGED call
      BY <2>4, <2>6, <3>1, <3>2 DEF RunInv, CallSound, M, R
    <3>3. CASE Goto("recording")
      BY <2>6, <2>19, <3>1, <3>3 DEF InStage
    <3>4. QED  BY <2>22, <3>2, <3>3 DEF Settle
  <2>23. CASE Assess
    <3>1. call.at \in InStage /\ call.stage = "RISK"
      BY <2>23 DEF Assess, InStage
    <3>2. CASE FailStage
      BY <2>10, <3>1, <3>2
    <3>3. CASE /\ \/ /\ verdict[R] = "none"
                     /\ \E v \in Assessed(R) : verdict' = [verdict EXCEPT ![R] = v]
                  \/ verdict[R] # "none" /\ UNCHANGED verdict
               /\ Goto("finishing")
               /\ UNCHANGED <<manifest, approval, results, latest>>
      <4>1. verdict'[R] # "none" /\ \A r \in Runs : verdict'[r] = verdict[r] \/ verdict[r] = "none"
        BY <1>1, <2>2, <3>3 DEF Assessed, Typed, FilesOK
      <4>2. CallSound'
        BY <2>19, <3>1, <3>3, <4>1 DEF InStage
      <4>3. QED  BY <1>1, <1>5, <3>3, <4>1, <4>2 DEF RunInv
    <3>4. CASE ~FailStage
      <4>1. Goto("finishing") /\ UNCHANGED <<manifest, approval, results, latest>>
        BY <2>23, <3>4 DEF Assess
      <4>2. \/ verdict[R] = "none" /\ \E v \in Assessed(R) : verdict' = [verdict EXCEPT ![R] = v]
            \/ verdict[R] # "none" /\ verdict' = verdict
        BY <2>23, <3>4, Zenon DEF Assess
      <4>3. QED  BY <3>3, <4>1, <4>2
    <3>5. QED  BY <3>2, <3>4
  <2>24. CASE WriteApproval
    <3>1. call.at \in InStage /\ call.stage = "APPROVAL"
      BY <2>24 DEF WriteApproval, InStage, RunInv, CallSound
    <3>2. approval'[R] = "valid" /\ \A r \in Runs : approval[r] # "none" => approval'[r] # "none"
      BY <1>1, <2>2, <2>24 DEF WriteApproval, Typed, FilesOK
    <3>3. CallSound'
      BY <2>19, <2>24, <3>1, <3>2 DEF WriteApproval, InStage
    <3>4. QED  BY <1>1, <1>5, <2>24, <3>2, <3>3 DEF WriteApproval, RunInv
  <2>25. CASE WriteResult
    <3>1. call.at \in InStage /\ call.stage = "EXECUTION"
      BY <2>25 DEF WriteResult, InStage, RunInv, CallSound
    <3>2. CallSound'
      BY <2>19, <2>25, <3>1 DEF WriteResult, InStage
    <3>3. QED  BY <1>1, <1>5, <2>25, <3>2 DEF WriteResult, RunInv
  <2>26. QED
    BY <1>7, <2>11, <2>12, <2>13, <2>14, <2>15, <2>16, <2>17, <2>18, <2>20, <2>21, <2>22,
       <2>23, <2>24, <2>25, <2>27, <2>28
    DEF Step
<1>8. ASSUME \A r \in Runs : approval[r] # "none" => approval'[r] # "none",
             UNCHANGED <<manifest, verdict, results, latest>>, UNCHANGED call \/ Return
      PROVE  Good
  <2>1. CASE Return
    BY <1>1, <1>5, <1>8, <2>1, LooseSound DEF Loose, RunInv
  <2>2. CASE UNCHANGED call
    <3>1. call.at # "idle" => R \in Runs
      BY <1>1, Running
    <3>2. CallSound'
      BY <1>8, <2>2, <3>1 DEF RunInv, CallSound, M, R, InStage
    <3>3. QED  BY <1>1, <1>5, <1>8, <3>2 DEF RunInv
  <2>3. QED  BY <1>8, <2>1, <2>2
<1>9. CASE Crash \/ Engage \/ Release \/ \E r \in Runs : Damage(r)
  <2>1. UNCHANGED manifest /\ LeaveFiles /\ (UNCHANGED call \/ Return)
    BY <1>9 DEF Crash, Engage, Release, Damage
  <2>2. QED  BY <1>8, <2>1 DEF LeaveFiles
<1>10. CASE \E r \in Runs : Expire(r)
  <2>1. \A r \in Runs : approval[r] # "none" => approval'[r] # "none"
    BY <1>1, <1>10 DEF Expire, Typed, FilesOK
  <2>2. QED  BY <1>8, <1>10, <2>1 DEF Expire
<1>11. CASE Raise
  <2>1. /\ call.at \in InStage /\ Return /\ UNCHANGED <<verdict, approval, results, latest>>
        /\ UNCHANGED manifest \/ Save(R, StageFailed(M, call.stage))
    BY <1>11 DEF Raise, LeaveFiles
  <2>2. CASE UNCHANGED manifest
    BY <1>8, <2>1, <2>2
  <2>3. CASE Save(R, StageFailed(M, call.stage))
    <3>1. R \in Runs /\ M \in RunManifest /\ manifest[R] = M /\ M # Absent
      BY <1>1, <2>1, Running DEF InStage
    <3>2. /\ call.stage \in StageNames /\ M.stages[call.stage] = "RUNNING"
          /\ M.status = "RUNNING"
      BY <2>1 DEF RunInv, CallSound
    <3>3. PICK m \in RunManifest : /\ m = StageFailed(M, call.stage)
                                  /\ Sound(R, m, verdict[R], approval[R], results)
                                  /\ Keeps(M, m)
      BY <3>1, <3>2, StoreTypes, FailSound DEF RunInv, RunsSound
    <3>4. Evolves(R)
      BY <2>1, <2>3, <3>1, <3>2, <3>3 DEF Evolves
    <3>5. QED  BY <1>4, <2>1, <3>1, <3>4, LooseSound DEF Loose
  <2>4. QED  BY <2>1, <2>2, <2>3
<1>12. QED  BY <1>2, <1>3, <1>6, <1>7, <1>9, <1>10, <1>11 DEF Good, Next

(* The inductive invariant: each run's stages agree with their order, with its   *)
(* assessment, its approval and its result, and the running command knows what   *)
(* it has passed, whatever crashes, failures and renewed approvals happen.       *)
THEOREM RunsAreSound == Spec => []RunInv
<1>1. Init => RunInv
  BY DEF Init, RunInv, RunsSound, CallSound, PublishedIsCompleted, Idle, InStage
<1>2. QED  BY <1>1, WorkflowTypeCorrect, RunStep, PTL DEF Spec

(* Every stage that completed or was skipped has all its predecessors completed *)
(* or skipped, in every manifest a crash or failure can leave behind.            *)
THEOREM StagesInOrderHolds == Spec => []StagesInOrder
<1>1. RunInv => StagesInOrder
  BY DEF RunInv, RunsSound, Sound, OrderSound, StagesInOrder
<1>2. QED  BY <1>1, RunsAreSound, PTL

(* artifacts/latest.json names a completed run, however its command was cut short. *)
THEOREM PublishedIsCompletedHolds == Spec => []PublishedIsCompleted
<1>1. RunInv => PublishedIsCompleted
  BY DEF RunInv
<1>2. QED  BY <1>1, RunsAreSound, PTL

(* No command or failure changes the manifest of a completed run. *)
THEOREM CompletedIsFinalHolds == Spec => CompletedIsFinal
<1>1. TypeOK /\ TypeOK' /\ RunInv /\ [Next]_vars
        => [\A r \in Runs : manifest[r] # Absent /\ manifest[r].status = "COMPLETED"
              => manifest'[r] = manifest[r]]_vars
  BY RunStep DEF Lasting
<1>2. QED
  BY <1>1, WorkflowTypeCorrect, RunsAreSound, PTL DEF Spec, CompletedIsFinal

(* publish_completed never moves the index back to an earlier trade date. *)
THEOREM IndexNeverRegressesHolds == Spec => IndexNeverRegresses
<1>1. TypeOK /\ TypeOK' /\ RunInv /\ [Next]_vars
        => [latest # Absent => latest' # Absent /\ DateOf(latest') >= DateOf(latest)]_vars
  <2> SUFFICES ASSUME TypeOK, TypeOK', RunInv, [Next]_vars, latest # Absent
               PROVE  latest' # Absent /\ DateOf(latest') >= DateOf(latest)
    OBVIOUS
  <2>1. latest \in Runs /\ DateOf(latest) \in Nat
    BY RunsAssumption, DatesAssumption DEF TypeOK, DateOf
  <2>2. CASE latest' = latest
    BY <2>1, <2>2, RunsAssumption
  <2>3. CASE Publish
    <3>1. R \in Runs /\ DateOf(R) \in Nat
      BY <2>3, RunsAssumption, DatesAssumption DEF Publish, TypeOK, DateOf, R
    <3>2. QED  BY <2>1, <2>3, <3>1, RunsAssumption DEF Publish
  <2>4. QED  BY <2>2, <2>3, RunStep
<1>2. QED
  BY <1>1, WorkflowTypeCorrect, RunsAreSound, PTL DEF Spec, IndexNeverRegresses

-----------------------------------------------------------------------------
(* The operator and the risk rules have let run r through. *)
Approved(r) ==
  /\ verdict[r] = "approved" /\ approval[r] # "none"
  /\ manifest[r] # Absent
  /\ \A s \in Before("APPROVAL") : manifest[r].stages[s] = "COMPLETED"

Settled(r) ==
  /\ owner[DateOf(r)] = PlanOf[r]
  /\ IdsOf(PlanOf[r]) \subseteq applied
  /\ DateOf(r) \in valued \cap closed

LedgerInv ==
  /\ \A d \in Dates : owner[d] # Absent =>
       \E r \in Runs : d = DateOf(r) /\ owner[d] = PlanOf[r] /\ Approved(r)
  /\ \A d \in valued : d \in Dates /\ owner[d] # Absent /\ IdsOf(owner[d]) \subseteq applied
  /\ closed \subseteq valued
  /\ \A r \in results : Settled(r)
  /\ call.at \in {"trading", "recording"} => owner[DateOf(R)] = PlanOf[R]
  /\ call.at = "recording" => DateOf(R) \in closed

LEMMA ExecutionIsApproved ==
  ASSUME Typed, RunInv, call.at \in InStage, call.stage = "EXECUTION"
  PROVE  Approved(R)
<1>1. R \in Runs /\ M \in RunManifest /\ manifest[R] = M /\ M # Absent
  BY Running DEF InStage
<1>2. Sound(R, M, verdict[R], approval[R], results)
  BY <1>1 DEF RunInv, RunsSound
<1>3. M.stages["EXECUTION"] = "RUNNING" /\ \A t \in Before("EXECUTION") : Done(M, t)
  BY DEF RunInv, CallSound
<1>4. verdict[R] = "approved"
  BY <1>2, <1>3 DEF Sound, GateSound, Late
<1>5. "APPROVAL" \in Before("EXECUTION") /\ Before("APPROVAL") \subseteq Before("EXECUTION")
  BY ApprovalPlace, StageOrder DEF Late
<1>6. /\ M.stages["APPROVAL"] = "COMPLETED"
      /\ \A s \in Before("APPROVAL") : M.stages[s] = "COMPLETED"
  BY <1>2, <1>3, <1>4, <1>5, ApprovalPlace DEF Sound, GateSound, Quiet, Done
<1>7. QED  BY <1>1, <1>2, <1>4, <1>6 DEF Approved, Sound, GateSound

LEMMA ApprovedLasts ==
  ASSUME Lasting, NEW r \in Runs, Approved(r)
  PROVE  Approved(r)'
BY DEF Lasting, Approved, Keeps

(* Steps that do not work on the ledger. *)
Aside ==
  /\ UNCHANGED settlementVars /\ results' = results
  /\ UNCHANGED call \/ call'.at \notin {"trading", "recording"}

LEMMA OtherSteps ==
  ASSUME Typed, [Next]_vars
  PROVE  Aside \/ OpenSession \/ Settle \/ WriteResult
<1>1. CASE UNCHANGED vars
  BY <1>1 DEF vars, filesVars, Aside
<1>2. ASSUME LeaveFiles, LeaveLedger,
             \/ Return \/ UNCHANGED call
             \/ \E r, p, s : p \notin {"trading", "recording"} /\ Enter(r, p, s)
             \/ \E p \in Points \ {"trading", "recording"} : Goto(p)
      PROVE  Aside
  <2>1. UNCHANGED settlementVars /\ results' = results
    BY <1>2 DEF LeaveFiles, LeaveLedger
  <2>2. UNCHANGED call \/ call'.at \notin {"trading", "recording"}
    BY <1>2 DEF Return, Idle, Enter, Goto, Typed, CallOK
  <2>3. QED  BY <2>1, <2>2 DEF Aside
<1>3. ASSUME NEW r \in Runs, Command(r) PROVE Aside
  BY <1>2, <1>3 DEF Command, Start, Resume, Execute, Grant, Answer
<1>4. CASE Crash \/ Raise \/ Engage \/ Release \/ \E r \in Runs : Damage(r)
  BY <1>2, <1>4 DEF Crash, Raise, Engage, Release, Damage
<1>5. CASE \E r \in Runs : Expire(r)
  BY <1>5 DEF Expire, LeaveLedger, Aside
<1>6. ASSUME NEW s \in StageNames,
             DataStage(s) \/ RunStage(s) \/ RefuseData(s) \/ Reject(s) \/ Await(s)
      PROVE  Aside
  BY <1>2, <1>6 DEF DataStage, RunStage, BeginStage, RefuseStage, RefuseData, Reject, Await
<1>7. CASE FinishStage
  <2>1. LeaveFiles /\ LeaveLedger
    BY <1>7 DEF FinishStage
  <2>2. Return \/ Enter(R, "data", Absent) \/ Enter(R, "loop", Absent)
    BY <1>7, Zenon DEF FinishStage
  <2>3. QED  BY <1>2, <2>1, <2>2
<1>8. CASE DataReady \/ Produce \/ ReuseResult \/ FindDamage \/ CompleteRun
  BY <1>2, <1>8 DEF DataReady, Produce, ReuseResult, FindDamage, CompleteRun, Points
<1>9. CASE RaiseAgain \/ Validate \/ Recheck
  BY <1>2, <1>9 DEF RaiseAgain, Validate, Recheck, FailStage, Points
<1>10. CASE MakePlan \/ Assess \/ WriteApproval \/ Publish
  <2>1. CASE FailStage
    BY <1>2, <2>1 DEF FailStage
  <2>2. CASE LeaveLedger /\ results' = results /\ (Return \/ Goto("finishing"))
    <3>1. UNCHANGED call \/ call'.at \notin {"trading", "recording"}
      BY <2>2 DEF Return, Idle, Goto, Typed, CallOK
    <3>2. QED  BY <2>2, <3>1 DEF Aside, LeaveLedger
  <2>3. QED  BY <1>10, <2>1, <2>2 DEF MakePlan, Assess, WriteApproval, Publish
<1>11. QED
  BY <1>1, <1>3, <1>4, <1>5, <1>6, <1>7, <1>8, <1>9, <1>10 DEF Next, Step

LEMMA LedgerStep ==
  TypeOK /\ TypeOK' /\ RunInv /\ LedgerInv /\ [Next]_vars => LedgerInv'
<1> SUFFICES ASSUME TypeOK, TypeOK', RunInv, LedgerInv, [Next]_vars
             PROVE  LedgerInv'
  OBVIOUS
<1>1. Typed /\ Typed'
  BY Zenon DEF TypeOK, Typed, FilesOK, ManifestOK, CallOK
<1>2. Lasting
  BY RunStep
<1>3. ASSUME UNCHANGED owner
      PROVE  \A d \in Dates : owner'[d] # Absent =>
               \E r \in Runs : d = DateOf(r) /\ owner'[d] = PlanOf[r] /\ Approved(r)'
  BY <1>2, <1>3, ApprovedLasts DEF LedgerInv
<1>4. ASSUME call.at # "idle"
      PROVE  R \in Runs /\ DateOf(R) \in Dates /\ PlanOf[R] \in Plans
  BY <1>1, <1>4, Running, RunsAssumption DEF DateOf
<1>5. CASE Aside
  <2>1. UNCHANGED <<owner, applied, valued, closed, results>>
    BY <1>5 DEF settlementVars, Aside
  <2>2. \A r \in results' : Settled(r)'
    BY <2>1 DEF LedgerInv, Settled
  <2>3. QED  BY <1>3, <1>5, <2>1, <2>2 DEF LedgerInv, R, Aside
<1>6. CASE OpenSession
  <2>1. call.at = "opening" /\ call.stage = "EXECUTION" /\ R \in Runs
    BY <1>4, <1>6 DEF OpenSession, RunInv, CallSound
  <2>2. PICK q \in Runs : q = R /\ Approved(q)
    BY <1>1, <2>1, ExecutionIsApproved DEF InStage
  <2>3. CASE FailStage
    <3>1. Aside
      BY <2>3 DEF FailStage, LeaveFiles, LeaveLedger, Return, Idle, Aside
    <3>2. QED  BY <1>5, <3>1
  <2>4. CASE owner[DateOf(R)] = PlanOf[R] /\ Goto("trading") /\ LeaveFiles /\ LeaveLedger
    <3>1. UNCHANGED <<owner, applied, valued, closed, results>>
      BY <2>4 DEF LeaveFiles, LeaveLedger, settlementVars
    <3>2. call'.at = "trading" /\ R' = R
      BY <1>1, <2>4 DEF Goto, Typed, CallOK, R
    <3>3. \A r \in results' : Settled(r)'
      BY <3>1 DEF LedgerInv, Settled
    <3>4. QED  BY <1>3, <2>4, <3>1, <3>2, <3>3 DEF LedgerInv
  <2>5. CASE Open(PlanOf[R]) /\ Goto("trading") /\ LeaveFiles
    <3>1. call'.at = "trading" /\ R' = R
      BY <1>1, <2>5 DEF Goto, Typed, CallOK, R
    <3>2. /\ owner[DateOf(R)] = Absent
          /\ owner'[DateOf(R)] = PlanOf[R]
          /\ \A d \in Dates : d # DateOf(R) => owner'[d] = owner[d]
          /\ UNCHANGED <<applied, valued, closed, results>>
      BY <1>1, <1>4, <2>1, <2>5 DEF Open, DateOf, Typed, FilesOK, LeaveFiles
    <3>3. \A d \in Dates : owner'[d] # Absent =>
            \E r \in Runs : d = DateOf(r) /\ owner'[d] = PlanOf[r] /\ Approved(r)'
      BY <1>2, <2>2, <3>2, ApprovedLasts DEF LedgerInv
    <3>4. \A r \in results' : Settled(r)'
      BY <1>1, <3>2, RunsAssumption, AbsentRowsAssumption
      DEF LedgerInv, Settled, Typed, FilesOK, DateOf
    <3>5. \A d \in valued' : d \in Dates /\ owner'[d] # Absent /\ IdsOf(owner'[d]) \subseteq applied'
      BY <3>2 DEF LedgerInv
    <3>6. QED  BY <3>1, <3>2, <3>3, <3>4, <3>5 DEF LedgerInv
  <2>6. QED  BY <1>6, <2>3, <2>4, <2>5 DEF OpenSession
<1>7. CASE Settle
  <2>1. /\ call.at = "trading" /\ R \in Runs /\ DateOf(R) \in Dates
        /\ owner[DateOf(R)] = PlanOf[R] /\ PlanOf[R] \in Plans /\ results' = results
    BY <1>4, <1>7 DEF Settle, LedgerInv, LeaveFiles
  <2>2. /\ UNCHANGED owner /\ applied \subseteq applied'
        /\ valued \subseteq valued' /\ closed \subseteq closed'
        /\ valued' # valued => valued' = valued \cup {DateOf(R)} /\ IdsOf(PlanOf[R]) \subseteq applied
        /\ closed' # closed => closed' = closed \cup {DateOf(R)} /\ DateOf(R) \in valued
        /\ UNCHANGED call \/ (Goto("recording") /\ DateOf(R) \in closed')
    BY <1>7 DEF Settle, Apply, Value, Close, LeaveLedger, settlementVars, DateOf
  <2>3. \A r \in results' : Settled(r)'
    BY <2>1, <2>2 DEF LedgerInv, Settled
  <2>4. /\ R' = R /\ call'.at \in {"trading", "recording"}
        /\ call'.at = "recording" => DateOf(R) \in closed'
    BY <1>1, <2>1, <2>2 DEF Goto, Typed, CallOK, R
  <2>5. \A d \in valued' : d \in Dates /\ owner[d] # Absent /\ IdsOf(owner[d]) \subseteq applied'
    BY <2>1, <2>2, AbsentRowsAssumption DEF LedgerInv
  <2>6. closed' \subseteq valued'
    BY <2>2 DEF LedgerInv
  <2>7. QED  BY <1>3, <2>1, <2>2, <2>3, <2>4, <2>5, <2>6 DEF LedgerInv
<1>8. CASE WriteResult
  <2>1. /\ UNCHANGED <<owner, applied, valued, closed>>
        /\ call.at = "recording" /\ results' = results \cup {R} /\ Goto("finishing")
    BY <1>8 DEF WriteResult, LeaveLedger, settlementVars
  <2>2. Settled(R)
    BY <1>4, <2>1 DEF LedgerInv, Settled
  <2>3. \A r \in results' : Settled(r)'
    BY <2>1, <2>2 DEF LedgerInv, Settled
  <2>4. call'.at = "finishing"
    BY <1>1, <2>1 DEF Goto, Typed, CallOK
  <2>5. QED  BY <1>3, <2>1, <2>3, <2>4 DEF LedgerInv
<1>9. QED  BY <1>5, <1>6, <1>7, <1>8, <1>1, OtherSteps

(* A session is open only for a run that its risk assessment and the operator    *)
(* let through, and a result is on file only for a day settled in the ledger.    *)
THEOREM LedgerIsSound == Spec => []LedgerInv
<1>1. Init => LedgerInv
  BY DEF Init, SettlementInit, LedgerInv, Idle
<1>2. QED  BY <1>1, WorkflowTypeCorrect, RunsAreSound, LedgerStep, PTL DEF Spec

(* Nothing is executed for a run without an approved assessment, a granted       *)
(* approval and every earlier stage completed.                                   *)
THEOREM ExecutedOnlyIfApprovedHolds == Spec => []ExecutedOnlyIfApproved
<1>1. LedgerInv => ExecutedOnlyIfApproved
  BY RunsAssumption DEF LedgerInv, ExecutedOnlyIfApproved, Approved
<1>2. QED  BY <1>1, LedgerIsSound, PTL

(* A completed EXECUTION stage, and a completed run that risk did not reject, has *)
(* its whole day in the ledger.                                                   *)
THEOREM ExecutionIsSettledHolds == Spec => []ExecutionIsSettled
<1>1. TypeOK /\ RunInv /\ LedgerInv => ExecutionIsSettled
  <2> SUFFICES ASSUME TypeOK, RunInv, LedgerInv, NEW r \in Runs, manifest[r] # Absent,
                      \/ manifest[r].stages["EXECUTION"] = "COMPLETED"
                      \/ manifest[r].status = "COMPLETED" /\ verdict[r] # "rejected"
               PROVE  Settled(r) /\ r \in results
    BY DEF ExecutionIsSettled, Settled
  <2>1. Sound(r, manifest[r], verdict[r], approval[r], results)
    BY DEF RunInv, RunsSound
  <2>2. manifest[r].stages["EXECUTION"] = "COMPLETED"
    BY <2>1, ApprovalPlace DEF Sound, OrderSound, GateSound, Quiet, AllDone, Done
  <2>3. r \in results
    BY <2>1, <2>2 DEF Sound, GateSound
  <2>4. QED  BY <2>3 DEF LedgerInv
<1>2. QED  BY <1>1, WorkflowTypeCorrect, RunsAreSound, LedgerIsSound, PTL
=============================================================================
