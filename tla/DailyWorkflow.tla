---------------------------- MODULE DailyWorkflow ----------------------------
(***************************************************************************)
(* The operator's commands of workflow/daily.py over the run manifests      *)
(* (RunStore), the approval registry, the kill switch file, the latest-run  *)
(* index and the ledger.  The ledger is used through the promise that       *)
(* PaperExecution is shown to keep: module DailySettlement.                 *)
(*                                                                          *)
(* Commands run one at a time, as docs/known_limitations.md prescribes; a   *)
(* step is what a command does up to and including one durable write, so a  *)
(* Crash between two steps is a death between two writes.  Meanwhile the    *)
(* environment switches the kill switch, approvals expire and files are     *)
(* damaged.                                                                 *)
(***************************************************************************)
EXTENDS DailySettlement, RunStore

CONSTANTS
  Runs,          \* run ids
  PlanOf,        \* run -> the order plan its PLAN and RISK stages produce
  RulesReject,   \* runs whose plan breaks a hard risk rule other than DRAWDOWN
  Raising,       \* run -> the stages whose action raises on the run's data for good
  Possible,      \* the kinds of upsets that may happen ...
  MaxUpsets      \* ... and a bound on how many do

VARIABLES
  manifest,      \* run -> its manifest, Absent before start
  planned,       \* run -> the books order_plan.json was built on, Absent without it
  verdict,       \* run -> risk_assessment.json ...
  assessed,      \* ... and the switch and NAV days it was judged on, or Absent
  approval,      \* run -> the record approvals/<run>/latest.json points at
  results,       \* runs whose execution_result.json is written
  latest,        \* the run artifacts/latest.json points at, or Absent
  killSwitch,    \* the KILL_SWITCH file exists
  damaged,       \* runs with an artifact that no longer has its checksum
  call,          \* the command being executed: [at, run, stage]
  upsets         \* how many upsets happened

filesVars == <<manifest, planned, verdict, assessed, approval, results, latest>>
worldVars == <<killSwitch, damaged, upsets>>
vars == <<settlementVars, filesVars, worldVars, call>>

Upsets == {"crash", "raise", "expiry", "switch", "damage"}
Verdicts == {"none", "approved", "rejected"}
Approvals == {"none", "valid", "expired"}
Basis == [halted: BOOLEAN, days: SUBSET Dates]

(* Where a command stands between two durable writes. *)
Points == {"idle", "data", "loop", "acting", "rechecking", "opening", "trading",
           "recording", "granting", "finishing", "publishing"}

InStage == {"acting", "rechecking", "opening", "trading", "recording",
            "granting", "finishing"}

Idle == [at |-> "idle", run |-> Absent, stage |-> Absent]

ASSUME RunsAssumption ==
  /\ Absent \notin Runs
  /\ RulesReject \subseteq Runs
  /\ PlanOf \in [Runs -> Plans]
  /\ \A r \in Runs : PlanOf[r].run = r /\ PlanOf[r].date \in Dates
  /\ \A r \in Runs : IdsOf(PlanOf[r]) \subseteq OrderIds
  /\ Raising \in [Runs -> SUBSET (StageNames \ {"DATA_SYNC", "APPROVAL"})]

ASSUME AbsentRowsAssumption ==
  /\ Absent \notin RunManifest
  /\ Absent \notin Plans
  /\ Absent \notin StageNames
  /\ Absent \notin Basis

ASSUME UpsetsAssumption == Possible \subseteq Upsets /\ MaxUpsets \in Nat

ASSUME DatesAssumption == Dates \subseteq Nat

TypeOK ==
  /\ owner \in [Dates -> Plans \cup {Absent}]
  /\ applied \subseteq OrderIds /\ valued \subseteq Dates
  /\ manifest \in [Runs -> RunManifest \cup {Absent}]
  /\ planned \in [Runs -> (SUBSET OrderIds) \cup {Absent}]
  /\ verdict \in [Runs -> Verdicts]
  /\ assessed \in [Runs -> Basis \cup {Absent}]
  /\ approval \in [Runs -> Approvals]
  /\ results \subseteq Runs
  /\ latest \in Runs \cup {Absent}
  /\ killSwitch \in BOOLEAN
  /\ damaged \subseteq Runs
  /\ call \in [at: Points, run: Runs \cup {Absent}, stage: StageNames \cup {Absent}]
  /\ upsets \in 0..MaxUpsets
  /\ call.at # "idle" => call.run \in Runs /\ manifest[call.run] # Absent

Init ==
  /\ SettlementInit
  /\ manifest = [r \in Runs |-> Absent]
  /\ planned = [r \in Runs |-> Absent]
  /\ verdict = [r \in Runs |-> "none"]
  /\ assessed = [r \in Runs |-> Absent]
  /\ approval = [r \in Runs |-> "none"]
  /\ results = {}
  /\ latest = Absent
  /\ killSwitch = FALSE
  /\ damaged = {}
  /\ call = Idle
  /\ upsets = 0

-----------------------------------------------------------------------------
DateOf(r) == PlanOf[r].date

(* validate_trade_date_ordering raises for the run's date. *)
Overtaken(r) == \E d \in Dates : d > DateOf(r) /\ owner[d] # Absent

Save(r, m) == manifest' = [manifest EXCEPT ![r] = m]
Goto(point) == call' = [call EXCEPT !.at = point]
Enter(r, point, s) == call' = [at |-> point, run |-> r, stage |-> s]
Return == call' = Idle

LeaveFiles == UNCHANGED <<planned, verdict, assessed, approval, results, latest>>
LeaveWorld == UNCHANGED worldVars
LeaveLedger == UNCHANGED settlementVars

(* The running command is the only one: its run and that run's manifest. *)
R == call.run
M == manifest[R]

-----------------------------------------------------------------------------
(* COMPLETED and AWAITING_APPROVAL runs are answered without running a stage. *)
Answer(r, m) ==
  \/ m.status = "COMPLETED" /\ r \notin damaged /\ Enter(r, "publishing", Absent)
  \/ m.status = "COMPLETED" /\ r \in damaged /\ Return
  \/ m.status = "AWAITING_APPROVAL" /\ Return

Answered(m) == m.status \in {"COMPLETED", "AWAITING_APPROVAL"}

(* The manifest start goes on with: the one there is, or a new one. *)
Opened(r) == IF manifest[r] = Absent THEN NewManifest ELSE manifest[r]

(* Mutant: the new manifest is not saved. *)
Start_Unsaved(r) ==
  /\ call = Idle
  /\ \/ Answer(r, Opened(r))
     \/ ~Answered(Opened(r)) /\ Enter(r, "data", Absent)
  /\ UNCHANGED manifest /\ LeaveFiles /\ LeaveWorld /\ LeaveLedger

(* run daily: create the manifest or find it, then run what is incomplete. *)
Start(r) ==
  /\ call = Idle
  /\ Save(r, Opened(r))
  /\ \/ Answer(r, Opened(r))
     \/ ~Answered(Opened(r)) /\ Enter(r, "data", Absent)
  /\ LeaveFiles /\ LeaveWorld /\ LeaveLedger

(* run resume: unlike start, it recognises a risk rejection. *)
Resume(r) ==
  /\ call = Idle
  /\ manifest[r] # Absent
  /\ \/ Answer(r, manifest[r])
     \/ ~Answered(manifest[r]) /\ manifest[r].rejected /\ Return
     \/ ~Answered(manifest[r]) /\ ~manifest[r].rejected /\ Enter(r, "loop", Absent)
  /\ UNCHANGED manifest /\ LeaveFiles /\ LeaveWorld /\ LeaveLedger

(* paper run. *)
Execute(r) ==
  /\ call = Idle
  /\ manifest[r] # Absent
  /\ r \notin damaged
  /\ manifest[r].stages["APPROVAL"] = "COMPLETED"
  /\ Enter(r, "loop", Absent)
  /\ UNCHANGED manifest /\ LeaveFiles /\ LeaveWorld /\ LeaveLedger

(* Mutant: the assessment's approved flag is not looked at. *)
Grant_Unassessed(r) ==
  /\ call = Idle
  /\ manifest[r] # Absent
  /\ r \notin damaged
  /\ manifest[r].status # "COMPLETED"
  /\ manifest[r].stages["RISK"] = "COMPLETED"
  /\ ~StartRefused(manifest[r], "APPROVAL")
  /\ Save(r, StageStarted(manifest[r], "APPROVAL"))
  /\ Enter(r, "granting", "APPROVAL")
  /\ LeaveFiles /\ LeaveWorld /\ LeaveLedger

(* approval grant, also to renew an approval while nothing later completed. *)
Grant(r) ==
  /\ call = Idle
  /\ manifest[r] # Absent
  /\ r \notin damaged
  /\ manifest[r].status # "COMPLETED"
  /\ manifest[r].stages["RISK"] = "COMPLETED" /\ verdict[r] = "approved"
  /\ ~StartRefused(manifest[r], "APPROVAL")
  /\ Save(r, StageStarted(manifest[r], "APPROVAL"))
  /\ Enter(r, "granting", "APPROVAL")
  /\ LeaveFiles /\ LeaveWorld /\ LeaveLedger

(* The record is written first; it exists for the code once latest.json names it. *)
WriteApproval ==
  /\ call.at = "granting"
  /\ approval' = [approval EXCEPT ![R] = "valid"]
  /\ Goto("finishing")
  /\ UNCHANGED <<manifest, planned, verdict, assessed, results, latest>>
  /\ LeaveWorld /\ LeaveLedger

-----------------------------------------------------------------------------
(* Stages: start_stage, the stage's action, complete_stage or fail_stage.      *)

BeginStage(s) ==
  /\ ~StartRefused(M, s)
  /\ Save(R, StageStarted(M, s))
  /\ Enter(R, "acting", s)
  /\ LeaveFiles /\ LeaveWorld /\ LeaveLedger

(* start_stage raises outside the try: the command ends, nothing is recorded. *)
RefuseStage(s) ==
  /\ StartRefused(M, s)
  /\ Return
  /\ UNCHANGED manifest /\ LeaveFiles /\ LeaveWorld /\ LeaveLedger

FailStage ==
  /\ Save(R, StageFailed(M, call.stage))
  /\ Return
  /\ LeaveFiles /\ LeaveLedger

FinishStage ==
  /\ call.at = "finishing"
  /\ Save(R, StageCompleted(M, call.stage))
  /\ CASE call.stage = "APPROVAL" -> Return
       [] call.stage \in {"DATA_SYNC", "DATA_VALIDATE"} -> Enter(R, "data", Absent)
       [] OTHER -> Enter(R, "loop", Absent)
  /\ LeaveFiles /\ LeaveWorld /\ LeaveLedger

(* _complete_data_stages. *)
DataStage(s) ==
  /\ call.at = "data"
  /\ s \in {"DATA_SYNC", "DATA_VALIDATE"}
  /\ M.stages[s] # "COMPLETED"
  /\ s = "DATA_VALIDATE" => M.stages["DATA_SYNC"] = "COMPLETED"
  /\ BeginStage(s) \/ RefuseStage(s)

DataReady ==
  /\ call.at = "data"
  /\ \A s \in {"DATA_SYNC", "DATA_VALIDATE"} : M.stages[s] = "COMPLETED"
  /\ Goto("loop")
  /\ UNCHANGED manifest /\ LeaveFiles /\ LeaveWorld /\ LeaveLedger

(* The stage's action raises on the run's data, as it will at every repeat: too   *)
(* little history to train on, a target without a price, a sale whose fee the     *)
(* cash cannot bear, a holding that cannot be valued.                             *)
RaisesAgain == call.stage \in Raising[R]

RaiseAgain ==
  /\ call.at \in {"acting", "trading"}
  /\ RaisesAgain
  /\ FailStage
  /\ LeaveWorld

(* Stages whose action writes only artifacts the control does not depend on; what *)
(* they write is a function of the run's data, so a repeat finds its own files.   *)
Produce ==
  /\ call.at = "acting"
  /\ call.stage \in {"DATA_SYNC", "DATA_VALIDATE", "RESEARCH", "REPORT_PRE",
                     "REPORT_FINAL"}
  /\ ~RaisesAgain
  /\ Goto("finishing")
  /\ UNCHANGED manifest /\ LeaveFiles /\ LeaveWorld /\ LeaveLedger

(* The planner refuses under the kill switch and when a later date has begun.    *)
(* order_plan.json is immutable and holds the account: the plan built on books   *)
(* another run changed is a different one and raises, unless all that changed    *)
(* were orders left unfilled.                                                    *)
MakePlan ==
  /\ call.at = "acting" /\ call.stage = "PLAN"
  /\ \/ (killSwitch \/ Overtaken(R)) /\ FailStage
     \/ planned[R] \notin {Absent, applied} /\ FailStage
     \/ /\ ~killSwitch /\ ~Overtaken(R) /\ ~RaisesAgain
        /\ planned' = [planned EXCEPT ![R] = applied]
        /\ Goto("finishing")
        /\ UNCHANGED <<manifest, verdict, assessed, approval, results, latest>>
        /\ LeaveLedger
  /\ LeaveWorld

(* The NAV rows latest_nav chooses from for the DRAWDOWN rule. *)
NavDays(r) == {d \in valued : d < DateOf(r)}

(* What the assessment depends on beside the plan and the data of the run. *)
BasisOf(r) == [halted |-> killSwitch, days |-> NavDays(r)]

Assessed(r) ==
  IF killSwitch \/ r \in RulesReject THEN {"rejected"}
  ELSE IF NavDays(r) = {} THEN {"approved"}
  ELSE {"approved", "rejected"}

(* The file on record is what would be written now.  Another NAV day may bring  *)
(* another drawdown or the same, the switch is one of the rules listed.         *)
AssessmentKept(r) ==
  /\ verdict[r] \in Assessed(r)
  /\ assessed[r].halted = killSwitch

(* The assessment is immutable and lists what every rule observed: an equal one *)
(* is kept, a different one raises.                                             *)
Assess ==
  /\ call.at = "acting" /\ call.stage = "RISK"
  /\ \/ /\ ~RaisesAgain
        /\ \/ /\ verdict[R] = "none"
              /\ \E v \in Assessed(R) : verdict' = [verdict EXCEPT ![R] = v]
           \/ verdict[R] # "none" /\ AssessmentKept(R) /\ UNCHANGED verdict
        /\ assessed' = [assessed EXCEPT ![R] = BasisOf(R)]
        /\ Goto("finishing")
        /\ UNCHANGED <<manifest, planned, approval, results, latest>> /\ LeaveLedger
     \/ verdict[R] # "none" /\ assessed[R] # BasisOf(R) /\ FailStage
  /\ LeaveWorld

-----------------------------------------------------------------------------
(* The EXECUTION stage's action: LedgerPaperExecutor.execute. *)

ReuseResult ==
  /\ call.at = "acting" /\ call.stage = "EXECUTION"
  /\ R \in results
  /\ Goto("finishing")
  /\ UNCHANGED manifest /\ LeaveFiles /\ LeaveWorld /\ LeaveLedger

(* Kill switch, then the approval the pointer names: present and unexpired. *)
Validated(r) == ~killSwitch /\ approval[r] = "valid"

Validate ==
  /\ call.at = "acting" /\ call.stage = "EXECUTION"
  /\ R \notin results
  /\ \/ /\ Validated(R)
        /\ Goto("rechecking")
        /\ UNCHANGED manifest /\ LeaveFiles /\ LeaveLedger
     \/ ~Validated(R) /\ FailStage
  /\ LeaveWorld

(* The second kill switch check, after the market is loaded. *)
Recheck ==
  /\ call.at = "rechecking"
  /\ \/ /\ ~killSwitch
        /\ Goto("opening")
        /\ UNCHANGED manifest /\ LeaveFiles /\ LeaveLedger
     \/ killSwitch /\ FailStage
  /\ LeaveWorld

OpenSession ==
  /\ call.at = "opening"
  /\ \/ /\ ~Overtaken(R) /\ owner[DateOf(R)] = Absent
        /\ Open(PlanOf[R])
        /\ Goto("trading")
        /\ UNCHANGED manifest /\ LeaveFiles
     \/ /\ ~Overtaken(R) /\ owner[DateOf(R)] = PlanOf[R]
        /\ Goto("trading")
        /\ UNCHANGED manifest /\ LeaveFiles /\ LeaveLedger
     \/ /\ (Overtaken(R) \/ owner[DateOf(R)] \notin {Absent, PlanOf[R]})
        /\ FailStage
  /\ LeaveWorld

(* Mutant: the session is left STARTED once the NAV is stored. *)
Settle_Unclosed ==
  /\ call.at = "trading"
  /\ \/ /\ \E id \in IdsOf(PlanOf[R]) : Apply(PlanOf[R], id)
        /\ UNCHANGED call
     \/ Value(PlanOf[R]) /\ UNCHANGED call
     \/ /\ DateOf(R) \in valued
        /\ Goto("recording")
        /\ LeaveLedger
  /\ UNCHANGED manifest /\ LeaveFiles /\ LeaveWorld

(* The next order, then the NAV, then the session's completion; what an earlier *)
(* attempt already did is answered from the ledger.                             *)
Settle ==
  /\ call.at = "trading"
  /\ \/ /\ \E i \in DOMAIN PlanOf[R].orders :
             /\ \A j \in DOMAIN PlanOf[R].orders :
                  j < i => PlanOf[R].orders[j].id \in applied
             /\ Apply(PlanOf[R], PlanOf[R].orders[i].id)
        /\ UNCHANGED call
     \/ ~RaisesAgain /\ Value(PlanOf[R]) /\ UNCHANGED call
     \/ Close(PlanOf[R]) /\ Goto("recording")
     \/ /\ DateOf(R) \in closed
        /\ Goto("recording")
        /\ LeaveLedger
  /\ UNCHANGED manifest /\ LeaveFiles /\ LeaveWorld

WriteResult ==
  /\ call.at = "recording"
  /\ results' = results \cup {R}
  /\ Goto("finishing")
  /\ UNCHANGED <<manifest, planned, verdict, assessed, approval, latest>>
  /\ LeaveWorld /\ LeaveLedger

-----------------------------------------------------------------------------
(* One turn of _continue's loop. *)

(* Mutant: the damage found is recorded as a failure of the run. *)
FindDamage_MarksFailed ==
  /\ call.at = "loop"
  /\ R \in damaged
  /\ Save(R, [M EXCEPT !.status = "FAILED"])
  /\ Return
  /\ LeaveFiles /\ LeaveWorld /\ LeaveLedger

(* verify_artifacts raises. *)
FindDamage ==
  /\ call.at = "loop"
  /\ R \in damaged
  /\ Return
  /\ UNCHANGED manifest /\ LeaveFiles /\ LeaveWorld /\ LeaveLedger

Turn(s) ==
  /\ call.at = "loop" /\ R \notin damaged
  /\ M.status # "COMPLETED"
  /\ NextIncomplete(M, s)

RunStage(s) ==
  /\ Turn(s)
  /\ s \in {"RESEARCH", "PLAN", "RISK", "REPORT_PRE", "EXECUTION", "REPORT_FINAL"}
  /\ BeginStage(s) \/ RefuseStage(s)

(* Only start runs the data stages. *)
RefuseData(s) ==
  /\ Turn(s)
  /\ s \in {"DATA_SYNC", "DATA_VALIDATE"}
  /\ Return
  /\ UNCHANGED manifest /\ LeaveFiles /\ LeaveWorld /\ LeaveLedger

AtApproval(s) == Turn(s) /\ s = "APPROVAL"

Reject(s) ==
  /\ AtApproval(s)
  /\ verdict[R] = "rejected"
  /\ Save(R, Terminated(M))
  /\ Return
  /\ LeaveFiles /\ LeaveWorld /\ LeaveLedger

Await(s) ==
  /\ AtApproval(s)
  /\ verdict[R] = "approved"
  /\ manifest' = IF AwaitRefused(M) THEN manifest
                 ELSE [manifest EXCEPT ![R] = Awaiting(M)]
  /\ Return
  /\ LeaveFiles /\ LeaveWorld /\ LeaveLedger

(* Mutant: the run is published before its completion is saved. *)
CompleteRun_Unsaved ==
  /\ call.at = "loop" /\ R \notin damaged
  /\ AllDone(M) \/ M.status = "COMPLETED"
  /\ Goto("publishing")
  /\ UNCHANGED manifest /\ LeaveFiles /\ LeaveWorld /\ LeaveLedger

(* complete_run; the caller publishes the manifest it returns.  A run that is *)
(* COMPLETED already is only published again.                                 *)
CompleteRun ==
  /\ call.at = "loop" /\ R \notin damaged
  /\ AllDone(M) \/ M.status = "COMPLETED"
  /\ Save(R, Completed(M))
  /\ Goto("publishing")
  /\ LeaveFiles /\ LeaveWorld /\ LeaveLedger

(* Mutant: the trade date already published is not compared. *)
Publish_Always ==
  /\ call.at = "publishing"
  /\ latest' = R
  /\ Return
  /\ UNCHANGED <<manifest, planned, verdict, assessed, approval, results>>
  /\ LeaveWorld /\ LeaveLedger

(* publish_completed keeps an index of a later trade date. *)
Publish ==
  /\ call.at = "publishing"
  /\ latest' = IF latest # Absent /\ DateOf(latest) > DateOf(R) THEN latest ELSE R
  /\ Return
  /\ UNCHANGED <<manifest, planned, verdict, assessed, approval, results>>
  /\ LeaveWorld /\ LeaveLedger

Step ==
  \/ WriteApproval \/ FinishStage \/ DataReady
  \/ RaiseAgain \/ Produce \/ MakePlan \/ Assess
  \/ ReuseResult \/ Validate \/ Recheck \/ OpenSession \/ Settle \/ WriteResult
  \/ FindDamage \/ CompleteRun \/ Publish
  \/ \E s \in StageNames :
       \/ DataStage(s) \/ RunStage(s) \/ RefuseData(s) \/ Reject(s) \/ Await(s)

-----------------------------------------------------------------------------
Upset(u) ==
  /\ u \in Possible
  /\ upsets < MaxUpsets
  /\ upsets' = upsets + 1

(* The process dies; its files and the ledger stay as they are. *)
Crash ==
  /\ Upset("crash")
  /\ call # Idle
  /\ Return
  /\ UNCHANGED <<manifest, killSwitch, damaged>> /\ LeaveFiles /\ LeaveLedger

(* A stage's action or complete_stage raises.  DATA_SYNC has no handler, so its *)
(* stage stays RUNNING.                                                         *)
Raise ==
  /\ Upset("raise")
  /\ call.at \in InStage
  /\ IF call.stage = "DATA_SYNC"
     THEN UNCHANGED manifest
     ELSE Save(R, StageFailed(M, call.stage))
  /\ Return
  /\ UNCHANGED <<killSwitch, damaged>> /\ LeaveFiles /\ LeaveLedger

Expire(r) ==
  /\ Upset("expiry")
  /\ approval[r] = "valid"
  /\ approval' = [approval EXCEPT ![r] = "expired"]
  /\ UNCHANGED <<manifest, planned, verdict, assessed, results, latest>>
  /\ UNCHANGED <<killSwitch, damaged, call>> /\ LeaveLedger

Engage ==
  /\ Upset("switch")
  /\ ~killSwitch
  /\ killSwitch' = TRUE
  /\ UNCHANGED <<manifest, damaged, call>> /\ LeaveFiles /\ LeaveLedger

Release ==
  /\ killSwitch
  /\ killSwitch' = FALSE
  /\ UNCHANGED <<manifest, damaged, upsets, call>> /\ LeaveFiles /\ LeaveLedger

(* A registered artifact is lost or altered. *)
Damage(r) ==
  /\ Upset("damage")
  /\ manifest[r] # Absent /\ manifest[r].stages["DATA_SYNC"] = "COMPLETED"
  /\ damaged' = damaged \cup {r}
  /\ UNCHANGED <<manifest, killSwitch, call>> /\ LeaveFiles /\ LeaveLedger

Command(r) == Start(r) \/ Resume(r) \/ Execute(r) \/ Grant(r)

Next ==
  \/ \E r \in Runs : Command(r) \/ Expire(r) \/ Damage(r)
  \/ Step \/ Crash \/ Raise \/ Engage \/ Release

Spec == Init /\ [][Next]_vars

(* A running command goes on, the kill switch is removed in the end, and the  *)
(* scheduler keeps running the day while the operator keeps granting.          *)
FairSpec ==
  /\ Spec
  /\ WF_vars(Step)
  /\ WF_vars(Release)
  /\ \A r \in Runs : SF_vars(Start(r)) /\ SF_vars(Grant(r))

(* The operator, moreover, keeps resuming and executing every run. *)
DiligentSpec ==
  /\ FairSpec
  /\ \A r \in Runs : SF_vars(Resume(r)) /\ SF_vars(Execute(r))

-----------------------------------------------------------------------------
(* Nothing reaches the ledger for a run unless its risk assessment approved the *)
(* plan, an approval was granted for it and every stage before EXECUTION was    *)
(* completed, none skipped; _continue, grant_approval and terminate_run each    *)
(* hold a part of this.                                                         *)
ExecutedOnlyIfApproved ==
  \A d \in Dates : owner[d] # Absent =>
    LET r == owner[d].run
    IN  /\ verdict[r] = "approved"
        /\ approval[r] # "none"
        /\ \A s \in Before("APPROVAL") : manifest[r].stages[s] = "COMPLETED"

(* An EXECUTION stage that counts as completed has its result on file and its *)
(* whole day in the ledger: every order, the NAV and the closed session; so    *)
(* has every completed run that risk did not reject, across crashes, retries   *)
(* and renewed approvals.                                                      *)
ExecutionIsSettled ==
  \A r \in Runs :
    /\ manifest[r] # Absent
    /\ \/ manifest[r].stages["EXECUTION"] = "COMPLETED"
       \/ manifest[r].status = "COMPLETED" /\ verdict[r] # "rejected"
    => /\ r \in results
       /\ owner[DateOf(r)] = PlanOf[r]
       /\ IdsOf(PlanOf[r]) \subseteq applied
       /\ DateOf(r) \in valued \cap closed

(* A completed stage has everything before it completed or skipped, except that *)
(* an approval may be renewed while nothing after it has completed.             *)
StagesInOrder ==
  \A r \in Runs : manifest[r] # Absent =>
    \A s \in StageNames : Done(manifest[r], s) =>
      \A t \in Before(s) : Done(manifest[r], t)

(* The index only ever names completed runs, whatever became of them later. *)
PublishedIsCompleted ==
  latest # Absent => manifest[latest] # Absent /\ manifest[latest].status = "COMPLETED"

(* artifacts/latest.json never goes back to an earlier trade date, in whatever *)
(* order runs are completed, re-run and re-published.                          *)
IndexNeverRegresses ==
  [][latest # Absent => latest' # Absent /\ DateOf(latest') >= DateOf(latest)]_vars

(* A completed run is final: no later command reopens a stage or its status. *)
CompletedIsFinal ==
  [][\A r \in Runs : manifest[r] # Absent /\ manifest[r].status = "COMPLETED"
       => manifest'[r] = manifest[r]]_vars

(* A stage of r is RUNNING and no process is at work on it: it died, or the *)
(* DATA_SYNC stage raised.                                                  *)
Stranded(r) ==
  /\ \E s \in StageNames : manifest[r].stages[s] = "RUNNING"
  /\ call.run # r

(* A stage fails and its file is on record already, on other books, or on another *)
(* state of the switch or the NAV series, than it would be written on now.        *)
PlanContradicted(r) ==
  /\ manifest[r].stages["PLAN"] = "FAILED"
  /\ planned[r] \notin {Absent, applied}

AssessmentContradicted(r) ==
  /\ manifest[r].stages["RISK"] = "FAILED"
  /\ verdict[r] # "none"
  /\ assessed[r].halted \/ assessed[r].days # NavDays(r)

Hopeless(r) == \E s \in Raising[r] : manifest[r].stages[s] = "FAILED"

DateLost(r) == Overtaken(r) \/ owner[DateOf(r)] \notin {Absent, PlanOf[r]}

(* Under an operator who repeats the commands, every started run is completed or *)
(* rejected in the end, unless it was stranded by a death inside a stage, its    *)
(* date went to another run, its files were damaged, a stage raises on its data  *)
(* for good, or the plan or assessment it wrote before a failure is not the one  *)
(* it would write now.                                                           *)
RunsFinish ==
  \A r \in Runs : manifest[r] # Absent ~>
    /\ manifest[r] # Absent
    /\ \/ manifest[r].status = "COMPLETED" \/ manifest[r].rejected
       \/ Stranded(r) \/ DateLost(r) \/ r \in damaged \/ Hopeless(r)
       \/ PlanContradicted(r) \/ AssessmentContradicted(r)

-----------------------------------------------------------------------------
(* What the documents say and the code does not do. *)

(* auditable-run-lifecycle/spec.md: a run with a stage that did not complete is *)
(* never exposed as the latest completed run.                                   *)
NoPartialRunPublished ==
  latest # Absent =>
    \A s \in StageNames : manifest[latest].stages[s] = "COMPLETED"

(* docs/runbook.md, the kill switch drill: a block, whichever stage it hits, is *)
(* lifted by removing the file and resuming the original run.                   *)
KillSwitchOnlyDelays ==
  \A r \in Runs : manifest[r] # Absent /\ manifest[r].rejected => r \in RulesReject

(* auditable-run-lifecycle/spec.md: resuming an incomplete run starts a new     *)
(* attempt at its first non-completed stage; with an operator who resumes it it *)
(* does not stay incomplete for ever.                                           *)
IncompleteRunsResume ==
  \A r \in Runs : manifest[r] # Absent ~>
    manifest[r] # Absent /\ manifest[r].status = "COMPLETED"
=============================================================================
