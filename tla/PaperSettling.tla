---------------------------- MODULE PaperSettling ----------------------------
(***************************************************************************)
(* Is a date that was opened ever settled?  PaperExecution with a history   *)
(* variable for the plans whose process died.  The executor is reached only  *)
(* through the EXECUTION stage of a run, and start_stage refuses a stage     *)
(* that a dead process left RUNNING, so such a plan is not executed again on *)
(* its own; a call that raised leaves the stage FAILED, and is repeated.     *)
(***************************************************************************)
EXTENDS PaperExecution

VARIABLE died   \* the plans whose process died while it executed them

settlingVars == <<vars, died>>

SettlingInit == Init /\ died = {}

(* Calls that return or raise. *)
Lives(p) ==
  /\ \/ \E plan \in Plans : Submit(p, plan)
     \/ Step(p)
  /\ UNCHANGED died

(* Of what PaperExecution calls a crash this is the part that is none: the call *)
(* raises on something passing, a locked database for one, and can be repeated. *)
RaisePassing(p) == Crash(p) /\ UNCHANGED died

Die(p) == Crash(p) /\ died' = died \cup {job[p]}

SettlingNext ==
  \/ OpenAccount /\ UNCHANGED died
  \/ \E p \in Procs : Lives(p) \/ RaisePassing(p) \/ Die(p)

(* The stage that executes the plan can be started again. *)
Repeatable(plan) ==
  /\ plan \notin died
  /\ sessions[plan.date] # Absent
  /\ sessions[plan.date].plan = plan

(* Every call of a running process returns or raises, and the operator or the  *)
(* scheduler repeats the command of a run whose execution began, as long as    *)
(* the run accepts it.                                                         *)
SettlingSpec ==
  /\ SettlingInit
  /\ [][SettlingNext]_settlingVars
  /\ \A p \in Procs : WF_settlingVars(Step(p) /\ UNCHANGED died)
  /\ \A plan \in Plans :
       SF_settlingVars(/\ Repeatable(plan)
                       /\ \E p \in Procs : Submit(p, plan)
                       /\ UNCHANGED died)

-----------------------------------------------------------------------------
Unrecorded(plan) == {i \in DOMAIN plan.orders : ~Recorded(plan.orders[i])}

(* What raises again at every repeat: the fee of the next order's sale is more   *)
(* than the account can bear, or every order is in and a holding has no price.   *)
RaisesForGood(plan) ==
  IF Unrecorded(plan) = {}
  THEN ~Priced(plan.date)
  ELSE SaleBreaksCheck(plan, plan.orders[Min(Unrecorded(plan))])

(* A date whose execution began is completed in the end, however often its calls *)
(* raised, unless a later date began meanwhile, the process that executed its    *)
(* plan died, or its next call raises on the books for good.  Executions do not  *)
(* overlap (one process).                                                        *)
OpenedDaysSettle ==
  \A d \in Dates :
    sessions[d] # Absent ~>
      /\ sessions[d] # Absent
      /\ \/ sessions[d].status = "COMPLETED"
         \/ Overtaken(d)
         \/ sessions[d].plan \in died
         \/ RaisesForGood(sessions[d].plan)
=============================================================================
