------------------------------ MODULE RunStore ------------------------------
(***************************************************************************)
(* The run manifest of common/run_store.py as a value, and each of          *)
(* RunManifestStore's operations as the manifest it saves.  An operation    *)
(* that raises is a predicate here; the module that drives the store        *)
(* decides when an operation is called and between which calls a process    *)
(* may die.                                                                 *)
(*                                                                          *)
(* Of the stage attempts only the last one's status steers the code, and it *)
(* is RUNNING exactly when the stage is; timestamps, checksums and          *)
(* current_stage steer nothing.  rejected says that error starts with       *)
(* RISK_REJECTED, the only content of error the code looks at.              *)
(***************************************************************************)
EXTENDS Integers

(* DEFAULT_DAILY_STAGES, each stage with its place in the order. *)
Place == [DATA_SYNC |-> 1, DATA_VALIDATE |-> 2, RESEARCH |-> 3, PLAN |-> 4,
          RISK |-> 5, REPORT_PRE |-> 6, APPROVAL |-> 7, EXECUTION |-> 8,
          REPORT_FINAL |-> 9]

StageNames == {"DATA_SYNC", "DATA_VALIDATE", "RESEARCH", "PLAN", "RISK",
               "REPORT_PRE", "APPROVAL", "EXECUTION", "REPORT_FINAL"}

StageStatus == {"PENDING", "RUNNING", "COMPLETED", "FAILED", "SKIPPED"}
RunStatus == {"PENDING", "RUNNING", "AWAITING_APPROVAL", "FAILED", "COMPLETED"}

RunManifest == [status: RunStatus, stages: [StageNames -> StageStatus],
                rejected: BOOLEAN]

NewManifest == [status |-> "PENDING", stages |-> [s \in StageNames |-> "PENDING"],
                rejected |-> FALSE]

Before(s) == {t \in StageNames : Place[t] < Place[s]}
After(s) == {t \in StageNames : Place[t] > Place[s]}

-----------------------------------------------------------------------------
Done(m, s) == m.stages[s] \in {"COMPLETED", "SKIPPED"}

AllDone(m) == \A s \in StageNames : Done(m, s)

(* next_incomplete_stage returns s. *)
NextIncomplete(m, s) == ~Done(m, s) /\ \A t \in Before(s) : Done(m, t)

(* Mutant: a completed stage may be retried after its followers completed. *)
StartRefused_AnyRetry(m, s) ==
  \/ \E t \in Before(s) : ~Done(m, t)
  \/ m.stages[s] = "RUNNING"

(* Mutant: a failed stage cannot be started again. *)
StartRefused_Failed(m, s) ==
  \/ \E t \in Before(s) : ~Done(m, t)
  \/ m.stages[s] = "COMPLETED" /\ \E t \in After(s) : m.stages[t] = "COMPLETED"
  \/ m.stages[s] \in {"RUNNING", "FAILED"}

(* start_stage raises.  Both callers start a COMPLETED stage only as a retry. *)
StartRefused(m, s) ==
  \/ \E t \in Before(s) : ~Done(m, t)
  \/ m.stages[s] = "COMPLETED" /\ \E t \in After(s) : m.stages[t] = "COMPLETED"
  \/ m.stages[s] = "RUNNING"

StageStarted(m, s) ==
  [m EXCEPT !.stages[s] = "RUNNING", !.status = "RUNNING", !.rejected = FALSE]

StageCompleted(m, s) == [m EXCEPT !.stages[s] = "COMPLETED", !.status = "RUNNING"]

StageFailed(m, s) ==
  [m EXCEPT !.stages[s] = "FAILED", !.status = "FAILED", !.rejected = FALSE]

AwaitRefused(m) == m.stages["APPROVAL"] \notin {"PENDING", "FAILED"}

Awaiting(m) == [m EXCEPT !.status = "AWAITING_APPROVAL", !.rejected = FALSE]

Completed(m) == [m EXCEPT !.status = "COMPLETED", !.rejected = FALSE]

(* terminate_run, called for a risk rejection: what is pending is skipped. *)
Terminated(m) ==
  [m EXCEPT !.stages = [s \in StageNames |->
                          IF m.stages[s] = "PENDING" THEN "SKIPPED" ELSE m.stages[s]],
            !.status = "FAILED", !.rejected = TRUE]
=============================================================================
