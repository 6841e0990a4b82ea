------------------------------ MODULE RiskModels ------------------------------
(***************************************************************************)
(* The documents of risk/v2_models.py that the stores and the engine share: *)
(* kill switch records and the value that stands for a missing one.         *)
(***************************************************************************)
EXTENDS Integers

CONSTANT Absent   \* no record, no evidence

(* KillSwitchRecord; what identifies a switch, its scope and scope_id, is kept *)
(* apart as [scope, id].  Wording and authors are left out.                    *)
SwitchRecord == [active: BOOLEAN, reduceOnly: BOOLEAN, changedAt: Nat]
=============================================================================
