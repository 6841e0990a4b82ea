----------------------------- MODULE RiskControls -----------------------------
(***************************************************************************)
(* What the two state files of risk v2 promise their readers and writers:   *)
(* a set of kill switches, each moved forward in time only, and a registry  *)
(* of approvals that are issued once and revoked for good.  Every update    *)
(* takes effect at once and on the state it finds.  Module ControlStores    *)
(* shows that the lock files and the read-modify-write of                   *)
(* risk/kill_switch_store.py and risk/approval_store.py keep this promise.  *)
(***************************************************************************)
EXTENDS Integers

CONSTANTS
  Absent,        \* no record
  SwitchIds,     \* the kill switches: [scope, id]
  SwitchRecords, \* what a switch can be set to: [active, reduceOnly, changedAt]
  ApprovalIds,
  Evidence       \* approval documents: [id, ...]

VARIABLES
  switches,      \* switch -> its record, Absent before the first one
  approvals,     \* approval id -> the evidence it is bound to, or Absent
  revoked        \* revoked approval ids

controls == <<switches, approvals, revoked>>

ControlsInit ==
  /\ switches = [s \in SwitchIds |-> Absent]
  /\ approvals = [a \in ApprovalIds |-> Absent]
  /\ revoked = {}

(* A switch is set by a record later than the one it has. *)
MoveSwitch(s, record) ==
  /\ switches[s] # Absent => record.changedAt > switches[s].changedAt
  /\ switches' = [switches EXCEPT ![s] = record]
  /\ UNCHANGED <<approvals, revoked>>

(* An id that is bound stays bound to its evidence. *)
Bind(evidence) ==
  /\ approvals[evidence.id] = Absent
  /\ approvals' = [approvals EXCEPT ![evidence.id] = evidence]
  /\ UNCHANGED <<switches, revoked>>

(* Only what was issued can be revoked. *)
Withdraw(a) ==
  /\ approvals[a] # Absent
  /\ revoked' = revoked \cup {a}
  /\ UNCHANGED <<switches, approvals>>

ControlsNext ==
  \/ \E s \in SwitchIds, record \in SwitchRecords : MoveSwitch(s, record)
  \/ \E evidence \in Evidence : Bind(evidence)
  \/ \E a \in ApprovalIds : Withdraw(a)

ControlsSpec == ControlsInit /\ [][ControlsNext]_controls
=============================================================================
