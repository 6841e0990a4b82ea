----------------------------- MODULE ControlStores -----------------------------
(***************************************************************************)
(* The two state files of risk v2, risk/kill_switch_store.py and            *)
(* risk/approval_store.py.  A command that changes one of them takes a lock *)
(* file created with O_EXCL, reads the whole state, checks its update       *)
(* against it, replaces the file and removes the lock; it gives up when the *)
(* lock stays taken.  A process may die anywhere: its lock file stays.      *)
(* Readers take no lock.                                                    *)
(***************************************************************************)
EXTENDS RiskModels

CONSTANTS
  SwitchIds,    \* the kill switches: [scope, id]
  ApprovalIds,
  Evidence,     \* approval documents: [id, ...]
  Writers,      \* the processes that run a command on a store
  Calls,        \* writer -> the commands it may run, see SetCall below
  Free, Orphan, \* a lock file that is not there, one whose owner died
  None,
  MaxClock,     \* bound on the clock that stamps the switches
  MaxFaults     \* bound on the faults: here, processes that die

(* The commands of risk/v2_cli.py: kill-switch set, approval issue, approval revoke. *)
SetCall == [op: {"set"}, switch: SwitchIds, record: SwitchRecord]
IssueCall == [op: {"issue"}, evidence: Evidence]
RevokeCall == [op: {"revoke"}, id: ApprovalIds]

ASSUME StoresAssumption ==
  /\ Calls \in [Writers -> SUBSET (SetCall \cup IssueCall \cup RevokeCall)]
  /\ \A e \in Evidence : e.id \in ApprovalIds
  /\ Absent \notin Evidence /\ Absent \notin SwitchRecord
  /\ Free \notin Writers /\ Orphan \notin Writers /\ Free # Orphan
  /\ MaxClock \in Nat /\ MaxFaults \in Nat

VARIABLES
  clock,
  switches,   \* the switch file: switch -> record, or Absent
  approvals,  \* the approval file: id -> evidence, or Absent
  revoked,    \*   and the ids it lists as revoked
  lock,       \* file -> Free, Orphan or the writer that created the lock file
  pc, call,   \* writer -> where it is, the command it runs
  seen,       \* writer -> the state it read under the lock
  faults

storeVars == <<clock, switches, approvals, revoked, lock, pc, call, seen, faults>>

-----------------------------------------------------------------------------
Files == {"switches", "approvals"}

(* The file a command changes, and what a read of it returns. *)
FileOf(c) == IF c.op = "set" THEN "switches" ELSE "approvals"

Content(file) ==
  IF file = "switches" THEN [switches |-> switches]
  ELSE [approvals |-> approvals, revoked |-> revoked]

(* Mutant: an equal or earlier timestamp is let through. *)
Goes_Stale(c, s) ==
  CASE c.op = "set"    -> TRUE
    [] c.op = "issue"  -> s.approvals[c.evidence.id] = Absent
    [] c.op = "revoke" -> s.approvals[c.id] # Absent

(* Whether the update is written: a switch only moves forward in time; an id that *)
(* is bound is refused or, for the very same evidence, returned as it is; only    *)
(* an issued id can be revoked.                                                   *)
Goes(c, s) ==
  CASE c.op = "set"    -> \/ s.switches[c.switch] = Absent
                          \/ c.record.changedAt > s.switches[c.switch].changedAt
    [] c.op = "issue"  -> s.approvals[c.evidence.id] = Absent
    [] c.op = "revoke" -> s.approvals[c.id] # Absent

StoresInit ==
  /\ clock = 0
  /\ switches = [s \in SwitchIds |-> Absent]
  /\ approvals = [a \in ApprovalIds |-> Absent]
  /\ revoked = {}
  /\ lock = [f \in Files |-> Free]
  /\ pc = [w \in Writers |-> "idle"]
  /\ call = [w \in Writers |-> None]
  /\ seen = [w \in Writers |-> None]
  /\ faults = 0

files == <<switches, approvals, revoked>>

(* A command starts; set stamps its record before it waits for the lock. *)
Request(w) ==
  /\ pc[w] = "idle"
  /\ \E c \in Calls[w] :
       /\ c.op = "set" => c.record.changedAt = clock
       /\ call' = [call EXCEPT ![w] = c]
  /\ pc' = [pc EXCEPT ![w] = "waiting"]
  /\ UNCHANGED <<clock, files, lock, seen, faults>>

(* Mutant: the lock is taken over whoever has it. *)
Acquire_Steals(w) ==
  /\ pc[w] = "waiting"
  /\ lock' = [lock EXCEPT ![FileOf(call[w])] = w]
  /\ pc' = [pc EXCEPT ![w] = "locked"]
  /\ UNCHANGED <<clock, files, call, seen, faults>>

Acquire(w) ==
  /\ pc[w] = "waiting"
  /\ lock[FileOf(call[w])] = Free
  /\ lock' = [lock EXCEPT ![FileOf(call[w])] = w]
  /\ pc' = [pc EXCEPT ![w] = "locked"]
  /\ UNCHANGED <<clock, files, call, seen, faults>>

(* The deadline passed and the lock file is still there: TimeoutError. *)
GiveUp(w) ==
  /\ pc[w] = "waiting"
  /\ lock[FileOf(call[w])] # Free
  /\ pc' = [pc EXCEPT ![w] = "idle"]
  /\ call' = [call EXCEPT ![w] = None]
  /\ UNCHANGED <<clock, files, lock, seen, faults>>

(* The state is read and the update checked against it. *)
Load(w) ==
  /\ pc[w] = "locked"
  /\ LET content == Content(FileOf(call[w])) IN
       IF Goes(call[w], content)
       THEN /\ seen' = [seen EXCEPT ![w] = content]
            /\ pc' = [pc EXCEPT ![w] = "loaded"]
       ELSE /\ pc' = [pc EXCEPT ![w] = "leaving"]
            /\ UNCHANGED seen
  /\ UNCHANGED <<clock, files, lock, call, faults>>

(* The file is replaced by what was read and the update. *)
Store(w) ==
  /\ pc[w] = "loaded"
  /\ LET c == call[w]
         s == seen[w]
     IN \/ /\ c.op = "set"
           /\ switches' = [s.switches EXCEPT ![c.switch] = c.record]
           /\ UNCHANGED <<approvals, revoked>>
        \/ /\ c.op = "issue"
           /\ approvals' = [s.approvals EXCEPT ![c.evidence.id] = c.evidence]
           /\ revoked' = s.revoked
           /\ UNCHANGED switches
        \/ /\ c.op = "revoke"
           /\ approvals' = s.approvals
           /\ revoked' = s.revoked \cup {c.id}
           /\ UNCHANGED switches
  /\ seen' = [seen EXCEPT ![w] = None]
  /\ pc' = [pc EXCEPT ![w] = "leaving"]
  /\ UNCHANGED <<clock, lock, call, faults>>

(* The lock file is removed, after an error too. *)
Release(w) ==
  /\ pc[w] = "leaving"
  /\ lock' = [lock EXCEPT ![FileOf(call[w])] = Free]
  /\ pc' = [pc EXCEPT ![w] = "idle"]
  /\ call' = [call EXCEPT ![w] = None]
  /\ UNCHANGED <<clock, files, seen, faults>>

(* The process dies; a lock file it created stays. *)
Die(w) ==
  /\ pc[w] # "idle" /\ faults < MaxFaults
  /\ faults' = faults + 1
  /\ lock' = [f \in Files |-> IF lock[f] = w THEN Orphan ELSE lock[f]]
  /\ pc' = [pc EXCEPT ![w] = "idle"]
  /\ call' = [call EXCEPT ![w] = None]
  /\ seen' = [seen EXCEPT ![w] = None]
  /\ UNCHANGED <<clock, files>>

Tick ==
  /\ clock < MaxClock
  /\ clock' = clock + 1
  /\ UNCHANGED <<files, lock, pc, call, seen, faults>>

Write(w) ==
  Request(w) \/ Acquire(w) \/ GiveUp(w) \/ Load(w) \/ Store(w) \/ Release(w) \/ Die(w)

StoresNext == Tick \/ \E w \in Writers : Write(w)

StoresSpec == StoresInit /\ [][StoresNext]_storeVars

-----------------------------------------------------------------------------
(* Every record that some command sets. *)
SetRecords == {c.record : c \in {d \in UNION {Calls[w] : w \in Writers} : d.op = "set"}}

Controls == INSTANCE RiskControls WITH SwitchRecords <- SetRecords

(* The lock files make the read-modify-write of the two files atomic (the        *)
(* docstrings of both stores): no update is lost, none is applied to a state     *)
(* that has changed since it was checked, a switch never moves back in time, an  *)
(* id is never rebound and never comes back from being revoked.                  *)
StoresAreAtomic == Controls!ControlsSpec
=============================================================================
