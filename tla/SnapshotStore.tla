----------------------------- MODULE SnapshotStore -----------------------------
(***************************************************************************)
(* DataSnapshotStore of data/snapshots.py: commands that synchronize the    *)
(* canonical datasets of a trade date.  A version is named by the content   *)
(* of its datasets (hashes are taken to be free of collisions).  Its        *)
(* directory is made first, then filled, then judged; the manifest is       *)
(* written last and, for a valid version, the pointer of the date after it. *)
(* The commands take no lock, and any of them may die or fail to write.     *)
(*                                                                          *)
(* A payload is the hash of its datasets, which Content gives back.          *)
(***************************************************************************)
EXTENDS DataQuality

CONSTANTS
  Dates,          \* the trade dates that are synchronized
  Payloads,       \* what the provider may return, canonicalized: hashes
  Content,        \* payload -> its datasets, as DataQuality describes them
  Restatements,   \* the payloads it may turn to later
  Syncers,        \* the processes that synchronize
  MaxSyncs,       \* bound on the commands
  MaxRestated,    \* bound on the changes at the provider
  MaxSyncFaults   \* bound on deaths and failed writes, and changed files

ASSUME SnapshotAssumption ==
  /\ Dates \subseteq Nat
  /\ Restatements \subseteq Payloads
  /\ Content = [d \in Payloads |-> Content[d]]
  /\ \A d \in Payloads : Canonical(Content[d])
  /\ None \notin Syncers /\ None \notin Dates \X Payloads
  /\ {MaxSyncs, MaxRestated, MaxSyncFaults} \subseteq Nat

VARIABLES
  offered,    \* what the provider returns now
  dirs,       \* the version directories that were made, as <<date, payload>>
  changed,    \* those of them a dataset file of which was changed since
  manifests,  \* version -> its manifest [valid, by]
  pointer,    \* date -> the version latest.json names
  spc,        \* process -> where it is
  version,    \* process -> the version it is about
  synced,     \* process -> the version it returned as valid, None after an error
  syncs, restated, syncFaults,
  hit         \* versions a process died at, or failed to write (history)

syncVars == <<offered, dirs, changed, manifests, pointer, spc, version, synced,
              syncs, restated, syncFaults, hit>>

-----------------------------------------------------------------------------
Versions == Dates \X Payloads

(* The versions that pass every critical rule, and those whose rules raise. *)
ValidVersions == {v \in Versions : Valid(Content[v[2]], v[1])}
RaisingPayloads == {d \in Payloads : RulesRaise(Content[d])}

SyncInit ==
  /\ offered \in Payloads
  /\ dirs = {} /\ changed = {}
  /\ manifests = <<>>
  /\ pointer = [t \in Dates |-> None]
  /\ spc = [p \in Syncers |-> "idle"]
  /\ version = [p \in Syncers |-> None]
  /\ synced = [p \in Syncers |-> None]
  /\ syncs = 0 /\ restated = 0 /\ syncFaults = 0
  /\ hit = {}

Goto(p, place) == spc' = [spc EXCEPT ![p] = place]

(* The command ends: with a version, or with an error. *)
Return(p) ==
  /\ Goto(p, "idle")
  /\ synced' = [synced EXCEPT ![p] = version[p]]

RaiseSync(p) ==
  /\ Goto(p, "idle")
  /\ UNCHANGED synced

(* The provider restates what it has. *)
Restate ==
  /\ restated < MaxRestated
  /\ restated' = restated + 1
  /\ offered' \in Restatements
  /\ UNCHANGED <<dirs, changed, manifests, pointer, spc, version, synced,
                 syncs, syncFaults, hit>>

(* The payload is fetched, and with it the version is known. *)
Fetch(p) ==
  /\ spc[p] = "idle" /\ syncs < MaxSyncs
  /\ syncs' = syncs + 1
  /\ \E t \in Dates : version' = [version EXCEPT ![p] = <<t, offered>>]
  /\ synced' = [synced EXCEPT ![p] = None]
  /\ Goto(p, "fetched")
  /\ UNCHANGED <<offered, dirs, changed, manifests, pointer, restated, syncFaults, hit>>

(* Mutant: the files of a version that is there are not looked at. *)
Usable_Unread(v) == manifests[v].valid

(* load_dataset on every dataset, then the verdict on file. *)
Usable(v) == v \notin changed /\ manifests[v].valid

(* The manifest is there: the version is returned as it is, or the command fails. *)
ReuseVersion(p) ==
  /\ spc[p] = "fetched" /\ version[p] \in DOMAIN manifests
  /\ IF Usable(version[p]) THEN Return(p) ELSE RaiseSync(p)
  /\ UNCHANGED <<offered, dirs, changed, manifests, pointer, version,
                 syncs, restated, syncFaults, hit>>

(* It is not. *)
MissVersion(p) ==
  /\ spc[p] = "fetched" /\ version[p] \notin DOMAIN manifests
  /\ Goto(p, "missed")
  /\ UNCHANGED <<offered, dirs, changed, manifests, pointer, version, synced,
                 syncs, restated, syncFaults, hit>>

(* Mutant: a directory that is there already is used (exist_ok). *)
MakeDir_Shared(p) ==
  /\ spc[p] = "missed"
  /\ dirs' = dirs \cup {version[p]}
  /\ Goto(p, "made")
  /\ UNCHANGED <<offered, changed, manifests, pointer, version, synced,
                 syncs, restated, syncFaults, hit>>

(* The directory is made; that it is there already is an error. *)
MakeDir(p) ==
  /\ spc[p] = "missed"
  /\ IF version[p] \in dirs
     THEN RaiseSync(p) /\ UNCHANGED dirs
     ELSE /\ dirs' = dirs \cup {version[p]}
          /\ Goto(p, "made")
          /\ UNCHANGED synced
  /\ UNCHANGED <<offered, changed, manifests, pointer, version,
                 syncs, restated, syncFaults, hit>>

(* The datasets are written and judged; judging may raise. *)
WriteDatasets(p) ==
  /\ spc[p] = "made"
  /\ IF version[p][2] \in RaisingPayloads THEN RaiseSync(p) ELSE Goto(p, "judged") /\ UNCHANGED synced
  /\ UNCHANGED <<offered, dirs, changed, manifests, pointer, version,
                 syncs, restated, syncFaults, hit>>

(* Mutant: an invalid version raises before its manifest is written. *)
WriteManifest_ValidOnly(p) ==
  /\ spc[p] = "judged"
  /\ IF version[p] \in ValidVersions
     THEN /\ manifests' = [x \in DOMAIN manifests \cup {version[p]} |->
                             IF x = version[p] THEN [valid |-> TRUE, by |-> p] ELSE manifests[x]]
          /\ Goto(p, "recorded") /\ UNCHANGED synced
     ELSE RaiseSync(p) /\ UNCHANGED manifests
  /\ UNCHANGED <<offered, dirs, changed, pointer, version,
                 syncs, restated, syncFaults, hit>>

(* The manifest is written, whatever the verdict. *)
WriteManifest(p) ==
  /\ spc[p] = "judged"
  /\ LET v == version[p]
         manifest == [valid |-> v \in ValidVersions, by |-> p]
     IN /\ manifests' = [x \in DOMAIN manifests \cup {v} |->
                           IF x = v THEN manifest ELSE manifests[x]]
        /\ IF manifest.valid THEN Goto(p, "recorded") /\ UNCHANGED synced
           ELSE RaiseSync(p)
  /\ UNCHANGED <<offered, dirs, changed, pointer, version,
                 syncs, restated, syncFaults, hit>>

(* And the pointer of the date, for a valid one. *)
WritePointer(p) ==
  /\ spc[p] = "recorded"
  /\ pointer' = [pointer EXCEPT ![version[p][1]] = version[p]]
  /\ Return(p)
  /\ UNCHANGED <<offered, dirs, changed, manifests, version,
                 syncs, restated, syncFaults, hit>>

(* The process dies, or a write fails: what is on disk stays. *)
DieSyncing(p) ==
  /\ spc[p] \notin {"idle", "fetched", "missed"} /\ syncFaults < MaxSyncFaults
  /\ syncFaults' = syncFaults + 1
  /\ hit' = hit \cup {version[p]}
  /\ RaiseSync(p)
  /\ UNCHANGED <<offered, dirs, changed, manifests, pointer, version, syncs, restated>>

(* A dataset file is changed by something else. *)
ChangeFile(v) ==
  /\ syncFaults < MaxSyncFaults
  /\ syncFaults' = syncFaults + 1
  /\ changed' = changed \cup {v}
  /\ UNCHANGED <<offered, dirs, manifests, pointer, spc, version, synced,
                 syncs, restated, hit>>

Sync(p) ==
  \/ Fetch(p) \/ ReuseVersion(p) \/ MissVersion(p) \/ MakeDir(p) \/ WriteDatasets(p)
  \/ WriteManifest(p) \/ WritePointer(p) \/ DieSyncing(p)

SyncNext ==
  \/ Restate
  \/ \E p \in Syncers : Sync(p)
  \/ \E v \in DOMAIN manifests : ChangeFile(v)

-----------------------------------------------------------------------------
(* What a caller can rely on in a valid snapshot, said without the rules: its date   *)
(* was a trading day, its bars end on it and leave no trading day before it out, no   *)
(* bar tells anything wrong, every bar has one positive factor, and 19 of 20 members *)
(* of the universe have a bar, a status and price limits of that day.  It cannot rely *)
(* on prices or volumes: a bar whose values are missing is a bar.                     *)
Complete(d, t) ==
  /\ t \in OpenDates(d)
  /\ \A x \in OpenDates(d) : x <= t <=> \E r \in d.bars : r.date = x
  /\ \A r \in d.bars : {r.prices, r.activity} \cap {"wrong", "text"} = {} /\ r.date <= t
  /\ \A r \in d.bars :
       /\ Cardinality({f \in d.factors : Key(f) = Key(r)}) = 1
       /\ Cardinality({x \in d.bars : Key(x) = Key(r)}) = 1
  /\ \A f \in d.factors : f.factor > 0
  /\ Active(d, t) # {}
  /\ \A rows \in {d.bars, d.status, d.limits} :
       20 * Cardinality(Active(d, t) \ On(rows, t)) <= Cardinality(Active(d, t))

CompleteVersions == {v \in Versions : Complete(Content[v[2]], v[1])}

(* Only a complete snapshot is called valid, and only a valid one is pointed at. *)
ValidSnapshotsAreComplete ==
  /\ \A v \in DOMAIN manifests : manifests[v].valid => v \in CompleteVersions
  /\ \A t \in Dates : pointer[t] # None =>
       pointer[t] \in DOMAIN manifests /\ manifests[pointer[t]].valid /\ pointer[t][1] = t

(* A version can always be synchronized again, with its first verdict: its directory *)
(* has its manifest or a process that is about to write it.  The exceptions block the *)
(* version for good: a process that died between the directory and the manifest, and  *)
(* a payload whose rules raise.                                                       *)
StuckOnlyByFault ==
  \A v \in dirs :
    \/ v \in DOMAIN manifests
    \/ \E p \in Syncers : version[p] = v /\ spc[p] \in {"made", "judged"}
    \/ v \in hit
    \/ v[2] \in RaisingPayloads

(* A payload that breaks a critical rule leaves a snapshot marked invalid: when every *)
(* command has ended and none failed, what was written for it has a manifest that     *)
(* says so (openspec trusted-market-data, "Critical dataset is invalid").             *)
InvalidIsMarked ==
  ((\A p \in Syncers : spc[p] = "idle") /\ hit = {}) =>
    \A v \in dirs \ ValidVersions : v \in DOMAIN manifests /\ ~manifests[v].valid

(* A version that is on file is there for good and never judged again. *)
VersionsStay ==
  /\ dirs \subseteq dirs'
  /\ \A v \in DOMAIN manifests : v \in DOMAIN manifests' /\ manifests'[v] = manifests[v]
  /\ \A t \in Dates : pointer[t] # None => pointer'[t] # None

(* What a command returns is valid, and a version that was there before is as it was *)
(* when it was judged.                                                                *)
SyncedIntact ==
  \A p \in Syncers :
    (synced'[p] # synced[p] /\ synced'[p] # None) =>
      /\ synced'[p] = version[p]
      /\ manifests'[synced'[p]].valid
      /\ spc[p] = "fetched" => synced'[p] \notin changed
=============================================================================
