---------------------------- MODULE DataPublication ----------------------------
(***************************************************************************)
(* The two kinds of data directories together: versions of the canonical    *)
(* datasets, made in place, and directories published by renaming.  They    *)
(* share no file, so interleaving them tells nothing new: a behaviour takes  *)
(* the steps of one of them.                                                *)
(***************************************************************************)
EXTENDS SnapshotStore, PitPublication

vars == <<syncVars, pitVars>>

Init == SyncInit /\ PitInit

Next ==
  \/ jobs = 0 /\ SyncNext /\ UNCHANGED pitVars
  \/ /\ syncs = 0 /\ restated = 0 /\ offered = (CHOOSE d \in Restatements : TRUE)
     /\ PitNext /\ UNCHANGED syncVars

Spec == Init /\ [][Next]_vars

-----------------------------------------------------------------------------
TypeOK ==
  /\ offered \in Payloads
  /\ {dirs, hit} \subseteq SUBSET (Dates \X Payloads)
  /\ DOMAIN manifests \subseteq dirs /\ changed \subseteq DOMAIN manifests
  /\ \A v \in DOMAIN manifests : manifests[v] \in [valid: BOOLEAN, by: Syncers]
  /\ \A t \in Dates : pointer[t] \in DOMAIN manifests \cup {None}
  /\ \A p \in Syncers :
       /\ spc[p] \in {"idle", "fetched", "missed", "made", "judged", "recorded"}
       /\ version[p] \in (Dates \X Payloads) \cup {None}
       /\ synced[p] \in DOMAIN manifests \cup {None}
       /\ spc[p] \in {"made", "judged"} => version[p] \in dirs \ DOMAIN manifests
  /\ syncs \in 0..MaxSyncs /\ restated \in 0..MaxRestated /\ syncFaults \in 0..MaxSyncFaults
  /\ \A k \in DOMAIN published : published[k].by \in Workers
  /\ \A w \in Workers :
       /\ wpc[w] \in {"idle", "verified", "named", "built"}
       /\ answer[w] \in DOMAIN published \cup {None}
       /\ wpc[w] # "idle" => name[w].kind \in {"snapshot", "research", "shadow"}
  /\ jobs \in 0..MaxJobs /\ pitFaults \in 0..MaxPitFaults

(* What was published is never replaced, judged again or lost: several processes may *)
(* make the same version or directory at once (exist_ok=False, rename).              *)
PublishedStays == [][VersionsStay /\ DirectoriesStay]_vars

(* A command never returns a directory some file of which was changed: the checksums *)
(* are verified whenever one is used again.                                          *)
AnswersAreIntact == [][SyncedIntact /\ AnswersIntact]_vars
=============================================================================
