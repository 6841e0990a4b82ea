----------------------- MODULE DataPublication_proofs -----------------------
(***************************************************************************)
(* Machine-checked proofs about DataPublication: the versions of the        *)
(* canonical datasets and the directories published by renaming, for any    *)
(* payloads, feeds, processes, restatements and faults.                     *)
(***************************************************************************)
EXTENDS DataPublication, SnapshotResearch_proofs

-----------------------------------------------------------------------------
(* The versions and the processes that make them. *)

SyncPlaces == {"idle", "fetched", "missed", "made", "judged", "recorded"}

SyncTyped ==
  /\ offered \in Payloads
  /\ dirs \subseteq Versions /\ hit \subseteq Versions
  /\ DOMAIN manifests \subseteq dirs /\ changed \subseteq DOMAIN manifests
  /\ \A v \in DOMAIN manifests : manifests[v] \in [valid: BOOLEAN, by: Syncers]
  /\ pointer \in [Dates -> DOMAIN manifests \cup {None}]
  /\ spc \in [Syncers -> SyncPlaces]
  /\ version \in [Syncers -> Versions \cup {None}]
  /\ synced \in [Syncers -> DOMAIN manifests \cup {None}]
  /\ syncs \in 0..MaxSyncs /\ restated \in 0..MaxRestated /\ syncFaults \in 0..MaxSyncFaults

Making(p) == spc[p] \in {"made", "judged"}

(* Who fills a directory made it, alone: mkdir fails for everybody else. *)
MakersAlone ==
  \A p \in Syncers : Making(p) =>
    /\ version[p] \in dirs /\ version[p] \notin DOMAIN manifests
    /\ \A q \in Syncers : Making(q) /\ version[q] = version[p] => q = p

(* A command knows its version, and points at it only when it is valid. *)
VersionKnown ==
  \A p \in Syncers :
    /\ spc[p] # "idle" => version[p] \in Versions
    /\ spc[p] = "recorded" => version[p] \in DOMAIN manifests /\ manifests[version[p]].valid

(* The verdicts on file are those of the rules. *)
VerdictsTrue ==
  /\ \A v \in DOMAIN manifests : manifests[v].valid <=> v \in ValidVersions
  /\ \A t \in Dates : pointer[t] # None => manifests[pointer[t]].valid /\ pointer[t][1] = t

SyncInv == SyncTyped /\ MakersAlone /\ VersionKnown /\ VerdictsTrue /\ StuckOnlyByFault

LEMMA Membership == ASSUME NEW x, NEW S PROVE (x \in S) \in BOOLEAN
OBVIOUS

LEMMA SyncInvInit == SyncInit => SyncInv
BY SnapshotAssumption
   DEF SyncInit, SyncInv, SyncTyped, SyncPlaces, MakersAlone, Making, VersionKnown, VerdictsTrue,
       StuckOnlyByFault

LEMMA FetchKeeps ==
  ASSUME SyncInv, NEW p \in Syncers, Fetch(p)
  PROVE  SyncInv'
<1> USE DEF Fetch, Goto, Return, RaiseSync
<1>1. SyncTyped'
  BY SnapshotAssumption DEF SyncInv, SyncTyped, SyncPlaces, VersionKnown, Versions
<1>2. MakersAlone'
  BY SnapshotAssumption DEF SyncInv, SyncTyped, SyncPlaces, MakersAlone, Making, VersionKnown
<1>3. VersionKnown'
  BY SnapshotAssumption DEF SyncInv, SyncTyped, SyncPlaces, VersionKnown, Versions
<1>4. VerdictsTrue'
  BY SnapshotAssumption DEF SyncInv, SyncTyped, VersionKnown, VerdictsTrue, Versions
<1>5. StuckOnlyByFault'
  BY SnapshotAssumption DEF SyncInv, SyncTyped, SyncPlaces, VersionKnown, StuckOnlyByFault
<1>6. QED  BY <1>1, <1>2, <1>3, <1>4, <1>5 DEF SyncInv

LEMMA ReuseVersionKeeps ==
  ASSUME SyncInv, NEW p \in Syncers, ReuseVersion(p)
  PROVE  SyncInv'
<1> USE DEF ReuseVersion, Goto, Return, RaiseSync
<1>1. SyncTyped'
  BY SnapshotAssumption DEF SyncInv, SyncTyped, SyncPlaces, VersionKnown, Versions
<1>2. MakersAlone'
  BY SnapshotAssumption DEF SyncInv, SyncTyped, SyncPlaces, MakersAlone, Making, VersionKnown
<1>3. VersionKnown'
  BY SnapshotAssumption DEF SyncInv, SyncTyped, SyncPlaces, VersionKnown, Versions
<1>4. VerdictsTrue'
  BY SnapshotAssumption DEF SyncInv, SyncTyped, VersionKnown, VerdictsTrue, Versions
<1>5. StuckOnlyByFault'
  BY SnapshotAssumption DEF SyncInv, SyncTyped, SyncPlaces, VersionKnown, StuckOnlyByFault
<1>6. QED  BY <1>1, <1>2, <1>3, <1>4, <1>5 DEF SyncInv

LEMMA MissVersionKeeps ==
  ASSUME SyncInv, NEW p \in Syncers, MissVersion(p)
  PROVE  SyncInv'
<1> USE DEF MissVersion, Goto, Return, RaiseSync
<1>1. SyncTyped'
  BY SnapshotAssumption DEF SyncInv, SyncTyped, SyncPlaces, VersionKnown, Versions
<1>2. MakersAlone'
  BY SnapshotAssumption DEF SyncInv, SyncTyped, SyncPlaces, MakersAlone, Making, VersionKnown
<1>3. VersionKnown'
  BY SnapshotAssumption DEF SyncInv, SyncTyped, SyncPlaces, VersionKnown, Versions
<1>4. VerdictsTrue'
  BY SnapshotAssumption DEF SyncInv, SyncTyped, VersionKnown, VerdictsTrue, Versions
<1>5. StuckOnlyByFault'
  BY SnapshotAssumption DEF SyncInv, SyncTyped, SyncPlaces, VersionKnown, StuckOnlyByFault
<1>6. QED  BY <1>1, <1>2, <1>3, <1>4, <1>5 DEF SyncInv

LEMMA MakeDirKeeps ==
  ASSUME SyncInv, NEW p \in Syncers, MakeDir(p)
  PROVE  SyncInv'
<1> USE DEF MakeDir, Goto, Return, RaiseSync
<1>1. SyncTyped'
  BY SnapshotAssumption DEF SyncInv, SyncTyped, SyncPlaces, VersionKnown, Versions
<1>2. MakersAlone'
  BY SnapshotAssumption DEF SyncInv, SyncTyped, SyncPlaces, MakersAlone, Making, VersionKnown
<1>3. VersionKnown'
  BY SnapshotAssumption DEF SyncInv, SyncTyped, SyncPlaces, VersionKnown, Versions
<1>4. VerdictsTrue'
  BY SnapshotAssumption DEF SyncInv, SyncTyped, VersionKnown, VerdictsTrue, Versions
<1>5. StuckOnlyByFault'
  BY SnapshotAssumption DEF SyncInv, SyncTyped, SyncPlaces, VersionKnown, StuckOnlyByFault
<1>6. QED  BY <1>1, <1>2, <1>3, <1>4, <1>5 DEF SyncInv

LEMMA WriteDatasetsKeeps ==
  ASSUME SyncInv, NEW p \in Syncers, WriteDatasets(p)
  PROVE  SyncInv'
<1> USE DEF WriteDatasets, Goto, Return, RaiseSync
<1>1. SyncTyped'
  BY SnapshotAssumption DEF SyncInv, SyncTyped, SyncPlaces, VersionKnown, Versions
<1>2. MakersAlone'
  BY SnapshotAssumption DEF SyncInv, SyncTyped, SyncPlaces, MakersAlone, Making, VersionKnown
<1>3. VersionKnown'
  BY SnapshotAssumption DEF SyncInv, SyncTyped, SyncPlaces, VersionKnown, Versions
<1>4. VerdictsTrue'
  BY SnapshotAssumption DEF SyncInv, SyncTyped, VersionKnown, VerdictsTrue, Versions
<1>5. StuckOnlyByFault'
  BY SnapshotAssumption DEF SyncInv, SyncTyped, SyncPlaces, VersionKnown, StuckOnlyByFault
<1>6. QED  BY <1>1, <1>2, <1>3, <1>4, <1>5 DEF SyncInv

LEMMA WriteManifestKeeps ==
  ASSUME SyncInv, NEW p \in Syncers, WriteManifest(p)
  PROVE  SyncInv'
<1> DEFINE v == version[p]
           manifest == [valid |-> v \in ValidVersions, by |-> p]
<1>1. /\ spc[p] = "judged" /\ v \in dirs /\ v \notin DOMAIN manifests /\ v \in Versions
  BY DEF WriteManifest, SyncInv, VersionKnown, MakersAlone, Making
<1>2. /\ DOMAIN manifests' = DOMAIN manifests \cup {v}
      /\ manifests'[v] = manifest
      /\ \A x \in DOMAIN manifests : manifests'[x] = manifests[x]
  BY <1>1 DEF WriteManifest
<1>3. manifest \in [valid: BOOLEAN, by: Syncers] /\ (manifest.valid <=> v \in ValidVersions)
  <2> DEFINE verdict == (v \in ValidVersions)
  <2>1. verdict \in BOOLEAN /\ (verdict <=> v \in ValidVersions)
    BY Membership
  <2>2. manifest = [valid |-> verdict, by |-> p]
    OBVIOUS
  <2> HIDE DEF verdict, manifest
  <2>3. QED  BY <2>1, <2>2
<1>4. /\ \/ spc' = [spc EXCEPT ![p] = "recorded"] /\ manifest.valid
         \/ spc' = [spc EXCEPT ![p] = "idle"]
      /\ UNCHANGED <<offered, dirs, changed, pointer, version, synced, syncs, restated,
                     syncFaults, hit>>
  BY DEF WriteManifest, Goto, RaiseSync
<1> HIDE DEF manifest
<1>5. SyncTyped'
  BY <1>1, <1>2, <1>3, <1>4 DEF SyncInv, SyncTyped, SyncPlaces
<1>6. MakersAlone'
  BY <1>1, <1>2, <1>4 DEF SyncInv, SyncTyped, MakersAlone, Making
<1>7. VersionKnown'
  BY <1>1, <1>2, <1>4 DEF SyncInv, SyncTyped, VersionKnown
<1>8. VerdictsTrue'
  <2>1. \A x \in DOMAIN manifests' : manifests'[x].valid <=> x \in ValidVersions
    BY <1>2, <1>3 DEF SyncInv, VerdictsTrue
  <2>2. \A t \in Dates : pointer[t] # None => pointer[t] \in DOMAIN manifests
    BY DEF SyncInv, SyncTyped
  <2>3. QED  BY <1>2, <1>4, <2>1, <2>2 DEF SyncInv, VerdictsTrue, ValidVersions, Versions
<1>9. StuckOnlyByFault'
  BY <1>1, <1>2, <1>4 DEF SyncInv, SyncTyped, StuckOnlyByFault, RaisingPayloads
<1>10. QED  BY <1>5, <1>6, <1>7, <1>8, <1>9 DEF SyncInv

LEMMA WritePointerKeeps ==
  ASSUME SyncInv, NEW p \in Syncers, WritePointer(p)
  PROVE  SyncInv'
<1> USE DEF WritePointer, Goto, Return, RaiseSync
<1>1. SyncTyped'
  BY SnapshotAssumption DEF SyncInv, SyncTyped, SyncPlaces, VersionKnown, Versions
<1>2. MakersAlone'
  BY SnapshotAssumption DEF SyncInv, SyncTyped, SyncPlaces, MakersAlone, Making, VersionKnown
<1>3. VersionKnown'
  BY SnapshotAssumption DEF SyncInv, SyncTyped, SyncPlaces, VersionKnown, Versions
<1>4. VerdictsTrue'
  BY SnapshotAssumption DEF SyncInv, SyncTyped, VersionKnown, VerdictsTrue, Versions
<1>5. StuckOnlyByFault'
  BY SnapshotAssumption DEF SyncInv, SyncTyped, SyncPlaces, VersionKnown, StuckOnlyByFault
<1>6. QED  BY <1>1, <1>2, <1>3, <1>4, <1>5 DEF SyncInv

LEMMA DieSyncingKeeps ==
  ASSUME SyncInv, NEW p \in Syncers, DieSyncing(p)
  PROVE  SyncInv'
<1> USE DEF DieSyncing, Goto, Return, RaiseSync
<1>1. SyncTyped'
  BY SnapshotAssumption DEF SyncInv, SyncTyped, SyncPlaces, VersionKnown, Versions
<1>2. MakersAlone'
  BY SnapshotAssumption DEF SyncInv, SyncTyped, SyncPlaces, MakersAlone, Making, VersionKnown
<1>3. VersionKnown'
  BY SnapshotAssumption DEF SyncInv, SyncTyped, SyncPlaces, VersionKnown, Versions
<1>4. VerdictsTrue'
  BY SnapshotAssumption DEF SyncInv, SyncTyped, VersionKnown, VerdictsTrue, Versions
<1>5. StuckOnlyByFault'
  BY SnapshotAssumption DEF SyncInv, SyncTyped, SyncPlaces, VersionKnown, StuckOnlyByFault
<1>6. QED  BY <1>1, <1>2, <1>3, <1>4, <1>5 DEF SyncInv

(* What is left of a step: the provider restates, a file is changed, nothing. *)
LEMMA RestateKeeps ==
  ASSUME SyncInv, Restate
  PROVE  SyncInv'
BY SnapshotAssumption
   DEF Restate, SyncInv, SyncTyped, SyncPlaces, MakersAlone, Making, VersionKnown, VerdictsTrue,
       StuckOnlyByFault

LEMMA ChangeFileKeeps ==
  ASSUME SyncInv, NEW v \in DOMAIN manifests, ChangeFile(v)
  PROVE  SyncInv'
BY SnapshotAssumption
   DEF ChangeFile, SyncInv, SyncTyped, SyncPlaces, MakersAlone, Making, VersionKnown, VerdictsTrue,
       StuckOnlyByFault

LEMMA SyncUnchanged ==
  ASSUME SyncInv, UNCHANGED syncVars
  PROVE  SyncInv'
BY DEF syncVars, SyncInv, SyncTyped, SyncPlaces, MakersAlone, Making, VersionKnown, VerdictsTrue,
       StuckOnlyByFault

LEMMA SyncInvHolds == Spec => []SyncInv
<1>1. Init => SyncInv
  BY SyncInvInit DEF Init
<1>2. SyncInv /\ [Next]_vars => SyncInv'
  <2> SUFFICES ASSUME SyncInv, [Next]_vars PROVE SyncInv'
    OBVIOUS
  <2>1. CASE SyncNext
    BY <2>1, FetchKeeps, ReuseVersionKeeps, MissVersionKeeps, MakeDirKeeps, WriteDatasetsKeeps,
       WriteManifestKeeps, WritePointerKeeps, DieSyncingKeeps, RestateKeeps, ChangeFileKeeps
       DEF SyncNext, Sync
  <2>2. CASE UNCHANGED syncVars
    BY <2>2, SyncUnchanged
  <2>3. QED  BY <2>1, <2>2 DEF Next, vars
<1>3. QED  BY <1>1, <1>2, PTL DEF Spec

(* A version can always be synchronized again unless a command died or failed while *)
(* it made it, or its rules raise: for any processes, restatements and faults.      *)
THEOREM StuckOnlyByFaultHolds == Spec => []StuckOnlyByFault
<1>1. SyncInv => StuckOnlyByFault
  BY DEF SyncInv
<1>2. QED  BY <1>1, SyncInvHolds, PTL

-----------------------------------------------------------------------------
(* What the rules make of a payload. *)

(* The image of a finite set. *)
LEMMA DatesFinite ==
  ASSUME NEW rows, IsFiniteSet(rows)
  PROVE  IsFiniteSet({r.date : r \in rows})
<1> DEFINE T == {r.date : r \in rows}
           f == [r \in rows |-> r.date]
<1>1. f \in Surjection(rows, T)
  BY DEF Surjection
<1>2. QED  BY <1>1, FS_Surjection

(* Rows that are told apart by line, and repeat no key, are told apart by key. *)
LEMMA OncePerKey ==
  ASSUME NEW rows, Lined(rows), ~Repeats(rows), NEW q \in rows, NEW key, key = Key(q)
  PROVE  Cardinality({r \in rows : Key(r) = key}) = 1
<1>1. {r \in rows : Key(r) = key} = {q}
  BY DEF Lined, Repeats
<1>2. QED  BY <1>1, FS_Singleton

(* Nineteen of twenty. *)
LEMMA CoveredMostly ==
  ASSUME NEW symbols, NEW active, IsFiniteSet(active), Covers(symbols, active)
  PROVE  /\ 20 * Cardinality(active \ symbols) <= Cardinality(active)
         /\ symbols \cap active # {}
<1> DEFINE n == Cardinality(active)
           m == Cardinality(active \cap symbols)
           k == Cardinality(active \ symbols)
<1>1. n \in Nat /\ m \in Nat /\ k = n - m /\ n # 0
  <2>1. IsFiniteSet(active \cap symbols) /\ k = n - m
    BY FS_Difference, FS_Intersection
  <2>2. n \in Nat /\ m \in Nat /\ n # 0
    BY <2>1, FS_CardinalityType, FS_EmptySet DEF Covers
  <2>3. QED  BY <2>1, <2>2
<1>2. symbols \cap active = active \cap symbols
  OBVIOUS
<1>3. 100 * m >= 95 * n
  BY <1>2 DEF Covers
<1>4. 20 * k <= n /\ m # 0
  <2> HIDE DEF n, m, k
  <2>1. QED  BY <1>1, <1>3
<1>5. symbols \cap active # {}
  BY <1>2, <1>4, FS_EmptySet
<1>6. QED  BY <1>4, <1>5

LEMMA ValidIsComplete ==
  ASSUME NEW v \in Versions, v \in ValidVersions
  PROVE  v \in CompleteVersions
<1> DEFINE d == Content[v[2]]
           t == v[1]
<1>1. Valid(d, t) /\ Canonical(d) /\ t \in Nat
  BY SnapshotAssumption DEF ValidVersions, Versions
<1> HIDE DEF d, t
<1>2. IsFiniteSet(Active(d, t))
  <2> DEFINE rows == {x \in d.membership : x.from <= t /\ (x.to = None \/ t <= x.to)}
             f == [m \in rows |-> m.symbol]
  <2>1. IsFiniteSet(rows)
    BY <1>1, FS_Subset DEF Canonical
  <2>2. f \in Surjection(rows, Active(d, t))
    BY DEF Surjection, Active
  <2>3. QED  BY <2>1, <2>2, FS_Surjection
<1>3. \A rows \in {d.bars, d.status, d.limits} :
        20 * Cardinality(Active(d, t) \ On(rows, t)) <= Cardinality(Active(d, t))
  BY <1>1, <1>2, CoveredMostly DEF Valid
<1>4. PICK r \in d.bars : r.date = t
  <2>1. On(d.bars, t) # {}
    <3>1. Covers(On(d.bars, t), Active(d, t))
      BY <1>1 DEF Valid
    <3>2. QED  BY <1>2, <3>1, CoveredMostly
  <2>2. QED  BY <2>1 DEF On
<1>5. t \in OpenDates(d)
  BY <1>1, <1>4 DEF Valid, BarsOnOpenDates, BarDates
<1>6. \A q \in d.bars : q.date <= t
  <2>1. BarDates(d) # {} /\ BarDates(d) \in SUBSET Nat /\ IsFiniteSet(BarDates(d))
    BY <1>1, <1>4, DatesFinite DEF BarDates, Canonical, Lined
  <2>2. Max(BarDates(d)) = Max(EligibleDates(d, t)) /\ EligibleDates(d, t) # {}
    BY <1>1, <2>1 DEF Valid, Fresh
  <2>3. EligibleDates(d, t) \in SUBSET Nat
    BY <1>1 DEF EligibleDates, OpenDates, Canonical
  <2>4. IsFiniteSet(EligibleDates(d, t))
    BY <1>1, <2>3, FS_BoundedSetOfNaturals DEF EligibleDates
  <2>5. Max(EligibleDates(d, t)) <= t
    BY <2>2, <2>3, <2>4, LastIs DEF EligibleDates
  <2>6. \A x \in BarDates(d) : x <= Max(BarDates(d))
    BY <2>1, LastIs
  <2>7. QED  BY <1>1, <2>1, <2>2, <2>3, <2>4, <2>5, <2>6, LastIs DEF BarDates
<1>7. \A x \in OpenDates(d) : x <= t <=> \E q \in d.bars : q.date = x
  BY <1>1, <1>6 DEF Valid, NoDayMissing, EligibleDates, BarDates
<1>8. \A q \in d.bars :
        /\ Cardinality({f \in d.factors : Key(f) = Key(q)}) = 1
        /\ Cardinality({x \in d.bars : Key(x) = Key(q)}) = 1
  <2> TAKE q \in d.bars
  <2>1. PICK f \in d.factors : Key(f) = Key(q)
    BY <1>1 DEF Valid, FactorsValid
  <2>2. QED  BY <1>1, <2>1, OncePerKey DEF Valid, FactorsValid, BarsValid, Canonical
<1>9. /\ \A q \in d.bars : {q.prices, q.activity} \cap {"wrong", "text"} = {}
      /\ \A f \in d.factors : f.factor > 0
      /\ Active(d, t) # {}
  BY <1>1 DEF Valid, BarsValid, FactorsValid, Covers
<1>10. Complete(d, t)
  BY <1>3, <1>5, <1>6, <1>7, <1>8, <1>9 DEF Complete
<1>11. QED  BY <1>10 DEF CompleteVersions, d, t

(* Only a complete snapshot is called valid, and only a valid one of the date is *)
(* pointed at: for any payload a provider may return.                            *)
THEOREM ValidSnapshotsAreCompleteHolds == Spec => []ValidSnapshotsAreComplete
<1>1. SyncInv => ValidSnapshotsAreComplete
  BY ValidIsComplete DEF SyncInv, SyncTyped, VerdictsTrue, ValidSnapshotsAreComplete
<1>2. QED  BY <1>1, SyncInvHolds, PTL

-----------------------------------------------------------------------------
(* The directories published by renaming. *)

WorkPlaces == {"idle", "verified", "named", "built"}
Kinds == {"snapshot", "research", "shadow"}

PitInv ==
  /\ \A k \in DOMAIN published :
       /\ published[k] = [body |-> published[k].body, by |-> published[k].by]
       /\ published[k].by \in Workers
       /\ k.kind \in Kinds
  /\ wpc \in [Workers -> WorkPlaces]
  /\ name = [w \in Workers |-> name[w]]
  /\ answer \in [Workers -> DOMAIN published \cup {None}]
  /\ \A w \in Workers : wpc[w] # "idle" => name[w].kind \in Kinds
  /\ jobs \in 0..MaxJobs /\ pitFaults \in 0..MaxPitFaults

LEMMA NamesHaveKinds ==
  /\ \A rows, asOf : SnapshotName(rows, asOf).kind = "snapshot"
  /\ \A snapshot, result : ResearchName(snapshot, result).kind = "research"
  /\ \A capture : ShadowName(capture).kind = "shadow"
BY DEF SnapshotName, ResearchName, ShadowName

(* A command that starts files nothing. *)
LEMMA StartKeeps ==
  ASSUME PitInv, NEW w \in Workers, NEW place \in WorkPlaces, NEW k, Starts(w, place, k),
         place # "idle" => k.kind \in Kinds
  PROVE  PitInv' /\ published' = published /\ pitFaults' = pitFaults
<1>1. published' = published /\ pitFaults' = pitFaults
  BY DEF Starts
<1>2. jobs' \in 0..MaxJobs
  BY PitAssumption DEF Starts, PitInv
<1>3. /\ wpc' \in [Workers -> WorkPlaces]
      /\ name' = [v \in Workers |-> name'[v]]
      /\ answer' \in [Workers -> DOMAIN published \cup {None}]
      /\ \A v \in Workers : wpc'[v] # "idle" => name'[v].kind \in Kinds
  BY DEF Starts, PitInv
<1>4. QED  BY <1>1, <1>2, <1>3 DEF PitInv

LEMMA WorkKeeps ==
  ASSUME PitInv, NEW w \in Workers, Work(w)
  PROVE  /\ PitInv'
         /\ pitFaults' = pitFaults
         /\ \A k \in DOMAIN published : k \in DOMAIN published' /\ published'[k] = published[k]
<1>1. CASE BeginSnapshot(w)
  <2>1. PICK rows \in Feeds, asOf \in AsOfs :
          \/ Starts(w, "idle", None)
          \/ Starts(w, "named", SnapshotName(rows, asOf))
    BY <1>1 DEF BeginSnapshot
  <2>2. QED  BY <2>1, StartKeeps, NamesHaveKinds DEF WorkPlaces, Kinds
<1>2. CASE BeginShadow(w)
  <2>1. PICK c \in Captures : Starts(w, "idle", None) \/ Starts(w, "named", ShadowName(c))
    BY <1>2 DEF BeginShadow
  <2>2. QED  BY <2>1, StartKeeps, NamesHaveKinds DEF WorkPlaces, Kinds
<1>3. CASE BeginResearch(w)
  <2>1. PICK k \in DOMAIN published :
          k.kind = "snapshot" /\ (Starts(w, "idle", None) \/ Starts(w, "verified", k))
    BY <1>3 DEF BeginResearch
  <2>2. QED  BY <2>1, StartKeeps DEF WorkPlaces, Kinds
<1>4. CASE ReadBars(w)
  <2>1. UNCHANGED <<published, answer, jobs, pitFaults>>
    BY <1>4 DEF ReadBars, Raises
  <2>2. \/ Raises(w)
        \/ \E k : /\ k.kind \in Kinds /\ name' = [name EXCEPT ![w] = k]
                  /\ wpc' = [wpc EXCEPT ![w] = "named"]
    BY <1>4, NamesHaveKinds DEF ReadBars, Kinds
  <2>3. QED  BY <2>1, <2>2 DEF Raises, PitInv, WorkPlaces
<1>5. CASE ReuseDirectory(w)
  BY <1>5 DEF ReuseDirectory, Returns, Raises, PitInv, WorkPlaces
<1>6. CASE BuildDirectory(w)
  BY <1>6 DEF BuildDirectory, PitInv, WorkPlaces
<1>7. CASE Rename(w)
  <2>1. CASE Raises(w) /\ UNCHANGED published
    BY <1>7, <2>1 DEF Rename, Raises, PitInv, WorkPlaces
  <2>2. CASE ~(Raises(w) /\ UNCHANGED published)
    <3>1. /\ wpc[w] = "built" /\ name[w] \notin DOMAIN published /\ Returns(w)
          /\ published' = Filed(w) /\ UNCHANGED <<jobs, pitFaults>>
      BY <1>7, <2>2 DEF Rename
    <3>2. /\ DOMAIN published' = DOMAIN published \cup {name[w]}
          /\ published'[name[w]] = [body |-> Body(name[w]), by |-> w]
          /\ \A k \in DOMAIN published : published'[k] = published[k]
      BY <3>1 DEF Filed
    <3>3. name[w].kind \in Kinds
      BY <3>1 DEF PitInv
    <3>4. PitInv'
      <4>1. \A k \in DOMAIN published' :
              /\ published'[k] = [body |-> published'[k].body, by |-> published'[k].by]
              /\ published'[k].by \in Workers
              /\ k.kind \in Kinds
        BY <3>2, <3>3 DEF PitInv
      <4>2. QED  BY <3>1, <3>2, <4>1 DEF Returns, PitInv, WorkPlaces
    <3>5. QED  BY <3>1, <3>2, <3>4
  <2>3. QED  BY <2>1, <2>2
<1>8. CASE DieWorking(w)
  BY <1>8 DEF DieWorking, Raises, PitInv, WorkPlaces
<1>9. QED  BY <1>1, <1>2, <1>3, <1>4, <1>5, <1>6, <1>7, <1>8 DEF Work

LEMMA SpoilKeeps ==
  ASSUME PitInv, NEW d \in DOMAIN published, Spoil(d)
  PROVE  /\ PitInv'
         /\ pitFaults' # pitFaults
         /\ \A k \in DOMAIN published : k \in DOMAIN published' /\ published'[k].by = published[k].by
<1>1. /\ DOMAIN published' = DOMAIN published
      /\ \A k \in DOMAIN published :
           /\ k # d => published'[k] = published[k]
           /\ k = d => published'[k] = [body |-> Spoiled(d), by |-> published[d].by]
  BY DEF Spoil, PitInv
<1>2. /\ pitFaults < MaxPitFaults /\ pitFaults' = pitFaults + 1
      /\ UNCHANGED <<wpc, name, answer, jobs>>
  BY DEF Spoil
<1>3. PitInv'
  BY <1>1, <1>2, PitAssumption DEF PitInv
<1>4. pitFaults' # pitFaults
  BY <1>2 DEF PitInv
<1>5. QED  BY <1>1, <1>3, <1>4

LEMMA PitInvHolds == Spec => []PitInv
<1>1. Init => PitInv
  BY PitAssumption DEF Init, PitInit, PitInv, WorkPlaces
<1>2. PitInv /\ [Next]_vars => PitInv'
  <2> SUFFICES ASSUME PitInv, [Next]_vars PROVE PitInv'
    OBVIOUS
  <2>1. CASE PitNext
    BY <2>1, WorkKeeps, SpoilKeeps DEF PitNext
  <2>2. CASE UNCHANGED pitVars
    BY <2>2 DEF pitVars, PitInv
  <2>3. QED  BY <2>1, <2>2 DEF Next, vars
<1>3. QED  BY <1>1, <1>2, PTL DEF Spec

(* Type correctness of both kinds of directories and of the processes. *)
THEOREM DataTypeCorrect == Spec => []TypeOK
<1>1. SyncInv /\ PitInv => TypeOK
  BY DEF SyncInv, SyncTyped, SyncPlaces, MakersAlone, Making, Versions, PitInv, WorkPlaces, Kinds,
         TypeOK
<1>2. QED  BY <1>1, SyncInvHolds, PitInvHolds, PTL

(* A version on file stays there with its verdict. *)
LEMMA SyncStays ==
  ASSUME SyncInv, SyncNext
  PROVE  VersionsStay
<1>1. CASE Restate
  BY <1>1 DEF Restate, VersionsStay
<1>2. ASSUME NEW v \in DOMAIN manifests, ChangeFile(v)
      PROVE  VersionsStay
  BY <1>2 DEF ChangeFile, VersionsStay
<1>3. ASSUME NEW p \in Syncers, WriteManifest(p)
      PROVE  VersionsStay
  <2>1. version[p] \notin DOMAIN manifests
    BY <1>3 DEF WriteManifest, SyncInv, MakersAlone, Making
  <2>2. QED  BY <1>3, <2>1 DEF WriteManifest, VersionsStay
<1>4. ASSUME NEW p \in Syncers, WritePointer(p)
      PROVE  VersionsStay
  <2>1. version[p] \in Versions
    BY <1>4 DEF WritePointer, SyncInv, VersionKnown
  <2>2. version[p] # None
    BY <2>1, SnapshotAssumption DEF Versions
  <2>3. QED  BY <1>4, <2>2 DEF WritePointer, VersionsStay, SyncInv, SyncTyped
<1>5. ASSUME NEW p \in Syncers, Sync(p), ~WriteManifest(p), ~WritePointer(p)
      PROVE  VersionsStay
  BY <1>5 DEF Sync, Fetch, ReuseVersion, MissVersion, MakeDir, WriteDatasets, DieSyncing,
              VersionsStay
<1>6. QED  BY <1>1, <1>2, <1>3, <1>4, <1>5 DEF SyncNext

LEMMA VersionsStayUnchanged == UNCHANGED syncVars => VersionsStay
BY DEF syncVars, VersionsStay

LEMMA DirectoriesStayUnchanged == UNCHANGED pitVars => DirectoriesStay
BY DEF pitVars, DirectoriesStay

(* What was published is never replaced, judged again or lost, however many processes *)
(* make the same version or directory at once, and whoever dies where.                *)
THEOREM PublishedStaysHolds == Spec => PublishedStays
<1>1. SyncInv /\ PitInv /\ [Next]_vars => [VersionsStay /\ DirectoriesStay]_vars
  <2> SUFFICES ASSUME SyncInv, PitInv, Next
               PROVE  VersionsStay /\ DirectoriesStay
    OBVIOUS
  <2>1. CASE SyncNext /\ UNCHANGED pitVars
    BY <2>1, SyncStays, DirectoriesStayUnchanged
  <2>2. CASE PitNext /\ UNCHANGED syncVars
    <3>1. DirectoriesStay
      BY <2>2, WorkKeeps, SpoilKeeps DEF PitNext, DirectoriesStay
    <3>2. QED  BY <2>2, <3>1, VersionsStayUnchanged
  <2>3. QED  BY <2>1, <2>2 DEF Next
<1>2. QED  BY <1>1, SyncInvHolds, PitInvHolds, PTL DEF Spec, PublishedStays

LEMMA SyncAnswers ==
  ASSUME SyncInv, SyncNext
  PROVE  SyncedIntact
<1>1. ASSUME NEW p \in Syncers, synced'[p] # synced[p], synced'[p] # None
      PROVE  (ReuseVersion(p) /\ Usable(version[p])) \/ WritePointer(p)
  <2>1. PICK q \in Syncers : Sync(q)
    BY <1>1 DEF SyncNext, Restate, ChangeFile
  <2>2. q = p
    BY <1>1, <2>1 DEF SyncInv, SyncTyped, Sync, Fetch, ReuseVersion, MissVersion, MakeDir,
       WriteDatasets, WriteManifest, WritePointer, DieSyncing, Return, RaiseSync
  <2>3. QED
    BY <1>1, <2>1, <2>2 DEF SyncInv, SyncTyped, Sync, Fetch, ReuseVersion, MissVersion, MakeDir,
       WriteDatasets, WriteManifest, WritePointer, DieSyncing, Return, RaiseSync
<1>2. ASSUME NEW p \in Syncers, ReuseVersion(p), Usable(version[p])
      PROVE  /\ synced'[p] = version[p] /\ version[p] \notin changed
             /\ manifests'[version[p]].valid
  BY <1>2 DEF ReuseVersion, Usable, Return, SyncInv, SyncTyped
<1>3. ASSUME NEW p \in Syncers, WritePointer(p)
      PROVE  /\ synced'[p] = version[p] /\ spc[p] # "fetched"
             /\ manifests'[version[p]].valid
  BY <1>3 DEF WritePointer, Return, SyncInv, SyncTyped, VersionKnown
<1>4. QED  BY <1>1, <1>2, <1>3 DEF SyncedIntact

LEMMA PitAnswers ==
  ASSUME PitInv, PitNext
  PROVE  AnswersIntact
<1>1. ASSUME NEW w \in Workers, answer'[w] # answer[w], answer'[w] # None
      PROVE  /\ answer'[w] = name[w]
             /\ (ReuseDirectory(w) /\ Intact(name[w])) \/ (Rename(w) /\ published' = Filed(w))
  <2>1. PICK v \in Workers : Work(v)
    BY <1>1 DEF PitNext, Spoil
  <2>2. v = w
    BY <1>1, <2>1 DEF PitInv, Work, BeginSnapshot, BeginShadow, BeginResearch, Starts, ReadBars,
       ReuseDirectory, BuildDirectory, Rename, DieWorking, Returns, Raises
  <2>3. QED
    BY <1>1, <2>1, <2>2 DEF PitInv, Work, BeginSnapshot, BeginShadow, BeginResearch, Starts,
       ReadBars, ReuseDirectory, BuildDirectory, Rename, DieWorking, Returns, Raises
<1>2. ASSUME NEW w \in Workers, ReuseDirectory(w), Intact(name[w])
      PROVE  name[w] \in DOMAIN published' /\ published'[name[w]].body = Body(name[w])
  BY <1>2 DEF ReuseDirectory, Intact, SnapshotIntact, ResearchIntact, ShadowIntact, Body
<1>3. ASSUME NEW w \in Workers, published' = Filed(w)
      PROVE  name[w] \in DOMAIN published' /\ published'[name[w]].body = Body(name[w])
  BY <1>3 DEF Filed
<1>4. QED  BY <1>1, <1>2, <1>3 DEF AnswersIntact

(* No command returns a version that is not valid, or a directory that does not hold *)
(* what its name says, whatever was changed before.                                  *)
THEOREM AnswersAreIntactHolds == Spec => AnswersAreIntact
<1>1. SyncInv /\ PitInv /\ [Next]_vars => [SyncedIntact /\ AnswersIntact]_vars
  <2> SUFFICES ASSUME SyncInv, PitInv, Next
               PROVE  SyncedIntact /\ AnswersIntact
    OBVIOUS
  <2>1. CASE SyncNext /\ UNCHANGED pitVars
    BY <2>1, SyncAnswers DEF pitVars, AnswersIntact
  <2>2. CASE PitNext /\ UNCHANGED syncVars
    BY <2>2, PitAnswers DEF syncVars, SyncedIntact
  <2>3. QED  BY <2>1, <2>2 DEF Next
<1>2. QED  BY <1>1, SyncInvHolds, PitInvHolds, PTL DEF Spec, AnswersAreIntact

-----------------------------------------------------------------------------
(* What backtests are made of. *)

LEMMA BarsAreCharted ==
  /\ \A rows \in Bars : Charted(rows)
  /\ \A rows \in VisibleBars : Marred(rows) # rows
<1>1. ASSUME NEW rows \in VisibleBars
      PROVE  Charted(rows)
  <2>1. PICK feed \in Feeds, asOf \in AsOfs : rows = Visible(feed, asOf) /\ ~Blocked(feed, asOf)
    BY DEF VisibleBars
  <2>2. feed \subseteq DailyBar /\ Lined(feed) /\ rows \subseteq feed /\ ~Repeats(rows)
    BY <2>1, PitAssumption DEF Visible, Blocked
  <2>3. IsFiniteSet(rows)
    BY <2>2, FS_Subset DEF Lined
  <2>4. QED  BY <2>2, <2>3 DEF Charted, Lined, Repeats
<1>2. ASSUME NEW rows \in VisibleBars
      PROVE  Charted(Marred(rows))
  <2> DEFINE mar(r) == [r EXCEPT !.close = r.close + r.symbol]
             f == [r \in rows |-> mar(r)]
  <2>1. Charted(rows)
    BY <1>1
  <2>2. Marred(rows) = {mar(r) : r \in rows}
    BY DEF Marred
  <2>3. \A r \in rows : mar(r) \in DailyBar /\ Key(mar(r)) = Key(r)
    BY <2>1 DEF Charted, DailyBar, Key
  <2> HIDE DEF mar
  <2>4. f \in Surjection(rows, Marred(rows))
    BY <2>2 DEF Surjection
  <2>5. IsFiniteSet(Marred(rows))
    BY <2>1, <2>4, FS_Surjection DEF Charted
  <2>6. QED  BY <2>1, <2>2, <2>3, <2>5 DEF Charted
<1>3. QED  BY <1>1, <1>2, ChangeAssumption DEF Bars

SnapshotMade(k) ==
  \E rows \in Feeds, asOf \in AsOfs : ~Blocked(rows, asOf) /\ k = SnapshotName(rows, asOf)

(* The backtest of a snapshot, unless its directory was changed. *)
ResearchMade(k, held) ==
  /\ k.kind = "research"
  /\ k.snapshot \in DOMAIN held /\ SnapshotMade(k.snapshot)
  /\ \E rows \in DOMAIN Backtest : k.result = Backtest[rows]
  /\ held[k.snapshot].body = k.snapshot.rows => k.result = Backtest[k.snapshot.rows]

Made(k, held) == SnapshotMade(k) \/ ResearchMade(k, held) \/ k.kind = "shadow"

MadeInv ==
  /\ \A k \in DOMAIN published : Made(k, published)
  /\ \A k \in DOMAIN published :
       k.kind = "snapshot" => published[k].body \in {k.rows, Marred(k.rows)}
  /\ \A w \in Workers :
       /\ wpc[w] = "verified" => name[w] \in DOMAIN published /\ SnapshotMade(name[w])
       /\ wpc[w] \in {"named", "built"} => Made(name[w], published)

LEMMA SnapshotsAre ==
  ASSUME NEW k, SnapshotMade(k)
  PROVE  /\ k.kind = "snapshot" /\ k.rows \in VisibleBars /\ k.asOf \in AsOfs
         /\ Marred(k.rows) # k.rows
<1>1. PICK rows \in Feeds, asOf \in AsOfs : ~Blocked(rows, asOf) /\ k = SnapshotName(rows, asOf)
  BY DEF SnapshotMade
<1>2. k.kind = "snapshot" /\ k.rows = Visible(rows, asOf) /\ k.asOf = asOf
  BY <1>1 DEF SnapshotName
<1>3. Visible(rows, asOf) \in VisibleBars
  <2>1. <<rows, asOf>> \in {y \in Feeds \X AsOfs : ~Blocked(y[1], y[2])}
    BY <1>1
  <2>2. QED  BY <2>1 DEF VisibleBars
<1>4. QED  BY <1>2, <1>3, BarsAreCharted

(* What was made stays so: a directory is added, or changed to what is not its own. *)
LEMMA MadeStays ==
  ASSUME NEW held, NEW now,
         \A k \in DOMAIN held : k \in DOMAIN now,
         \A k \in DOMAIN held : SnapshotMade(k) =>
           now[k].body = held[k].body \/ now[k].body = Marred(k.rows)
  PROVE  \A k : Made(k, held) => Made(k, now)
<1>1. ASSUME NEW k, ResearchMade(k, held) PROVE ResearchMade(k, now)
  <2>1. Marred(k.snapshot.rows) # k.snapshot.rows
    BY <1>1, SnapshotsAre DEF ResearchMade
  <2>2. QED  BY <1>1, <2>1 DEF ResearchMade
<1>2. QED  BY <1>1 DEF Made

(* A step of one command, which keeps what is made. *)
LEMMA CommandMade ==
  ASSUME PitInv, MadeInv, NEW w \in Workers, NEW place, NEW k,
         wpc' = [wpc EXCEPT ![w] = place], name' = [name EXCEPT ![w] = k],
         \A x \in DOMAIN published : x \in DOMAIN published' /\ published'[x] = published[x],
         \A x \in DOMAIN published' \ DOMAIN published :
           Made(x, published') /\ (x.kind = "snapshot" => published'[x].body = x.rows),
         place = "verified" => k \in DOMAIN published /\ SnapshotMade(k),
         place \in {"named", "built"} => Made(k, published)
  PROVE  MadeInv'
<1>1. \A x : Made(x, published) => Made(x, published')
  BY MadeStays
<1>2. /\ \A v \in Workers : v # w => wpc'[v] = wpc[v] /\ name'[v] = name[v]
      /\ wpc'[w] = place /\ name'[w] = k
  BY DEF PitInv
<1>3. \A x \in DOMAIN published' :
        Made(x, published') /\ (x.kind = "snapshot" => published'[x].body \in {x.rows, Marred(x.rows)})
  BY <1>1 DEF MadeInv
<1>4. \A v \in Workers :
        /\ wpc'[v] = "verified" => name'[v] \in DOMAIN published' /\ SnapshotMade(name'[v])
        /\ wpc'[v] \in {"named", "built"} => Made(name'[v], published')
  BY <1>1, <1>2 DEF MadeInv
<1>5. QED  BY <1>3, <1>4 DEF MadeInv

LEMMA KindsApart ==
  ASSUME NEW k, NEW held, Made(k, held), k.kind = "snapshot"
  PROVE  SnapshotMade(k)
BY DEF Made, ResearchMade

(* What is read from a snapshot's directory, and researched, is a set of bars. *)
LEMMA ReadIsMade ==
  ASSUME NEW k, k \in DOMAIN published, SnapshotMade(k),
         published[k].body \in {k.rows, Marred(k.rows)},
         published[k].body \notin UnusableBars[k.asOf]
  PROVE  Made(ResearchName(k, Backtest[published[k].body]), published)
<1> DEFINE rows == published[k].body
           made == ResearchName(k, Backtest[rows])
<1>1. k.rows \in VisibleBars /\ k.asOf \in AsOfs
  BY SnapshotsAre
<1>2. rows \in Bars
  BY <1>1 DEF Bars
<1>3. rows \in DOMAIN Backtest
  <2>1. DOMAIN Backtest = UNION {Bars \ UnusableBars[asOf] : asOf \in AsOfs}
    BY DEF Backtest
  <2> HIDE DEF rows
  <2>2. rows \in Bars \ UnusableBars[k.asOf]
    BY <1>2 DEF rows
  <2>3. QED  BY <1>1, <2>1, <2>2
<1>4. made.kind = "research" /\ made.snapshot = k /\ made.result = Backtest[rows]
  BY DEF ResearchName
<1> HIDE DEF made
<1>5. ResearchMade(made, published)
  BY <1>3, <1>4 DEF ResearchMade
<1>6. QED  BY <1>5 DEF Made, made

LEMMA WorkMade ==
  ASSUME PitInv, MadeInv, NEW w \in Workers, Work(w)
  PROVE  MadeInv'
<1>0. \A x \in DOMAIN published : x \in DOMAIN published' /\ published'[x] = published[x]
  BY WorkKeeps
<1>1. ASSUME NEW place, NEW k, Starts(w, place, k),
             place = "verified" => k \in DOMAIN published /\ SnapshotMade(k),
             place \in {"named", "built"} => Made(k, published)
      PROVE  MadeInv'
  <2>1. wpc' = [wpc EXCEPT ![w] = place] /\ name' = [name EXCEPT ![w] = k] /\ published' = published
    BY <1>1 DEF Starts
  <2>2. QED  BY <1>0, <1>1, <2>1, CommandMade
<1>2. ASSUME Raises(w), published' = published PROVE MadeInv'
  <2>1. wpc' = [wpc EXCEPT ![w] = "idle"] /\ name' = [name EXCEPT ![w] = None]
    BY <1>2 DEF Raises
  <2>2. QED  BY <1>0, <1>2, <2>1, CommandMade
<1>3. ASSUME name' = name PROVE name' = [name EXCEPT ![w] = name[w]]
  BY <1>3 DEF PitInv
<1>4. CASE BeginSnapshot(w)
  <2>1. PICK rows \in Feeds, asOf \in AsOfs :
          \/ Starts(w, "idle", None)
          \/ Starts(w, "named", SnapshotName(rows, asOf)) /\ ~Blocked(rows, asOf)
    BY <1>4 DEF BeginSnapshot
  <2>2. ~Blocked(rows, asOf) => Made(SnapshotName(rows, asOf), published)
    BY DEF Made, SnapshotMade
  <2>3. QED  BY <1>1, <2>1, <2>2
<1>5. CASE BeginShadow(w)
  <2>1. PICK c \in Captures : Starts(w, "idle", None) \/ Starts(w, "named", ShadowName(c))
    BY <1>5 DEF BeginShadow
  <2>2. Made(ShadowName(c), published)
    BY NamesHaveKinds DEF Made
  <2>3. QED  BY <1>1, <2>1, <2>2
<1>6. CASE BeginResearch(w)
  <2>1. PICK k \in DOMAIN published :
          k.kind = "snapshot" /\ (Starts(w, "idle", None) \/ Starts(w, "verified", k))
    BY <1>6 DEF BeginResearch
  <2>2. SnapshotMade(k)
    BY <2>1, KindsApart DEF MadeInv
  <2>3. QED  BY <1>1, <2>1, <2>2
<1>7. CASE ReadBars(w)
  <2>1. /\ name[w] \in DOMAIN published /\ SnapshotMade(name[w])
        /\ published[name[w]].body \in {name[w].rows, Marred(name[w].rows)}
    BY <1>7, SnapshotsAre DEF ReadBars, MadeInv
  <2>2. published' = published
    BY <1>7 DEF ReadBars
  <2>3. CASE published[name[w]].body \in UnusableBars[name[w].asOf]
    BY <1>2, <1>7, <2>2, <2>3 DEF ReadBars
  <2>4. CASE published[name[w]].body \notin UnusableBars[name[w].asOf]
    <3> DEFINE k == ResearchName(name[w], Backtest[published[name[w]].body])
    <3>1. Made(k, published)
      BY <2>1, <2>4, ReadIsMade
    <3>2. name' = [name EXCEPT ![w] = k] /\ wpc' = [wpc EXCEPT ![w] = "named"]
      BY <1>7, <2>4 DEF ReadBars
    <3> HIDE DEF k
    <3>3. QED  BY <1>0, <2>2, <3>1, <3>2, CommandMade
  <2>5. QED  BY <2>3, <2>4
<1>8. CASE ReuseDirectory(w)
  <2>1. published' = published /\ (Returns(w) \/ Raises(w))
    BY <1>8 DEF ReuseDirectory
  <2>2. CASE Returns(w)
    <3>1. wpc' = [wpc EXCEPT ![w] = "idle"] /\ name' = [name EXCEPT ![w] = name[w]]
      BY <1>3, <2>2 DEF Returns
    <3>2. QED  BY <1>0, <2>1, <3>1, CommandMade
  <2>3. QED  BY <1>2, <2>1, <2>2
<1>9. CASE BuildDirectory(w)
  <2>1. /\ wpc' = [wpc EXCEPT ![w] = "built"] /\ name' = [name EXCEPT ![w] = name[w]]
        /\ wpc[w] = "named" /\ published' = published
    BY <1>3, <1>9 DEF BuildDirectory
  <2>2. Made(name[w], published)
    BY <2>1 DEF MadeInv
  <2>3. QED  BY <1>0, <2>1, <2>2, CommandMade
<1>10. CASE Rename(w)
  <2>1. CASE name[w] \in DOMAIN published
    BY <1>2, <1>10, <2>1 DEF Rename
  <2>2. CASE name[w] \notin DOMAIN published
    <3>1. wpc[w] = "built" /\ published' = Filed(w) /\ Returns(w)
      BY <1>10, <2>2 DEF Rename
    <3>2. wpc' = [wpc EXCEPT ![w] = "idle"] /\ name' = [name EXCEPT ![w] = name[w]]
      BY <1>3, <3>1 DEF Returns
    <3>3. Made(name[w], published)
      BY <3>1 DEF MadeInv
    <3>4. Made(name[w], published')
      BY <1>0, <3>3, MadeStays
    <3>5. \A x \in DOMAIN published' \ DOMAIN published :
            Made(x, published') /\ (x.kind = "snapshot" => published'[x].body = x.rows)
      BY <3>1, <3>4 DEF Filed, Body
    <3>6. QED  BY <1>0, <3>2, <3>5, CommandMade
  <2>3. QED  BY <2>1, <2>2
<1>11. CASE DieWorking(w)
  BY <1>2, <1>11 DEF DieWorking
<1>12. QED  BY <1>4, <1>5, <1>6, <1>7, <1>8, <1>9, <1>10, <1>11 DEF Work

LEMMA SpoilMade ==
  ASSUME PitInv, MadeInv, NEW d \in DOMAIN published, Spoil(d)
  PROVE  MadeInv'
<1>1. /\ DOMAIN published' = DOMAIN published
      /\ \A k \in DOMAIN published :
           /\ k # d => published'[k] = published[k]
           /\ k = d => published'[k] = [body |-> Spoiled(d), by |-> published[d].by]
      /\ UNCHANGED <<wpc, name>>
  BY DEF Spoil, PitInv
<1>2. \A k \in DOMAIN published : k.kind = "snapshot" =>
        published'[k].body = published[k].body \/ published'[k].body = Marred(k.rows)
  BY <1>1 DEF Spoiled
<1>3. \A k : Made(k, published) => Made(k, published')
  BY <1>1, <1>2, MadeStays, SnapshotsAre
<1>4. QED  BY <1>1, <1>2, <1>3 DEF MadeInv

LEMMA MadeInvHolds == Spec => []MadeInv
<1>1. Init => MadeInv
  BY DEF Init, PitInit, MadeInv
<1>2. PitInv /\ MadeInv /\ [Next]_vars => MadeInv'
  <2> SUFFICES ASSUME PitInv, MadeInv, [Next]_vars PROVE MadeInv'
    OBVIOUS
  <2>1. CASE PitNext
    BY <2>1, WorkMade, SpoilMade DEF PitNext
  <2>2. CASE UNCHANGED pitVars
    BY <2>2 DEF pitVars, MadeInv
  <2>3. QED  BY <2>1, <2>2 DEF Next, vars
<1>3. QED  BY <1>1, <1>2, PitInvHolds, PTL DEF Spec

LEMMA HonestBarsAre == HonestBars = DOMAIN Backtest
<1>1. ASSUME NEW rows \in DOMAIN Backtest
      PROVE  LaggedOnly(rows) /\ Balanced(Portfolios(rows), Backtest[rows].days)
  <2>1. Charted(rows)
    <3>1. rows \in Bars
      BY DEF Backtest
    <3>2. QED  BY <3>1, BarsAreCharted
  <2>2. Backtest[rows].days = DayRows(Portfolios(rows))
    <3>1. Backtest[rows] = Research(rows)
      BY DEF Backtest
    <3>2. QED  BY <3>1 DEF Research
  <2>3. QED  BY <2>1, <2>2, LaggedHolds, BalancedHolds DEF Charted
<1>2. QED  BY <1>1 DEF HonestBars

(* Every snapshot holds what was known at its time, once; and every backtest, of any *)
(* bars, trades on earlier days only, within the account, accounts for every change  *)
(* of its positions, and is the one of the snapshot it names unless that was changed *)
(* between being verified and being read.                                            *)
THEOREM HonestBacktestsHold == Spec => []HonestBacktests
<1>1. MadeInv => HonestBacktests
  <2> SUFFICES ASSUME MadeInv, NEW k \in DOMAIN published, k.kind # "shadow"
      PROVE  \/ /\ k.kind = "snapshot"
                /\ \A r \in k.rows : r.available # Unstamped /\ r.available <= k.asOf /\ r.sound
                /\ Cardinality({Key(r) : r \in k.rows}) = Cardinality(k.rows)
             \/ /\ k.kind = "research"
                /\ \E rows \in HonestBars : k.result = Backtest[rows]
                /\ Intact(k.snapshot) => k.result = Backtest[k.snapshot.rows]
    BY DEF HonestBacktests
  <2>1. CASE SnapshotMade(k)
    <3>1. PICK rows \in Feeds, asOf \in AsOfs : ~Blocked(rows, asOf) /\ k = SnapshotName(rows, asOf)
      BY <2>1 DEF SnapshotMade
    <3>2. k.kind = "snapshot" /\ k.rows = Visible(rows, asOf) /\ k.asOf = asOf
      BY <3>1 DEF SnapshotName
    <3>3. \A r \in k.rows : r.available # Unstamped /\ r.available <= k.asOf /\ r.sound
      BY <3>1, <3>2 DEF Blocked, Visible
    <3>4. Charted(k.rows)
      BY <2>1, SnapshotsAre, BarsAreCharted DEF Bars
    <3>5. Cardinality({Key(r) : r \in k.rows}) = Cardinality(k.rows)
      <4> DEFINE bars == k.rows
                 keys == {Key(r) : r \in bars}
                 f == [r \in bars |-> Key(r)]
      <4> HIDE DEF bars
      <4>1. f \in Surjection(bars, keys)
        BY DEF Surjection
      <4>2. f \in Injection(bars, keys)
        BY <3>4 DEF Injection, IsInjective, Charted, bars
      <4>3. IsFiniteSet(bars)
        BY <3>4 DEF Charted, bars
      <4> HIDE DEF f, keys
      <4>4. Cardinality(keys) = Cardinality(bars)
        BY <4>1, <4>2, <4>3, FS_Surjection
      <4>5. QED  BY <4>4 DEF keys, bars
    <3>6. QED  BY <3>2, <3>3, <3>5
  <2>2. CASE ResearchMade(k, published)
    <3>1. k.snapshot.kind = "snapshot"
      BY <2>2, SnapshotsAre DEF ResearchMade
    <3>2. Intact(k.snapshot) => published[k.snapshot].body = k.snapshot.rows
      BY <3>1 DEF Intact, SnapshotIntact, ResearchIntact, ShadowIntact
    <3>3. QED  BY <2>2, <3>2, HonestBarsAre DEF ResearchMade
  <2>3. QED  BY <2>1, <2>2 DEF MadeInv, Made
<1>2. QED  BY <1>1, MadeInvHolds, PTL
=============================================================================
