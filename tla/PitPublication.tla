---------------------------- MODULE PitPublication ----------------------------
(***************************************************************************)
(* The directories that are published by renaming: point-in-time snapshots  *)
(* (SnapshotBuilder, data/snapshot.py), backtests on them                   *)
(* (SnapshotResearchRunner, research/snapshot_runner.py) and captures of a   *)
(* broker's account (LiveShadowRunner, execution/shadow.py).                *)
(*                                                                          *)
(* Each is named by the hash of what it holds and of what it was made from; *)
(* hashes are taken to be free of collisions, so a name is the record of    *)
(* just that.  It is built in a directory of another name and renamed; one   *)
(* that is there already is verified and used.                              *)
(***************************************************************************)
EXTENDS DataQuality, SnapshotResearch

CONSTANTS
  Feeds,         \* what the provider of daily bars may return
  AsOfs,         \* the times a snapshot is asked for
  Captures,      \* what the broker's gateway may return
  Workers,       \* the processes that build, research or capture
  MaxJobs,       \* bound on the commands
  MaxPitFaults   \* bound on the directories that are changed

(* A row of the provider's daily bars; an unsound one is checked before it is used. *)
DailyBar ==
  [line: Nat, date: Nat, symbol: Nat, open: Nat \ {0}, close: Nat \ {0}, volume: Nat,
   available: Nat \cup {Unstamped}, sound: BOOLEAN]

ASSUME PitAssumption ==
  /\ \A rows \in Feeds : rows \subseteq DailyBar /\ Lined(rows)
  /\ AsOfs \subseteq Nat /\ None \notin Workers
  /\ {MaxJobs, MaxPitFaults} \subseteq Nat

VARIABLES
  published,  \* name -> what the directory holds now: [body, by]
  wpc,        \* process -> where it is
  name,       \* process -> the name of what it publishes, or of what it reads
  answer,     \* process -> the name of the directory it returned, None after an error
  jobs, pitFaults

pitVars == <<published, wpc, name, answer, jobs, pitFaults>>

-----------------------------------------------------------------------------
(* The number of rows the provider returned is part of a snapshot's name, seen or *)
(* not; the manifest of the snapshot is part of a backtest's.                     *)
SnapshotName(rows, asOf) ==
  [kind |-> "snapshot", rows |-> Visible(rows, asOf), inputRows |-> Cardinality(rows),
   asOf |-> asOf]
ResearchName(snapshot, result) ==
  [kind |-> "research", snapshot |-> snapshot, result |-> result]
ShadowName(capture) == [kind |-> "shadow", capture |-> capture]

(* What a directory of that name is to hold. *)
Body(k) ==
  IF k.kind = "snapshot" THEN k.rows
  ELSE IF k.kind = "research" THEN k.result
  ELSE k.capture

(* And what is left in it when its files are changed. *)
Marred(rows) == {[r EXCEPT !.close = r.close + r.symbol] : r \in rows}
Spoiled(k) == IF k.kind = "snapshot" THEN Marred(k.rows) ELSE None

(* What a directory can hold for its bars, what a backtest refuses, and what it makes *)
(* of the rest (tables, so that TLC computes each backtest once).                     *)
VisibleBars ==
  {Visible(x[1], x[2]) : x \in {y \in Feeds \X AsOfs : ~Blocked(y[1], y[2])}}
Bars == VisibleBars \cup {Marred(rows) : rows \in VisibleBars}
UnusableBars == [asOf \in AsOfs |-> {rows \in Bars : Unusable(rows, asOf)}]
Backtest ==
  [rows \in UNION {Bars \ UnusableBars[asOf] : asOf \in AsOfs} |-> Research(rows)]

(* Changing a file changes what is read from it. *)
ASSUME ChangeAssumption == \A rows \in VisibleBars : Marred(rows) # rows

PitInit ==
  /\ published = <<>>
  /\ wpc = [w \in Workers |-> "idle"]
  /\ name = [w \in Workers |-> None]
  /\ answer = [w \in Workers |-> None]
  /\ jobs = 0 /\ pitFaults = 0

(* A command starts: it goes on with a name, or ends with an error. *)
Starts(w, place, k) ==
  /\ wpc[w] = "idle" /\ jobs < MaxJobs
  /\ jobs' = jobs + 1
  /\ answer' = [answer EXCEPT ![w] = None]
  /\ wpc' = [wpc EXCEPT ![w] = place]
  /\ name' = [name EXCEPT ![w] = k]
  /\ UNCHANGED <<published, pitFaults>>

Returns(w) ==
  /\ wpc' = [wpc EXCEPT ![w] = "idle"]
  /\ answer' = [answer EXCEPT ![w] = name[w]]
  /\ UNCHANGED name

Raises(w) ==
  /\ wpc' = [wpc EXCEPT ![w] = "idle"]
  /\ name' = [name EXCEPT ![w] = None]
  /\ UNCHANGED answer

(* build_daily_bars, up to the name. *)
BeginSnapshot(w) ==
  \E rows \in Feeds, asOf \in AsOfs :
    IF Blocked(rows, asOf) THEN Starts(w, "idle", None)
    ELSE Starts(w, "named", SnapshotName(rows, asOf))

(* LiveShadowRunner.run: the gateway must be connected, read-only and of one name. *)
BeginShadow(w) ==
  \E c \in Captures :
    IF ~c.healthy \/ c.healthOf # c.provider THEN Starts(w, "idle", None)
    ELSE Starts(w, "named", ShadowName(c))

(* Mutant: what is there is taken as it is. *)
Intact_Unread(k) == TRUE

(* _verify_existing of the three classes: the files have the hashes the name was made *)
(* from; a capture is compared with the new one byte by byte.                         *)
SnapshotIntact(k) == k.kind = "snapshot" /\ published[k].body = k.rows
ResearchIntact(k) == k.kind = "research" /\ published[k].body = k.result
ShadowIntact(k) == k.kind = "shadow" /\ published[k].body = k.capture

Intact(k) == SnapshotIntact(k) \/ ResearchIntact(k) \/ ShadowIntact(k)

(* SnapshotResearchRunner.run: the snapshot is verified; *)
BeginResearch(w) ==
  \E k \in DOMAIN published :
    /\ k.kind = "snapshot"
    /\ IF Intact(k) THEN Starts(w, "verified", k) ELSE Starts(w, "idle", None)

(* only then are its bars read, and the backtest is made of what is read. *)
ReadBars(w) ==
  /\ wpc[w] = "verified"
  /\ LET rows == published[name[w]].body
     IN IF rows \in UnusableBars[name[w].asOf] THEN Raises(w)
        ELSE /\ name' = [name EXCEPT ![w] = ResearchName(name[w], Backtest[rows])]
             /\ wpc' = [wpc EXCEPT ![w] = "named"]
             /\ UNCHANGED answer
  /\ UNCHANGED <<published, jobs, pitFaults>>

(* The directory is there: it is verified and returned. *)
ReuseDirectory(w) ==
  /\ wpc[w] = "named" /\ name[w] \in DOMAIN published
  /\ IF Intact(name[w]) THEN Returns(w) ELSE Raises(w)
  /\ UNCHANGED <<published, jobs, pitFaults>>

(* It is not: it is built under another name. *)
BuildDirectory(w) ==
  /\ wpc[w] = "named" /\ name[w] \notin DOMAIN published
  /\ wpc' = [wpc EXCEPT ![w] = "built"]
  /\ UNCHANGED <<published, name, answer, jobs, pitFaults>>

Filed(w) ==
  [k \in DOMAIN published \cup {name[w]} |->
     IF k = name[w] THEN [body |-> Body(k), by |-> w] ELSE published[k]]

(* Mutant: the directory replaces one that was made meanwhile. *)
Rename_Over(w) ==
  /\ wpc[w] = "built"
  /\ published' = Filed(w)
  /\ Returns(w)
  /\ UNCHANGED <<jobs, pitFaults>>

(* And renamed.  Onto one made meanwhile that raises ENOTEMPTY, which the handlers of *)
(* FileExistsError do not take: the command fails.                                    *)
Rename(w) ==
  /\ wpc[w] = "built"
  /\ IF name[w] \in DOMAIN published
     THEN Raises(w) /\ UNCHANGED published
     ELSE published' = Filed(w) /\ Returns(w)
  /\ UNCHANGED <<jobs, pitFaults>>

(* The process dies, or a write fails; its own directory is never looked at again. *)
DieWorking(w) ==
  /\ wpc[w] # "idle"
  /\ Raises(w)
  /\ UNCHANGED <<published, jobs, pitFaults>>

(* The files of a directory are changed by something else. *)
Spoil(k) ==
  /\ pitFaults < MaxPitFaults
  /\ pitFaults' = pitFaults + 1
  /\ published' = [published EXCEPT ![k].body = Spoiled(k)]
  /\ UNCHANGED <<wpc, name, answer, jobs>>

Work(w) ==
  \/ BeginSnapshot(w) \/ BeginShadow(w) \/ BeginResearch(w) \/ ReadBars(w)
  \/ ReuseDirectory(w) \/ BuildDirectory(w) \/ Rename(w) \/ DieWorking(w)

PitNext ==
  \/ \E w \in Workers : Work(w)
  \/ \E k \in DOMAIN published : Spoil(k)

-----------------------------------------------------------------------------
(* A published directory stays, whoever publishes the same meanwhile; nothing but a *)
(* fault changes its files.                                                         *)
DirectoriesStay ==
  \A k \in DOMAIN published :
    /\ k \in DOMAIN published' /\ published'[k].by = published[k].by
    /\ pitFaults' = pitFaults => published'[k] = published[k]

(* What a command returns holds what its name says. *)
AnswersIntact ==
  \A w \in Workers :
    (answer'[w] # answer[w] /\ answer'[w] # None) =>
      answer'[w] \in DOMAIN published' /\ published'[answer'[w]].body = Body(answer'[w])

(* A set of bars on which a backtest trades on what was known before each open, buys *)
(* with no more than the account and accounts for every change of its positions.     *)
HonestBars ==
  {rows \in DOMAIN Backtest : LaggedOnly(rows) /\ Balanced(Portfolios(rows), Backtest[rows].days)}

(* A snapshot holds what was known at its time, every row of it sound and once; a     *)
(* backtest on it is honest in the sense above, and is the one of the snapshot it      *)
(* names - unless that snapshot was changed between being verified and being read.    *)
HonestBacktests ==
  \A k \in DOMAIN published :
    \/ k.kind = "shadow"
    \/ /\ k.kind = "snapshot"
       /\ \A r \in k.rows : r.available # Unstamped /\ r.available <= k.asOf /\ r.sound
       /\ Cardinality({Key(r) : r \in k.rows}) = Cardinality(k.rows)
    \/ /\ k.kind = "research"
       /\ \E rows \in HonestBars : k.result = Backtest[rows]
       /\ Intact(k.snapshot) => k.result = Backtest[k.snapshot.rows]
=============================================================================
