------------------------------ MODULE RiskService ------------------------------
(***************************************************************************)
(* RiskDecisionService of risk/v2_service.py over the two state files and   *)
(* the engine: an evaluation reads the switches, then the approvals, with   *)
(* no lock, decides, and publishes the decision with everything it rests on *)
(* in a directory named by their hashes.  A directory that is already there *)
(* is verified, by evaluating again on what it holds, and used instead.     *)
(*                                                                          *)
(* The name of a directory is the evidence it was made from: request, policy *)
(* and engine are fixed, and hashes are taken to be free of collisions.     *)
(***************************************************************************)
EXTENDS ControlStores, RiskEngineV2

CONSTANTS
  Asked,           \* the input files that are evaluated: [target, context]
  Requests,        \* all the inputs the engine's answers are looked at for
  Evaluators,      \* the processes that evaluate
  Damaged,         \* the content of a directory some file of which was changed
  MaxEvaluations   \* bound on the evaluations

ASSUME ServiceAssumption ==
  /\ \A r \in Requests \cup {Asked} :
       /\ r = [target |-> r.target, context |-> r.context]
       /\ TargetAccepted(r.target) /\ ContextAccepted(r.context)
  /\ Asked.context.approval # Absent => Asked.context.approval.id \in ApprovalIds
  /\ MaxEvaluations \in Nat

VARIABLES
  artifacts,  \* evidence -> the published decision, or Damaged
  epc,        \* evaluator -> where it is
  began,      \* evaluator -> the controls as they were when it began (history)
  saw,        \* evaluator -> the controls it read: [switches, approvals, revoked]
  answer,     \* evaluator -> what it returned, None before and after an error
  evaluations

evalVars == <<artifacts, epc, began, saw, answer, evaluations>>
vars == <<storeVars, evalVars>>

-----------------------------------------------------------------------------
(* The engine's decision on inputs and on the controls that were read. *)
Judge(r, evidence) ==
  Evaluate(r.target, r.context, evidence.switches, evidence.approvals, evidence.revoked)

Decision(evidence) == Judge(Asked, evidence)

Init ==
  /\ StoresInit
  /\ artifacts = <<>>
  /\ epc = [e \in Evaluators |-> "idle"]
  /\ began = [e \in Evaluators |-> None]
  /\ saw = [e \in Evaluators |-> None]
  /\ answer = [e \in Evaluators |-> None]
  /\ evaluations = 0

(* The inputs are read and, last of them, the switches. *)
Begin(e) ==
  /\ epc[e] = "idle" /\ evaluations < MaxEvaluations
  /\ evaluations' = evaluations + 1
  /\ began' = [began EXCEPT ![e] = [switches |-> switches, revoked |-> revoked]]
  /\ saw' = [saw EXCEPT ![e] = [switches |-> switches]]
  /\ answer' = [answer EXCEPT ![e] = None]
  /\ epc' = [epc EXCEPT ![e] = "reading"]
  /\ UNCHANGED <<storeVars, artifacts>>

(* Then the approvals; the engine needs nothing else. *)
ReadApprovals(e) ==
  /\ epc[e] = "reading"
  /\ saw' = [saw EXCEPT ![e] = [switches |-> saw[e].switches,
                                approvals |-> approvals, revoked |-> revoked]]
  /\ epc' = [epc EXCEPT ![e] = "decided"]
  /\ UNCHANGED <<storeVars, artifacts, began, answer, evaluations>>

(* Mutant: a directory that is there is used as it is. *)
Sound_Always(evidence) == TRUE

(* _verify_existing: the hashes agree and the engine, run again on what the *)
(* directory holds, decides the same.                                       *)
Sound(evidence) == artifacts[evidence] = Decision(evidence)

Answers(e, decision) ==
  /\ answer' = [answer EXCEPT ![e] = decision]
  /\ epc' = [epc EXCEPT ![e] = "idle"]
  /\ UNCHANGED <<began, saw>>

Fails(e) ==
  /\ epc' = [epc EXCEPT ![e] = "idle"]
  /\ began' = [began EXCEPT ![e] = None]
  /\ saw' = [saw EXCEPT ![e] = None]
  /\ UNCHANGED answer

(* The directory exists: it is verified and its decision returned. *)
Reuse(e) ==
  /\ epc[e] = "decided" /\ saw[e] \in DOMAIN artifacts
  /\ IF Sound(saw[e]) THEN Answers(e, artifacts[saw[e]]) ELSE Fails(e)
  /\ UNCHANGED <<storeVars, artifacts, evaluations>>

(* It does not: the files are written into a directory of another name. *)
Build(e) ==
  /\ epc[e] = "decided" /\ saw[e] \notin DOMAIN artifacts
  /\ epc' = [epc EXCEPT ![e] = "built"]
  /\ UNCHANGED <<storeVars, artifacts, began, saw, answer, evaluations>>

(* Which is renamed.  Onto a directory made meanwhile, that fails: with ENOTEMPTY, *)
(* which is no FileExistsError, so the error is passed on.                         *)
Publish(e) ==
  /\ epc[e] = "built"
  /\ IF saw[e] \in DOMAIN artifacts
     THEN Fails(e) /\ UNCHANGED artifacts
     ELSE /\ artifacts' = [k \in DOMAIN artifacts \cup {saw[e]} |->
                             IF k = saw[e] THEN Decision(k) ELSE artifacts[k]]
          /\ Answers(e, Decision(saw[e]))
  /\ UNCHANGED <<storeVars, evaluations>>

(* The process dies; nobody looks at the directory it was building. *)
DieEvaluating(e) ==
  /\ epc[e] # "idle"
  /\ Fails(e)
  /\ UNCHANGED <<storeVars, artifacts, evaluations>>

(* A published file is changed by something else; a fault, as a writer's death is. *)
Damage(k) ==
  /\ faults < MaxFaults /\ artifacts[k] # Damaged
  /\ faults' = faults + 1
  /\ artifacts' = [artifacts EXCEPT ![k] = Damaged]
  /\ UNCHANGED <<clock, files, lock, pc, call, seen, epc, began, saw, answer, evaluations>>

Step(e) ==
  Begin(e) \/ ReadApprovals(e) \/ Reuse(e) \/ Build(e) \/ Publish(e) \/ DieEvaluating(e)

Next ==
  \/ StoresNext /\ UNCHANGED evalVars
  \/ \E e \in Evaluators : Step(e)
  \/ \E k \in DOMAIN artifacts : Damage(k)

Spec == Init /\ [][Next]_vars

-----------------------------------------------------------------------------
TypeOK ==
  /\ clock \in 0..MaxClock /\ faults \in 0..MaxFaults
  /\ switches \in [SwitchIds -> SetRecords \cup {Absent}]
  /\ approvals \in [ApprovalIds -> Evidence \cup {Absent}]
  /\ revoked \subseteq {a \in ApprovalIds : approvals[a] # Absent}
  /\ lock \in [Files -> Writers \cup {Free, Orphan}]
  /\ \A w \in Writers :
       /\ pc[w] \in {"idle", "waiting", "locked", "loaded", "leaving"}
       /\ call[w] \in Calls[w] \cup {None}
       /\ \A f \in Files :
            lock[f] = w <=> pc[w] \in {"locked", "loaded", "leaving"} /\ FileOf(call[w]) = f
  /\ epc \in [Evaluators -> {"idle", "reading", "decided", "built"}]
  /\ \A k \in DOMAIN artifacts : DOMAIN k = {"switches", "approvals", "revoked"}

Answered(e) == epc[e] = "idle" /\ answer[e] # None

(* Whether a switch concerns the account and strategy of the request. *)
Concerns(s) ==
  \/ s.scope = "GLOBAL"
  \/ s.scope = "ACCOUNT" /\ s.id = Asked.context.account
  \/ s.scope = "STRATEGY" /\ s.id = Asked.context.strategy

(* A switch that stood when an evaluation began and still stands is obeyed by it: *)
(* a hard one leaves no approved portfolio, a reduce-only one no position above   *)
(* what is held, whatever other updates were written meanwhile (switches and      *)
(* approvals are read one after the other, without a lock).                       *)
StandingSwitchesHold ==
  \A e \in Evaluators : Answered(e) =>
    \A s \in SwitchIds :
      (/\ Concerns(s)
       /\ switches[s] # Absent /\ switches[s] = began[e].switches[s]
       /\ switches[s].active
       /\ Lets(answer[e]))
      => /\ switches[s].reduceOnly
         /\ \A i \in DOMAIN answer[e].positions :
              answer[e].positions[i] <= Held(Asked.context, i)

(* No portfolio is approved on an approval that had been revoked before the *)
(* evaluation began, nor on another document of the id it is registered by. *)
RevokedNeverApproves ==
  \A e \in Evaluators :
    LET a == Asked.context.approval IN
    (Answered(e) /\ Lets(answer[e]) /\ RequireApproval)
    => a # Absent /\ a.id \notin began[e].revoked /\ approvals[a.id] = a

(* Every answer, made now or found in a published directory, is the engine's answer *)
(* to the inputs and the controls it names; a directory that was changed never      *)
(* answers.                                                                         *)
AnswersReplay ==
  \A e \in Evaluators : Answered(e) => answer[e] = Decision(saw[e])

-----------------------------------------------------------------------------
(* What the engine answers to any request on the controls as they are.  Every *)
(* content of the two files is met when nothing runs: it is enough to look    *)
(* there.                                                                     *)
Quiet == evaluations = 0 /\ \A w \in Writers : pc[w] = "idle"

Now == [switches |-> switches, approvals |-> approvals, revoked |-> revoked]

(* The instruments' conditions: no sale of what was bought today, none while the    *)
(* instrument is suspended or at its lower limit, no purchase while it is suspended, *)
(* at its upper limit or, if the policy says so, an ST stock.                        *)
Tradable(context, i, w) ==
  LET m == context.market[i] IN
  /\ w >= Held(context, i) - Sellable(context, i)
  /\ w < Held(context, i) => ~m.suspended /\ ~m.down
  /\ w > Held(context, i) => ~m.suspended /\ ~m.up /\ (AllowST \/ ~m.st)
  /\ w <= m.liquidity /\ w <= MaxSingle

WithinLimits(context, weights) ==
  LET all == DOMAIN weights IN
  /\ \A n \in Industries :
       Total(weights, {i \in all : context.market[i].industry = n}) <= MaxIndustry
  /\ Total(weights, all) <= MaxTotal
  /\ Total(weights, all) + MinCash <= One

(* An approved portfolio covers what is asked for and what is held, can be traded   *)
(* and keeps to the limits of liquidity, position, industry, total and cash,        *)
(* whatever was asked for and however often scaling rounded.                        *)
TradableWithinLimits ==
  Quiet => \A r \in Requests :
    LET d == Judge(r, Now) IN
    Lets(d) => /\ DOMAIN d.positions = Working(r.target, r.context)
               /\ \A i \in DOMAIN d.positions : Tradable(r.context, i, d.positions[i])
               /\ WithinLimits(r.context, d.positions)

(* Adjusting is done in one go: asked for the portfolio it approved, under the same *)
(* controls, the engine approves it as it is.                                       *)
AdjustmentIsStable ==
  Quiet => \A r \in Requests :
    LET d == Judge(r, Now)
        again == Judge([r EXCEPT !.target.weights = d.positions], Now)
    IN Lets(d) => again.decision = "APPROVE" /\ again.positions = d.positions

(* A portfolio is refused as infeasible only when no portfolio at all satisfies the *)
(* instruments' conditions, the reduce-only switch and the limits: scaling in       *)
(* proportion above the floors loses none.                                          *)
OnlyImpossibleRefused ==
  Quiet => \A r \in Requests :
    LET all == Working(r.target, r.context)
        reduceOnly == ReduceOnly(r.context, switches)
        reach == [i \in all |->
                    {w \in 0..One : /\ Tradable(r.context, i, w)
                                    /\ w > Held(r.context, i) => ~reduceOnly}]
    IN Judge(r, Now).reason \in {"INFEASIBLE_INSTRUMENT_BOUNDS",
          "INFEASIBLE_MAX_INDUSTRY_WEIGHT", "INFEASIBLE_MAX_TOTAL_WEIGHT"}
       => ~\E w \in [all -> UNION {reach[i] : i \in all}] :
             (\A i \in all : w[i] \in reach[i]) /\ WithinLimits(r.context, w)
=============================================================================
