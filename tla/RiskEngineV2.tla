----------------------------- MODULE RiskEngineV2 -----------------------------
(***************************************************************************)
(* The deterministic risk engine of risk/v2_engine.py as pure operators: a  *)
(* target portfolio, a risk context, the kill switches and the approval     *)
(* registry go in, a decision comes out.                                    *)
(*                                                                          *)
(* Weights are integers counted in the engine's quantum (One of them make   *)
(* the whole account), so its ROUND_DOWN is \div.  Cash is given as a       *)
(* weight, the age of the data as a difference.  Messages, thresholds and   *)
(* the reason code of an adjusted position are left out.                    *)
(***************************************************************************)
EXTENDS RiskModels, FiniteSets, Functions

CONSTANTS
  Instruments, Industries,
  One,                 \* the weight of the whole account, in quanta
  PolicyVersion,
  MaxAge, MaxSingle, MaxTotal, MaxIndustry, MinCash, MaxLoss, MaxDrawdown,
  AllowST, RequireApproval

(* RiskPolicy.validate_limits and its field ranges. *)
ASSUME PolicyAssumption ==
  /\ IsFiniteSet(Instruments)
  /\ One \in Nat \ {0}
  /\ {MaxAge, MaxSingle, MaxTotal, MaxIndustry, MinCash, MaxLoss, MaxDrawdown} \subseteq Nat
  /\ MaxSingle <= MaxTotal /\ MaxIndustry <= MaxTotal
  /\ MaxTotal + MinCash <= One
  /\ AllowST \in BOOLEAN /\ RequireApproval \in BOOLEAN

(* What the market says of an instrument, and a holding (InstrumentRiskState, *)
(* CurrentPosition with its validator).                                       *)
MarketState ==
  [industry: Industries, suspended: BOOLEAN, st: BOOLEAN, up: BOOLEAN,
   down: BOOLEAN, liquidity: 0..One]

Position ==
  {h \in [weight: 0..One, sellable: 0..One, industry: Industries] : h.sellable <= h.weight}

Total(weights, S) == SumFunctionOnSet(weights, S)

(* What the models let through: a target of at most the whole account, a context *)
(* whose positions and instruments are as above.                                 *)
TargetAccepted(target) ==
  /\ target = [run |-> target.run, strategy |-> target.strategy, weights |-> target.weights]
  /\ DOMAIN target.weights \subseteq Instruments
  /\ \A i \in DOMAIN target.weights : target.weights[i] \in 0..One
  /\ Total(target.weights, DOMAIN target.weights) <= One

ContextAccepted(context) ==
  /\ DOMAIN context.held \cup DOMAIN context.market \subseteq Instruments
  /\ \A i \in DOMAIN context.held : context.held[i] \in Position
  /\ \A i \in DOMAIN context.market : context.market[i] \in MarketState
  /\ context.cash \in 0..One

-----------------------------------------------------------------------------
(* The instruments a decision is about, and what it starts from. *)
Working(target, context) == DOMAIN target.weights \cup DOMAIN context.held

Held(context, i) == IF i \in DOMAIN context.held THEN context.held[i].weight ELSE 0
Sellable(context, i) == IF i \in DOMAIN context.held THEN context.held[i].sellable ELSE 0

Requested(target, context) ==
  [i \in Working(target, context) |->
     IF i \in DOMAIN target.weights THEN target.weights[i] ELSE 0]

Invested(context) ==
  Total([i \in DOMAIN context.held |-> context.held[i].weight], DOMAIN context.held)

(* Mutant: the registry is asked for the evidence but not for revocations. *)
Trusted_Revoked(evidence, approvals, revoked) ==
  approvals[evidence.id] = evidence

(* ApprovalState.trusted, and the comparison with what the context carries. *)
Trusted(evidence, approvals, revoked) ==
  /\ evidence.id \notin revoked
  /\ approvals[evidence.id] = evidence

(* _validate_approval: the evidence is bound to this decision, trusted, not from *)
(* the future and not expired, by the time the context was made.                 *)
ApprovalRefusal(target, context, approvals, revoked) ==
  LET a == context.approval IN
  IF ~RequireApproval THEN "none"
  ELSE IF a = Absent THEN "APPROVAL_REQUIRED"
  ELSE IF <<a.account, a.strategy, a.run, a.policy>>
             # <<context.account, context.strategy, target.run, PolicyVersion>>
       THEN "APPROVAL_SCOPE_MISMATCH"
  ELSE IF ~Trusted(a, approvals, revoked) THEN "APPROVAL_NOT_TRUSTED"
  ELSE IF a.approvedAt > context.now THEN "APPROVAL_FROM_FUTURE"
  ELSE IF context.now >= a.expiresAt THEN "APPROVAL_EXPIRED"
  ELSE "none"

(* Mutant: only the global switch is looked at. *)
Applicable_Global(context, switches) ==
  {s \in DOMAIN switches : s.scope = "GLOBAL" /\ switches[s] # Absent /\ switches[s].active}

(* KillSwitchState.active_for: the active switches of this account and strategy. *)
Applicable(context, switches) ==
  {s \in DOMAIN switches :
     /\ switches[s] # Absent
     /\ switches[s].active
     /\ \/ s.scope = "GLOBAL"
        \/ s.scope = "ACCOUNT" /\ s.id = context.account
        \/ s.scope = "STRATEGY" /\ s.id = context.strategy}

HardSwitches(context, switches) ==
  {s \in Applicable(context, switches) : ~switches[s].reduceOnly}

ReduceOnly(context, switches) == Applicable(context, switches) # {}

(* The first check of the inputs that fails, in the order the engine makes them. *)
InputRefusal(target, context) ==
  IF target.strategy # context.strategy THEN "STRATEGY_CONTEXT_MISMATCH"
  ELSE IF ~(Working(target, context) \subseteq DOMAIN context.market)
       THEN "MISSING_INSTRUMENT_CONTEXT"
  ELSE IF \E i \in DOMAIN context.held : context.market[i].industry # context.held[i].industry
       THEN "INDUSTRY_CONTEXT_MISMATCH"
  ELSE IF Invested(context) + context.cash > One + 1 THEN "ACCOUNT_STATE_INCONSISTENT"
  ELSE IF context.age < 0 THEN "SNAPSHOT_FROM_FUTURE"
  ELSE IF context.age > MaxAge THEN "STALE_DATA"
  ELSE "none"

(* And, after them, of the switches, the losses and the approval. *)
ControlRefusal(target, context, switches, approvals, revoked) ==
  IF HardSwitches(context, switches) # {} THEN "KILL_SWITCH_ACTIVE"
  ELSE IF context.loss >= MaxLoss THEN "DAILY_LOSS_LIMIT"
  ELSE IF context.drawdown >= MaxDrawdown THEN "DRAWDOWN_LIMIT"
  ELSE ApprovalRefusal(target, context, approvals, revoked)

Refusal(target, context, switches, approvals, revoked) ==
  IF InputRefusal(target, context) # "none" THEN InputRefusal(target, context)
  ELSE ControlRefusal(target, context, switches, approvals, revoked)

-----------------------------------------------------------------------------
(* What a position may not fall below: the part bought today, or all of it when *)
(* nobody can sell.                                                             *)
Floor(context, i) ==
  IF context.market[i].suspended \/ context.market[i].down
  THEN Held(context, i)
  ELSE Held(context, i) - Sellable(context, i)

(* What it may not rise above: liquidity and the single limit, or what is held *)
(* when it must not be increased.                                              *)
Ceiling(context, i, reduceOnly) ==
  LET m == context.market[i]
      cap == IF m.liquidity <= MaxSingle THEN m.liquidity ELSE MaxSingle
  IN IF (m.up \/ m.suspended \/ (m.st /\ ~AllowST) \/ reduceOnly) /\ Held(context, i) <= cap
     THEN Held(context, i)
     ELSE cap

Bounded(w, floor, ceiling) ==
  IF w < floor THEN floor ELSE IF w > ceiling THEN ceiling ELSE w

(* Mutant: a group whose floors just fill the limit is refused. *)
Infeasible_Full(weights, floors, group, limit) ==
  Total(weights, group) > limit /\ Total(floors, group) >= limit

(* A group above its limit is reduced in proportion to what each position has *)
(* above its floor; it cannot be when the floors alone exceed the limit.      *)
Infeasible(weights, floors, group, limit) ==
  Total(weights, group) > limit /\ Total(floors, group) > limit

(* Mutant: the shares are rounded up. *)
Scaled_Up(weights, floors, group, limit) ==
  IF Total(weights, group) <= limit THEN weights
  ELSE LET room == limit - Total(floors, group)
           excess == Total(weights, group) - Total(floors, group)
       IN [i \in DOMAIN weights |->
             IF i \in group
             THEN floors[i] + ((weights[i] - floors[i]) * room + excess - 1) \div excess
             ELSE weights[i]]

(* Mutant: the whole weights are reduced in proportion. *)
Scaled_NoFloors(weights, floors, group, limit) ==
  IF Total(weights, group) <= limit THEN weights
  ELSE [i \in DOMAIN weights |->
          IF i \in group THEN (weights[i] * limit) \div Total(weights, group) ELSE weights[i]]

Scaled(weights, floors, group, limit) ==
  IF Total(weights, group) <= limit THEN weights
  ELSE LET room == limit - Total(floors, group)
           excess == Total(weights, group) - Total(floors, group)
       IN [i \in DOMAIN weights |->
             IF i \in group
             THEN floors[i] + ((weights[i] - floors[i]) * room) \div excess
             ELSE weights[i]]

Peers(context, S, industry) == {i \in S : context.market[i].industry = industry}

(* _apply_industry_limits: industries share no position, so each one is scaled *)
(* on the weights the engine had before any of them was.                       *)
IndustryScaled(context, weights, floors) ==
  [i \in DOMAIN weights |->
     Scaled(weights, floors,
            Peers(context, DOMAIN weights, context.market[i].industry), MaxIndustry)[i]]

TotalLimit == IF MaxTotal <= One - MinCash THEN MaxTotal ELSE One - MinCash

Reject(reason) == [decision |-> "REJECT", reason |-> reason, positions |-> <<>>]

(* The part of evaluate after the checks: bounds, industries, the total. *)
Allocate(target, context, reduceOnly) ==
  LET original == Requested(target, context)
      all == DOMAIN original
      floors == [i \in all |-> Floor(context, i)]
      ceilings == [i \in all |-> Ceiling(context, i, reduceOnly)]
      bounded == [i \in all |-> Bounded(original[i], floors[i], ceilings[i])]
      reduced == IndustryScaled(context, bounded, floors)
      final == Scaled(reduced, floors, all, TotalLimit)
  IN IF \E i \in all : floors[i] > ceilings[i]
     THEN Reject("INFEASIBLE_INSTRUMENT_BOUNDS")
     ELSE IF \E n \in Industries : Infeasible(bounded, floors, Peers(context, all, n), MaxIndustry)
     THEN Reject("INFEASIBLE_MAX_INDUSTRY_WEIGHT")
     ELSE IF Infeasible(reduced, floors, all, TotalLimit)
     THEN Reject("INFEASIBLE_MAX_TOTAL_WEIGHT")
     ELSE [decision |-> IF final = original THEN "APPROVE" ELSE "ADJUST",
           reason |-> "none",
           positions |-> final]

(* evaluate. *)
Evaluate(target, context, switches, approvals, revoked) ==
  LET refusal == Refusal(target, context, switches, approvals, revoked)
  IN IF refusal # "none" THEN Reject(refusal)
     ELSE Allocate(target, context, ReduceOnly(context, switches))

Lets(decision) == decision.decision # "REJECT"
=============================================================================
