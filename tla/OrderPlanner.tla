---------------------------- MODULE OrderPlanner ----------------------------
(***************************************************************************)
(* The arithmetic of execution/planning.py: what a day's picks ask the      *)
(* account to hold, and the orders that take it there.  An account is what  *)
(* portfolio_snapshot returns; module TradingDays takes it from the ledger  *)
(* and runs the planner's two loops over these operators.                   *)
(***************************************************************************)
EXTENDS TradingRules, Sequences, FiniteSets, Functions

CONSTANTS
  Rank,               \* position of a symbol in the order of its code
  LotSize,            \* shares in a board lot
  MaxPositionWeight,  \* portfolio.max_position_weight of the research, in percent
  OrderIds,           \* client order ids
  OrderId(_, _, _, _, _)   \* the client order id of a run, symbol, side, price, volume

ASSUME PlannerAssumption ==
  /\ IsFiniteSet(Symbols)
  /\ Rank \in [Symbols -> Nat]
  /\ \A s, t \in Symbols : Rank[s] = Rank[t] => s = t
  /\ LotSize \in Nat \ {0}
  /\ MaxPositionWeight \in 0..100

(* positions of a PortfolioSnapshot by symbol; equity is cash plus market value. *)
Account == [cash: Nat, equity: Nat, held: [Symbols -> Nat], available: [Symbols -> Nat]]

First(S) == CHOOSE s \in S : \A t \in S : Rank[s] <= Rank[t]

Smaller(a, b) == IF a <= b THEN a ELSE b

WholeLots(volume) == (volume \div LotSize) * LotSize

-----------------------------------------------------------------------------
(* Research gives each of n picks the weight min(1/n, max_position_weight); the *)
(* planner turns it into whole lots at the closing price.                       *)
TargetVolume(picks, equity, price) ==
  LET n == Cardinality(picks)
  IN  IF n * MaxPositionWeight >= 100
      THEN WholeLots(equity \div (n * price))
      ELSE WholeLots((equity * MaxPositionWeight) \div (100 * price))

(* Symbols held and not picked are sold off; every symbol held or picked has a *)
(* price, or the planner has raised.                                            *)
Desired(account, market, picks, s) ==
  IF s \in picks THEN TargetVolume(picks, account.equity, market.close[s]) ELSE 0

ToSell(account, market, picks) ==
  {s \in DOMAIN market.close : Desired(account, market, picks, s) < account.held[s]}

ToBuy(account, market, picks) ==
  {s \in DOMAIN market.close : Desired(account, market, picks, s) > account.held[s]}

(* make_planned_order: the client order id is the run and a hash of the content. *)
PlannedOrder(run, symbol, side, price, volume) ==
  [id |-> OrderId(run, symbol, side, price, volume),
   symbol |-> symbol, side |-> side, price |-> price, volume |-> volume]

EstimatedValue(o) == ExecutionPrice(o.side, o.price) * o.volume
EstimatedFee(o) == EstimateFee(o.side, EstimatedValue(o))

(* Mutant: the fee is left out of the projected cash. *)
CashDelta_NoFee(o) ==
  IF o.side = "SELL" THEN EstimatedValue(o) ELSE -EstimatedValue(o)

CashDelta(o) ==
  IF o.side = "SELL"
  THEN EstimatedValue(o) - EstimatedFee(o)
  ELSE -(EstimatedValue(o) + EstimatedFee(o))

(* untradable_reason at the slipped price. *)
CanOrder(market, s, side) ==
  Tradable(market, s, side, ExecutionPrice(side, market.close[s]))

(* T+1: the day's own purchases stay. *)
SellVolume(account, market, picks, s) ==
  Smaller(account.held[s] - Desired(account, market, picks, s), account.available[s])

-----------------------------------------------------------------------------
BuyCost(price, volume) ==
  LET value == ExecutionPrice("BUY", price) * volume
  IN  value + EstimateFee("BUY", value)

(* Mutant: the fee is not part of what must be affordable. *)
IsAffordable_NoFee(volume, wanted, price, budget) ==
  LET start == Smaller(wanted, WholeLots(budget \div ExecutionPrice("BUY", price)))
  IN  volume = IF start > 0 THEN start ELSE 0

(* _affordable_volume: starting from what is wanted and what the budget buys   *)
(* before fees, give up a lot at a time until the cost fits the budget.        *)
IsAffordable(volume, wanted, price, budget) ==
  LET start == Smaller(wanted, WholeLots(budget \div ExecutionPrice("BUY", price)))
      Tried(v) == v \in 1..start /\ (start - v) % LotSize = 0
  IN  \/ /\ Tried(volume)
         /\ BuyCost(price, volume) <= budget
         /\ \A v \in volume + 1 .. start : Tried(v) => BuyCost(price, v) > budget
      \/ /\ volume = 0
         /\ \A v \in 1..start : Tried(v) => BuyCost(price, v) > budget
=============================================================================
