--------------------------- MODULE PlanRiskEngine ---------------------------
(***************************************************************************)
(* PlanRiskEngine.evaluate (risk/plan_engine.py): the rules a plan must     *)
(* pass and the orders the order-value limit cuts.  Weights are compared by *)
(* cross multiplication, limits are in percent.                             *)
(***************************************************************************)
EXTENDS OrderPlanner

CONSTANTS
  MaxSingleWeight, MaxGrossExposure, MaxTurnover, MaxDrawdown,   \* percent
  MaxOrderValue

ASSUME LimitsAssumption ==
  /\ MaxSingleWeight \in Nat /\ MaxGrossExposure \in Nat
  /\ MaxTurnover \in Nat /\ MaxDrawdown \in 0..100
  /\ MaxOrderValue \in Nat

-----------------------------------------------------------------------------
Traded(list, s, side) ==
  SumFunctionOnSet([i \in DOMAIN list |-> list[i].volume],
                   {i \in DOMAIN list : list[i].symbol = s /\ list[i].side = side})

(* projected_values: the holdings the orders lead to, at the plan's prices. *)
HeldAfter(account, list, s) ==
  account.held[s] + Traded(list, s, "BUY") - Traded(list, s, "SELL")

ValueAfter(account, market, list, s) ==
  IF HeldAfter(account, list, s) = 0 THEN 0
  ELSE HeldAfter(account, list, s) * market.close[s]

(* Mutant: exposure is that of the orders, not of the holdings they lead to. *)
ExposureAfter_OrdersOnly(account, market, list) ==
  LET bought == {s \in Symbols : Traded(list, s, "BUY") > 0}
  IN  SumFunctionOnSet([s \in bought |-> Traded(list, s, "BUY") * market.close[s]], bought)

ExposureAfter(account, market, list) ==
  SumFunctionOnSet([s \in Symbols |-> ValueAfter(account, market, list, s)], Symbols)

CashAfter(account, list) ==
  account.cash + SumFunctionOnSet([i \in DOMAIN list |-> CashDelta(list[i])], DOMAIN list)

Turnover(list) ==
  SumFunctionOnSet([i \in DOMAIN list |-> EstimatedValue(list[i])], DOMAIN list)

(* An account without equity has no weights and no turnover. *)
WithinPercent(value, limit, equity) == equity = 0 \/ 100 * value <= limit * equity

TradabilityRule(market, list) ==
  \A i \in DOMAIN list :
    Tradable(market, list[i].symbol, list[i].side,
             ExecutionPrice(list[i].side, list[i].price))

GrossExposureRule(account, market, list) ==
  WithinPercent(ExposureAfter(account, market, list), MaxGrossExposure, account.equity)

SingleWeightRule(account, market, list) ==
  \A s \in Symbols :
    WithinPercent(ValueAfter(account, market, list, s), MaxSingleWeight, account.equity)

TurnoverRule(account, list) == WithinPercent(Turnover(list), MaxTurnover, account.equity)

CashRule(account, list) == CashAfter(account, list) >= 0

(* Mutant: the NAVs are sorted the wrong way round. *)
DrawdownRule_Oldest(navs) ==
  \A row \in navs :
    (\A other \in navs : row.date <= other.date) =>
      100 * (row.cash + row.market) >= (100 - MaxDrawdown) * row.peak

(* The latest NAV before the plan's date: equity over the peak it fell from. *)
DrawdownRule(navs) ==
  \A row \in navs :
    (\A other \in navs : other.date <= row.date) =>
      100 * (row.cash + row.market) >= (100 - MaxDrawdown) * row.peak

BookRules(account, market, list) ==
  /\ GrossExposureRule(account, market, list)
  /\ SingleWeightRule(account, market, list)
  /\ TurnoverRule(account, list)
  /\ CashRule(account, list)

-----------------------------------------------------------------------------
TooLarge(o) == EstimatedValue(o) > MaxOrderValue

(* Mutant: the cut volume is not rounded to a lot. *)
CappedVolume_Shares(o) == MaxOrderValue \div ExecutionPrice(o.side, o.price)

CappedVolume(o) ==
  (MaxOrderValue \div (ExecutionPrice(o.side, o.price) * LotSize)) * LotSize

(* An order that does not fit the limit with one lot is a hard failure. *)
OrderValueRule(list) ==
  \A i \in DOMAIN list : TooLarge(list[i]) => CappedVolume(list[i]) > 0

(* Mutant: the limit flags an order and leaves it as it is. *)
Capped_AsIs(run, o) == o

Capped(run, o) ==
  IF TooLarge(o)
  THEN PlannedOrder(run, o.symbol, o.side, o.price, CappedVolume(o))
  ELSE o

Cut(list) == \E i \in DOMAIN list : TooLarge(list[i])

Passes(account, market, list, navs) ==
  /\ TradabilityRule(market, list)
  /\ BookRules(account, market, list)
  /\ DrawdownRule(navs)
  /\ OrderValueRule(list)
=============================================================================
