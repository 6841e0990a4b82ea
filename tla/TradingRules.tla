---------------------------- MODULE TradingRules ----------------------------
(***************************************************************************)
(* The pure rules every trading component shares: the fee schedule of      *)
(* execution/config.py and the market state of execution/planning.py.      *)
(* Amounts are integers counted in the smallest unit the code's six-digit  *)
(* rounding keeps, so the rounding is the \div below; BpsScale is 10 000   *)
(* in the code and smaller in the models that scale prices down.           *)
(***************************************************************************)
EXTENDS Integers

CONSTANTS
  Symbols,            \* instruments
  Dates,              \* trade dates, numbered in calendar order
  Market,             \* date -> the day's market snapshot
  BpsScale,           \* basis points in one
  CommissionBps, MinimumCommission, StampDutyBps, TransferBps, SlippageBps

Sides == {"BUY", "SELL"}

ASSUME DatesAssumption == Dates \subseteq Nat \ {0}

ASSUME FeesAssumption ==
  /\ BpsScale \in Nat \ {0}
  /\ CommissionBps \in Nat /\ MinimumCommission \in Nat
  /\ StampDutyBps \in Nat /\ TransferBps \in Nat
  /\ SlippageBps \in 0..BpsScale

(* A day's snapshot: closing prices, suspension flags and price limits, each a *)
(* partial function because the datasets may miss an instrument.  A close that  *)
(* is there is positive (validate_daily_bar).  One that is missing in its row   *)
(* (NaN) passes the quality rules; it stands here as no price at all, for the   *)
(* planner cannot make a volume of it, nor the nav table store a value.         *)
ASSUME MarketAssumption ==
  \A d \in Dates :
    /\ DOMAIN Market[d].close \subseteq Symbols
    /\ \A s \in DOMAIN Market[d].close : Market[d].close[s] \in Nat \ {0}

-----------------------------------------------------------------------------
PerBps(value, bps) == (value * bps) \div BpsScale

(* Slippage moves a fill against the trader. *)
ExecutionPrice(side, price) ==
  IF side = "BUY"
  THEN (price * (BpsScale + SlippageBps)) \div BpsScale
  ELSE (price * (BpsScale - SlippageBps)) \div BpsScale

Commission(value) ==
  IF PerBps(value, CommissionBps) > MinimumCommission
  THEN PerBps(value, CommissionBps)
  ELSE MinimumCommission

EstimateFee(side, value) ==
  Commission(value) + PerBps(value, TransferBps)
    + (IF side = "SELL" THEN PerBps(value, StampDutyBps) ELSE 0)

-----------------------------------------------------------------------------
(* An instrument can trade on a side at a price when its status is known, it is *)
(* not suspended, its limits are known and the price is strictly inside them.   *)
Tradable(market, symbol, side, price) ==
  /\ symbol \in DOMAIN market.suspended
  /\ ~market.suspended[symbol]
  /\ symbol \in DOMAIN market.limitUp \cap DOMAIN market.limitDown
  /\ side = "BUY" => price < market.limitUp[symbol]
  /\ side = "SELL" => price > market.limitDown[symbol]
=============================================================================
