--------------------------- MODULE MCTradingDays ---------------------------
(***************************************************************************)
(* Small accounts for TLC: prices near 50, lots of two shares, an account   *)
(* of 1000, BpsScale 100.  The order-value limit is the weight of a full    *)
(* position of the opening account, as in configs/risk/default.yaml.        *)
(***************************************************************************)
EXTENDS TradingDays, Functions, TLC

CONSTANTS x, y

MCSymbols == {x, y}
MCRank == x :> 1 @@ y :> 2
MCScale == 100
MCLot == 2

OpenMarket(px, py) ==
  [close |-> x :> px @@ y :> py,
   suspended |-> [s \in MCSymbols |-> FALSE],
   limitUp |-> x :> 2 * px @@ y :> 2 * py,
   limitDown |-> [s \in MCSymbols |-> 0]]

(* Client order ids as numbers: the price is the close of the run's date. *)
MCRuns == <<"r1", "r2", "s2", "r3">>
MCOrderId(run, symbol, side, price, volume) ==
  LET i == CHOOSE k \in DOMAIN MCRuns : MCRuns[k] = run
      j == 2 * MCRank[symbol] + (IF side = "BUY" THEN 0 ELSE 1)
  IN  48 * i + 12 * (j - 2) + volume \div 2
MCIds == 49 .. 240

ASSUME MCIdsDiffer ==
  \A run, other \in Range(MCRuns), s, t \in MCSymbols, side, opposite \in Sides :
    \A k, m \in 1..12 :
      MCOrderId(run, s, side, 0, 2 * k) = MCOrderId(other, t, opposite, 0, 2 * m)
        => run = other /\ s = t /\ side = opposite /\ k = m

-----------------------------------------------------------------------------
(* Three days: on the second y has lost much of its price and x, which rose, *)
(* is at its lower limit and cannot be sold; on the third x has risen again.  *)
(* Two runs compete for the second day.                                       *)
DayDates == 1..3
DayMarket ==
  1 :> OpenMarket(50, 40) @@
  2 :> [OpenMarket(70, 24) EXCEPT !.limitDown[x] = 70] @@
  3 :> OpenMarket(90, 30)
DayRunDate == "r1" :> 1 @@ "r2" :> 2 @@ "s2" :> 2 @@ "r3" :> 3
DayRuns == DOMAIN DayRunDate
DayPicks == "r1" :> {{x, y}, {y}} @@ "r2" :> {{x}} @@ "s2" :> {{y}} @@ "r3" :> {{y}}

-----------------------------------------------------------------------------
(* Two days: x rises by more than half, and on the second day research has turned *)
(* to y: the sale of x exceeds the order-value limit, the purchase of y does not. *)
AdjustDates == 1..2
AdjustMarket == 1 :> OpenMarket(50, 36) @@ 2 :> OpenMarket(80, 36)
AdjustRunDate == "r1" :> 1 @@ "r2" :> 2
AdjustRuns == DOMAIN AdjustRunDate
AdjustPicks == "r1" :> {{x}} @@ "r2" :> {{y}}
=============================================================================
