-------------------------- MODULE MCPaperExecution --------------------------
(***************************************************************************)
(* Small accounts for TLC.  Prices are near 10, so BpsScale is 10: one unit *)
(* of slippage or commission is a tenth.                                    *)
(***************************************************************************)
EXTENDS PaperExecution, TLC

CONSTANTS x, y

MCSymbols == {x, y}
MCScale == 10

Buy(id, symbol, price, volume) ==
  [id |-> id, symbol |-> symbol, side |-> "BUY", price |-> price, volume |-> volume]
Sell(id, symbol, price, volume) ==
  [id |-> id, symbol |-> symbol, side |-> "SELL", price |-> price, volume |-> volume]
Plan(run, checksum, date, list) ==
  [run |-> run, checksum |-> checksum, date |-> date, orders |-> list]

OpenMarket(px, py) ==
  [close |-> x :> px @@ y :> py,
   suspended |-> [s \in MCSymbols |-> FALSE],
   limitUp |-> x :> 2 * px @@ y :> 2 * py,
   limitDown |-> [s \in MCSymbols |-> 0]]

MCSeedLots == << [symbol |-> y, acquired |-> 0, volume |-> 1, remaining |-> 1],
                 [symbol |-> y, acquired |-> 0, volume |-> 2, remaining |-> 2] >>

-----------------------------------------------------------------------------
(* Two dates, three rival plans for the first one (two share a run and an     *)
(* order id), a suspended day, a sale whose minimum fee the cash cannot bear, *)
(* and a held symbol without a price on the second date.                      *)
RivalDates == 1..2
RivalMarket ==
  1 :> [OpenMarket(10, 2) EXCEPT !.limitUp[y] = 2] @@
  2 :> [OpenMarket(9, 2) EXCEPT !.close = x :> 9, !.suspended[y] = TRUE]

RivalPlans ==
  { Plan("r1", "c1", 1, <<Sell("r1-sy", y, 2, 2), Buy("r1-bx", x, 10, 2)>>),
    Plan("r1", "c2", 1, <<Buy("r1-bx", x, 10, 2), Buy("r1-by", y, 2, 1)>>),
    Plan("r2", "c3", 1, <<Buy("r2-bx", x, 10, 2), Sell("r2-sx", x, 10, 1),
                          Sell("r2-sy", y, 2, 1)>>),
    Plan("r3", "c4", 2, <<Sell("r3-sx", x, 9, 2), Sell("r3-sy", y, 2, 1)>>) }
RivalRuns == {"r1", "r2", "r3"}
RivalChecksums == {"c1", "c2", "c3", "c4"}
RivalIds == {"r1-sy", "r1-bx", "r1-by", "r2-bx", "r2-sx", "r2-sy", "r3-sx", "r3-sy"}

-----------------------------------------------------------------------------
(* Three dates in sequence for one process: two of them have rival plans, the *)
(* market rises and falls, and lots of two dates are sold together.  On the    *)
(* second date y has no price; on the third, after r2, the sale that r5 ends   *)
(* with costs more than it brings and there is no cash left.                   *)
SerialDates == 1..3
SerialMarket ==
  1 :> OpenMarket(10, 8) @@
  2 :> [OpenMarket(14, 8) EXCEPT !.close = x :> 14] @@
  3 :> OpenMarket(6, 2)

SerialPlans ==
  { Plan("r1", "c1", 1, <<Sell("r1-sy", y, 8, 3), Buy("r1-bx", x, 10, 2)>>),
    Plan("r2", "c2", 1, <<Buy("r2-bx", x, 10, 1)>>),
    Plan("r3", "c3", 2, <<Sell("r3-sx", x, 14, 1), Buy("r3-bx", x, 14, 1)>>),
    Plan("r4", "c4", 3, <<Sell("r4-sx", x, 6, 2), Sell("r4-sy", y, 2, 2)>>),
    Plan("r5", "c5", 3, <<Buy("r5-bx", x, 6, 4), Sell("r5-sy", y, 2, 1)>>) }
SerialRuns == {"r1", "r2", "r3", "r4", "r5"}
SerialChecksums == {"c1", "c2", "c3", "c4", "c5"}
SerialIds == {"r1-sy", "r1-bx", "r2-bx", "r3-sx", "r3-bx", "r4-sx", "r4-sy", "r5-bx", "r5-sy"}
=============================================================================
