--------------------------- MODULE SnapshotResearch ---------------------------
(***************************************************************************)
(* The backtest of research/snapshot_runner.py on the bars of a point-in-   *)
(* time snapshot, as pure operators: lagged features, ranks and scores,     *)
(* the portfolio of each test day, its returns and costs.                   *)
(*                                                                          *)
(* Symbols are numbers in their alphabetical order.  Returns and ratios are *)
(* counted in thousandths; the amounts of a day in the account's currency,  *)
(* its cost in ten-thousandths of it.  Annualised figures are left out.     *)
(***************************************************************************)
EXTENDS Integers, FiniteSets, FiniteSetsExt, Functions

CONSTANTS
  Lags,                    \* the length of the rolling windows (5 in the code)
  MinHistory, MinUniverse, \* bars per symbol and symbols that are needed (20 and 3)
  TopK, Account, Lot,
  Commission, SellTax, Slippage, \* basis points
  TestStart, TestEnd

ASSUME ResearchAssumption ==
  /\ {Lags, TopK, Account, Lot} \subseteq Nat \ {0}
  /\ {MinHistory, MinUniverse, Commission, SellTax, Slippage, TestStart, TestEnd} \subseteq Nat
  /\ TestStart <= TestEnd

-----------------------------------------------------------------------------
BarsOf(rows, s) == {r \in rows : r.symbol = s}
SymbolsIn(rows) == {r.symbol : r \in rows}
BarsOn(rows, t) == {r \in rows : r.date = t}

(* The bar of a symbol that has n others between itself and its bar of day t: n = 0 *)
(* is the bar before.                                                               *)
Between(rows, r, t) == {x \in BarsOf(rows, r.symbol) : r.date < x.date /\ x.date < t}

Only(S) == CHOOSE r \in S : TRUE

(* Mutant: the window ends with the day itself. *)
Back_Unlagged(rows, s, t, n) ==
  Only({r \in BarsOf(rows, s) : r.date <= t /\ Cardinality(Between(rows, r, t + 1)) = n})

Back(rows, s, t, n) ==
  Only({r \in BarsOf(rows, s) : r.date < t /\ Cardinality(Between(rows, r, t)) = n})

(* The change of the close from one bar to another. *)
Change(from, to) == ((to.close - from.close) * 1000) \div from.close

LagReturn(rows, s, t, n) == Change(Back(rows, s, t, n), Back(rows, s, t, 0))

(* The variance of the last daily changes, times Lags * Lags: it ranks as they do. *)
Spread(rows, s, t) ==
  LET c == [n \in 1..Lags |-> Change(Back(rows, s, t, n), Back(rows, s, t, n - 1))]
      sum == SumFunctionOnSet(c, 1..Lags)
      squares == SumFunctionOnSet([n \in 1..Lags |-> c[n] * c[n]], 1..Lags)
  IN Lags * squares - sum * sum

LagVolume(rows, s, t) ==
  SumFunctionOnSet([n \in 1..Lags |-> Back(rows, s, t, n - 1).volume], 1..Lags)

VolumeRatio(rows, s, t) ==
  (1000 * Lags * Back(rows, s, t, 0).volume) \div LagVolume(rows, s, t)

(* The symbols of day t whose features are all there (dropna). *)
Featured(rows, t) ==
  {s \in SymbolsIn(BarsOn(rows, t)) :
     /\ Cardinality({r \in BarsOf(rows, s) : r.date < t}) > Lags
     /\ LagVolume(rows, s, t) > 0}

(* build_lagged_features: the cross-section of a day. *)
Features(rows, t) ==
  {[symbol |-> s, one |-> LagReturn(rows, s, t, 1), long |-> LagReturn(rows, s, t, Lags),
    spread |-> Spread(rows, s, t), ratio |-> VolumeRatio(rows, s, t)] : s \in Featured(rows, t)}

(* rank(method="first"): ties in the order of the symbols. *)
RankOf(all, feature, f) ==
  Cardinality({x \in all : \/ x[feature] < f[feature]
                           \/ x[feature] = f[feature] /\ x.symbol <= f.symbol})

(* Five times the score, times the size of the cross-section. *)
Scored(all) ==
  {[symbol |-> f.symbol,
    score |-> 5 * RankOf(all, "long", f) + 2 * RankOf(all, "one", f)
                - 2 * RankOf(all, "spread", f) + RankOf(all, "ratio", f)] : f \in all}

(* The first TopK symbols by score, best first, ties in the order of the symbols. *)
Selected(scored) ==
  {f.symbol : f \in {g \in scored :
     Cardinality({x \in scored : \/ x.score > g.score
                                 \/ x.score = g.score /\ x.symbol < g.symbol}) < TopK}}

(* Whole lots that an equal part of the account buys at the open. *)
Shares(open) == (Account \div (TopK * open * Lot)) * Lot

(* The portfolio of a test day, bought at its open. *)
Portfolio(rows, t) ==
  LET chosen == Selected(Scored(Features(rows, t)))
  IN {[date |-> t, symbol |-> r.symbol, shares |-> Shares(r.open),
       worth |-> Shares(r.open) * r.open, gain |-> Shares(r.open) * (r.close - r.open)] :
        r \in {q \in BarsOn(rows, t) : q.symbol \in chosen}}

TestDays(rows) ==
  {t \in {r.date : r \in rows} :
     TestStart <= t /\ t <= TestEnd /\ Featured(rows, t) # {}}

Portfolios(rows) == UNION {Portfolio(rows, t) : t \in TestDays(rows)}

(* The rows of predictions.csv: every score of a test day, selected or not. *)
Predictions(rows) ==
  UNION {{[date |-> t, symbol |-> f.symbol, score |-> f.score] :
            f \in Scored(Features(rows, t))} : t \in TestDays(rows)}

-----------------------------------------------------------------------------
(* The accounts of the run, from its portfolios. *)
Held(book, t) == {h \in book : h.date = t}
HeldDays(book) == {h.date : h \in book}

(* Mutant: what is no longer selected is not sold. *)
Before_Kept(book, t) ==
  LET days == {x \in HeldDays(book) : x < t}
  IN IF days = {} THEN {}
     ELSE {h \in Held(book, Max(days)) : \E x \in Held(book, t) : x.symbol = h.symbol}

(* The portfolio of the test day before, as it was worth then. *)
Before(book, t) ==
  LET days == {x \in HeldDays(book) : x < t}
  IN IF days = {} THEN {} ELSE Held(book, Max(days))

Worth(held) == SumFunctionOnSet([h \in held |-> h.worth], held)
WorthOf(held, s) == Worth({h \in held : h.symbol = s})

(* What is bought to come from one portfolio to another, over what was held of each *)
(* symbol; the other way around it is what is sold.                                 *)
Bought(from, to) ==
  LET symbols == {h.symbol : h \in from \cup to}
      more == [s \in symbols |-> WorthOf(to, s) - WorthOf(from, s)]
  IN SumFunctionOnSet([s \in symbols |-> IF more[s] > 0 THEN more[s] ELSE 0], symbols)

Cost(buy, sell) == (buy + sell) * (Commission + Slippage) + sell * SellTax

(* One row of daily_returns.csv. *)
DayRow(book, t) ==
  LET buy == Bought(Before(book, t), Held(book, t))
      sell == Bought(Held(book, t), Before(book, t))
  IN [date |-> t, gross |-> SumFunctionOnSet([h \in Held(book, t) |-> h.gain], Held(book, t)),
      buy |-> buy, sell |-> sell, cost |-> Cost(buy, sell)]

(* What makes run raise, before and in the loop over the test days. *)
Unusable(rows, asOf) ==
  \/ TestEnd > asOf
  \/ Cardinality(SymbolsIn(rows)) < MinUniverse \/ Cardinality(SymbolsIn(rows)) < TopK
  \/ \E s \in SymbolsIn(rows) : Cardinality(BarsOf(rows, s)) < MinHistory
  \/ TestDays(rows) = {}
  \/ \E t \in TestDays(rows) : Cardinality(Featured(rows, t)) < TopK

(* daily_returns.csv and the target portfolio, the one of the last test day. *)
DayRows(book) == {DayRow(book, t) : t \in HeldDays(book)}
Target(book) == Held(book, Max(HeldDays(book)))

(* The result of a run. *)
Research(rows) ==
  [predictions |-> Predictions(rows), days |-> DayRows(Portfolios(rows)),
   target |-> Target(Portfolios(rows))]

-----------------------------------------------------------------------------
(* The bars as they could have been known before the open of day t, but for the open *)
(* itself: nothing later, and the day's own close, volume and such changed.          *)
Masked(rows, t) ==
  {r \in rows : r.date < t}
  \cup {[r EXCEPT !.close = r.symbol * r.open, !.volume = 7] : r \in BarsOn(rows, t)}

(* The portfolio of a test day is chosen on what happened before its open: changing *)
(* the day itself and leaving out what follows changes nothing (the claim of        *)
(* build_lagged_features, kept through ranks, ties and selection).                  *)
LaggedOnly(rows) ==
  \A t \in TestDays(rows) :
    Selected(Scored(Features(Masked(rows, t), t))) = {h.symbol : h \in Portfolio(rows, t)}

(* The portfolios cost no more than the account, and what is bought and sold on a day *)
(* leads from the portfolio before, all of it, to the one of the day.                 *)
Balanced(book, days) ==
  \A day \in days :
    LET earlier == {h \in book : h.date < day.date}
        latest == {h \in earlier : \A x \in earlier : x.date <= h.date}
    IN /\ Worth(Held(book, day.date)) <= Account
       /\ Worth(Held(book, day.date)) = Worth(latest) + day.buy - day.sell
=============================================================================
