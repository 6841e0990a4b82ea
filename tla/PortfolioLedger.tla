--------------------------- MODULE PortfolioLedger ---------------------------
(***************************************************************************)
(* The paper account's SQLite ledger, execution/ledger.py: its tables as    *)
(* variables and one operator per transaction.  A transaction that writes   *)
(* is one step: it runs under BEGIN IMMEDIATE, which takes the write lock,  *)
(* or is a single statement.  Reads the code makes outside the transaction  *)
(* that writes are separate steps of the module that drives the ledger.     *)
(*                                                                          *)
(* One account: every statement of the code filters on account_id.  The     *)
(* trades and fees rows of an order are written by the transaction that     *)
(* writes its FILLED orders row, so the model keeps them in that row.       *)
(***************************************************************************)
EXTENDS TradingRules, Sequences, FiniteSets, FiniteSetsExt, Functions

CONSTANTS
  Plans,         \* order plans: [run, checksum, date, orders]
  Runs,          \* run ids
  Checksums,     \* plan checksums
  OrderIds,      \* client order ids
  InitialCash,   \* PaperAccountSettings.initial_cash
  SeedLots,      \* lots booked by seed_lot before trading starts
  Absent         \* "no such row"

VARIABLES
  cash,       \* accounts.cash, Absent before the account exists
  lots,       \* position_lots in lot_id order
  orders,     \* orders (with trades and fees) by client_order_id
  sessions,   \* execution_sessions by trade date
  nav         \* nav: a set of rows, at most one a date

ledgerVars == <<cash, lots, orders, sessions, nav>>

-----------------------------------------------------------------------------
Order == [id: OrderIds, symbol: Symbols, side: Sides,
          price: Nat \ {0}, volume: Nat \ {0}]

Lot == [symbol: Symbols, acquired: Nat, volume: Nat \ {0}, remaining: Nat]

OrderRow == [plan: Plans, order: Order, status: {"FILLED", "UNFILLED"}]

Session == [plan: Plans, status: {"STARTED", "COMPLETED"}]

NavRow == [date: Dates, cash: Nat, market: Nat, previous: Nat, peak: Nat]

ASSUME PlansAssumption ==
  Plans \subseteq [run: Runs, checksum: Checksums, date: Dates, orders: Seq(Order)]

(* client_order_id is the run id followed by a hash of the order's content, so *)
(* an id names its run and its content.                                        *)
ASSUME OrderIdsAssumption ==
  \A p, q \in Plans : \A i \in DOMAIN p.orders, j \in DOMAIN q.orders :
    p.orders[i].id = q.orders[j].id =>
      p.run = q.run /\ p.orders[i] = q.orders[j]

ASSUME AccountAssumption ==
  /\ InitialCash \in Nat \ {0}
  /\ SeedLots \in Seq(Lot)
  /\ \A i \in DOMAIN SeedLots : SeedLots[i].remaining = SeedLots[i].volume

ASSUME AbsentAssumption ==
  /\ Absent \notin Nat
  /\ Absent \notin OrderRow
  /\ Absent \notin Session
  /\ Absent \notin Plans

-----------------------------------------------------------------------------
BooksTypeOK ==
  /\ cash \in Nat \cup {Absent}
  /\ lots \in Seq(Lot)
  /\ orders \in [OrderIds -> OrderRow \cup {Absent}]
  /\ sessions \in [Dates -> Session \cup {Absent}]

LedgerInit ==
  /\ cash = Absent
  /\ lots = SeedLots
  /\ orders = [id \in OrderIds |-> Absent]
  /\ sessions = [d \in Dates |-> Absent]
  /\ nav = {}

-----------------------------------------------------------------------------
(* Money an order moves, at the slipped price. *)
Price(o) == ExecutionPrice(o.side, o.price)
TradeValue(o) == Price(o) * o.volume
Fee(o) == EstimateFee(o.side, TradeValue(o))
Required(o) == TradeValue(o) + Fee(o)
Proceeds(o) == TradeValue(o) - Fee(o)

(* Mutant: the day's own purchases count as available. *)
AvailableLots_SameDay(symbol, d) ==
  {i \in DOMAIN lots : /\ lots[i].symbol = symbol
                       /\ lots[i].acquired <= d
                       /\ lots[i].remaining > 0}

(* The lots a sale on date d may draw on: T+1 keeps the day's own purchases out. *)
AvailableLots(symbol, d) ==
  {i \in DOMAIN lots : /\ lots[i].symbol = symbol
                       /\ lots[i].acquired < d
                       /\ lots[i].remaining > 0}

SharesIn(S) == SumFunctionOnSet([i \in DOMAIN lots |-> lots[i].remaining], S)

(* ORDER BY acquired_date, lot_id. *)
Ahead(i, j) ==
  \/ lots[i].acquired < lots[j].acquired
  \/ lots[i].acquired = lots[j].acquired /\ i < j

(* Mutant: lots are drawn in any order. *)
DrawnFIFO_AnyLot(taken, symbol, d, volume) ==
  LET avail == AvailableLots(symbol, d)
  IN  /\ \A i \in DOMAIN lots : taken[i] <= lots[i].remaining
      /\ \A i \in DOMAIN lots \ avail : taken[i] = 0
      /\ SumFunctionOnSet(taken, avail) = volume

(* What a sale of volume shares draws from each lot, oldest lot first. *)
DrawnFIFO(taken, symbol, d, volume) ==
  LET avail == AvailableLots(symbol, d)
  IN  /\ \A i \in DOMAIN lots : taken[i] <= lots[i].remaining
      /\ \A i \in DOMAIN lots \ avail : taken[i] = 0
      /\ SumFunctionOnSet(taken, avail) = volume
      /\ \A i, j \in avail : Ahead(i, j) /\ taken[j] > 0
                               => taken[i] = lots[i].remaining

-----------------------------------------------------------------------------
(* Mutant: INSERT OR REPLACE resets the cash of an existing account. *)
EnsureAccount_Replaces ==
  /\ cash' = InitialCash
  /\ UNCHANGED <<lots, orders, sessions, nav>>

(* INSERT OR IGNORE: opening an account that exists leaves its cash alone. *)
EnsureAccount ==
  /\ cash' = IF cash = Absent THEN InitialCash ELSE cash
  /\ UNCHANGED <<lots, orders, sessions, nav>>

(* Mutant: the calendar order is not checked. *)
Overtaken_Never(d) == FALSE

(* validate_trade_date_ordering: a later day already has a session. *)
Overtaken(d) == \E e \in Dates : e > d /\ sessions[e] # Absent

(* Mutant: the row found is not compared with the caller's run and plan. *)
SessionRefused_NoCompare(plan) == cash = Absent

(* Mutant: any row found refuses, the caller's own included. *)
SessionRefused_AnyRow(plan) == cash = Absent \/ sessions[plan.date] # Absent

(* The transaction of begin_execution_session: an equal row is reused, a row of *)
(* another run or plan on that date refuses, and so does the UNIQUE run_id.     *)
SessionRefused(plan) ==
  \/ cash = Absent
  \/ sessions[plan.date] # Absent /\ sessions[plan.date].plan # plan
  \/ /\ sessions[plan.date] = Absent
     /\ \E d \in Dates : sessions[d] # Absent /\ sessions[d].plan.run = plan.run

BeginSession(plan) ==
  /\ ~SessionRefused(plan)
  /\ sessions' = IF sessions[plan.date] = Absent
                 THEN [sessions EXCEPT ![plan.date] =
                         [plan |-> plan, status |-> "STARTED"]]
                 ELSE sessions
  /\ UNCHANGED <<cash, lots, orders, nav>>

CompleteSession(plan) ==
  /\ sessions[plan.date] # Absent /\ sessions[plan.date].plan = plan
  /\ sessions' = [sessions EXCEPT ![plan.date].status = "COMPLETED"]
  /\ UNCHANGED <<cash, lots, orders, nav>>

-----------------------------------------------------------------------------
(* Mutant: the client_order_id is not looked up. *)
Recorded_Never(o) == FALSE

Recorded(o) == orders[o.id] # Absent

CanTrade(plan, o) == Tradable(Market[plan.date], o.symbol, o.side, Price(o))

Covered(plan, o) ==
  IF o.side = "BUY"
  THEN cash >= Required(o)
  ELSE SharesIn(AvailableLots(o.symbol, plan.date)) >= o.volume

Write(plan, o, status) ==
  orders' = [orders EXCEPT ![o.id] = [plan |-> plan, order |-> o, status |-> status]]

(* A known client_order_id is answered from its row: nothing is written. *)
AnswerDuplicate(o) ==
  /\ Recorded(o)
  /\ UNCHANGED ledgerVars

RecordUnfilled(plan, o) ==
  /\ ~Recorded(o)
  /\ ~(CanTrade(plan, o) /\ Covered(plan, o))
  /\ Write(plan, o, "UNFILLED")
  /\ UNCHANGED <<cash, lots, sessions, nav>>

FillBuy(plan, o) ==
  /\ o.side = "BUY"
  /\ ~Recorded(o) /\ CanTrade(plan, o) /\ Covered(plan, o)
  /\ cash' = cash - Required(o)
  /\ lots' = Append(lots, [symbol |-> o.symbol, acquired |-> plan.date,
                           volume |-> o.volume, remaining |-> o.volume])
  /\ Write(plan, o, "FILLED")
  /\ UNCHANGED <<sessions, nav>>

(* accounts.cash carries CHECK (cash >= 0): when the fee exceeds both the value *)
(* sold and the cash, the UPDATE raises and the transaction rolls back.         *)
SaleBreaksCheck(plan, o) ==
  /\ o.side = "SELL"
  /\ ~Recorded(o) /\ CanTrade(plan, o) /\ Covered(plan, o)
  /\ cash + Proceeds(o) < 0

(* Mutant: the cash column carries no CHECK constraint. *)
FillSell_Unchecked(plan, o) ==
  /\ o.side = "SELL"
  /\ ~Recorded(o) /\ CanTrade(plan, o) /\ Covered(plan, o)
  /\ cash' = cash + Proceeds(o)
  /\ \E taken \in [DOMAIN lots -> 0..o.volume] :
       /\ DrawnFIFO(taken, o.symbol, plan.date, o.volume)
       /\ lots' = [i \in DOMAIN lots |->
                     [lots[i] EXCEPT !.remaining = @ - taken[i]]]
  /\ Write(plan, o, "FILLED")
  /\ UNCHANGED <<sessions, nav>>

FillSell(plan, o) ==
  /\ o.side = "SELL"
  /\ ~Recorded(o) /\ CanTrade(plan, o) /\ Covered(plan, o)
  /\ cash + Proceeds(o) >= 0
  /\ cash' = cash + Proceeds(o)
  /\ \E taken \in [DOMAIN lots -> 0..o.volume] :
       /\ DrawnFIFO(taken, o.symbol, plan.date, o.volume)
       /\ lots' = [i \in DOMAIN lots |->
                     [lots[i] EXCEPT !.remaining = @ - taken[i]]]
  /\ Write(plan, o, "FILLED")
  /\ UNCHANGED <<sessions, nav>>

ExecuteOrder(plan, o) ==
  \/ AnswerDuplicate(o)
  \/ RecordUnfilled(plan, o)
  \/ FillBuy(plan, o)
  \/ FillSell(plan, o)

-----------------------------------------------------------------------------
Held == {i \in DOMAIN lots : lots[i].remaining > 0}

(* portfolio_snapshot raises KeyError on a held symbol without a price. *)
Priced(d) == \A i \in Held : lots[i].symbol \in DOMAIN Market[d].close

MarketValue(d) ==
  SumFunctionOnSet([i \in Held |-> lots[i].remaining * Market[d].close[lots[i].symbol]],
                   Held)

Equity(row) == row.cash + row.market

Days == {row.date : row \in nav}

(* Mutant: the previous NAV may be the day's own. *)
Earlier_OwnDay(d) == {row \in nav : row.date <= d}

Earlier(d) == {row \in nav : row.date < d}

Latest(rows) == CHOOSE row \in rows : \A other \in rows : other.date <= row.date

(* The row record_nav computes: daily_return is its equity over previous (0 for *)
(* none), drawdown its equity over peak, the maximum over every recorded NAV.   *)
NavFor(d, c, m) ==
  [date |-> d, cash |-> c, market |-> m,
   previous |-> IF Earlier(d) = {} THEN 0 ELSE Equity(Latest(Earlier(d))),
   peak |-> Max({c + m} \cup {Equity(row) : row \in nav})]

(* The day has a row already: it is the row computed now, or the call raises. *)
NavKept(d, c, m) == NavFor(d, c, m) \in nav
NavRefused(d, c, m) == d \in Days /\ ~NavKept(d, c, m)

(* The primary key (account_id, trade_date) refuses a second row for a date. *)
InsertNav(row) ==
  /\ row.date \notin Days
  /\ nav' = nav \cup {row}
  /\ UNCHANGED <<cash, lots, orders, sessions>>
=============================================================================
