--------------------------- MODULE PaperExecution ---------------------------
(***************************************************************************)
(* LedgerPaperExecutor.execute (execution/paper.py) run by a set of        *)
(* processes against one portfolio ledger.  A process takes a plan that     *)
(* passed the checks made before the ledger is touched (kill switch,        *)
(* checksum, data binding, approval: module DailyWorkflow), and then makes  *)
(* the executor's ledger calls one by one.  Between any two of them another *)
(* process may run, or the process may die: what it committed stays, and a  *)
(* later execution of the plan starts again from the first call.            *)
(***************************************************************************)
EXTENDS PortfolioLedger

CONSTANTS
  Procs,        \* processes that may execute a plan
  MaxCrashes    \* bound on process deaths

VARIABLES
  pc,       \* the next ledger call of a process
  job,      \* the plan it executes
  cursor,   \* position of its next order
  draft,    \* what it has read for the NAV: [cash, market], then the row
  crashes   \* process deaths so far

procVars == <<pc, job, cursor, draft, crashes>>
vars == <<ledgerVars, procVars>>

Stages == {"idle", "validating", "opening", "trading", "pricing",
           "recording", "inserting", "closing"}

ASSUME MaxCrashesAssumption == MaxCrashes \in Nat

ProcsTypeOK ==
  /\ pc \in [Procs -> Stages]
  /\ job \in [Procs -> Plans \cup {Absent}]
  /\ cursor \in [Procs -> Nat \ {0}]
  /\ crashes \in 0..MaxCrashes
  /\ \A p \in Procs : pc[p] # "idle" => job[p] \in Plans

Init ==
  /\ LedgerInit
  /\ pc = [p \in Procs |-> "idle"]
  /\ job = [p \in Procs |-> Absent]
  /\ cursor = [p \in Procs |-> 1]
  /\ draft = [p \in Procs |-> Absent]
  /\ crashes = 0

-----------------------------------------------------------------------------
Goto(p, stage) == pc' = [pc EXCEPT ![p] = stage]

(* The call returns or raises, or the process dies: its locals are gone. *)
Leave(p) ==
  /\ pc' = [pc EXCEPT ![p] = "idle"]
  /\ job' = [job EXCEPT ![p] = Absent]
  /\ cursor' = [cursor EXCEPT ![p] = 1]
  /\ draft' = [draft EXCEPT ![p] = Absent]

(* The planner opens the account before it builds a plan. *)
OpenAccount == EnsureAccount /\ UNCHANGED procVars

Submit(p, plan) ==
  /\ pc[p] = "idle"
  /\ Goto(p, "validating")
  /\ job' = [job EXCEPT ![p] = plan]
  /\ UNCHANGED <<ledgerVars, cursor, draft, crashes>>

(* validate_trade_date_ordering reads on a connection of its own. *)
Validate(p) ==
  /\ pc[p] = "validating"
  /\ ~Overtaken(job[p].date)
  /\ Goto(p, "opening")
  /\ UNCHANGED <<ledgerVars, job, cursor, draft, crashes>>

RefuseOvertaken(p) ==
  /\ pc[p] = "validating"
  /\ Overtaken(job[p].date)
  /\ Leave(p)
  /\ UNCHANGED <<ledgerVars, crashes>>

Begin(p) ==
  /\ pc[p] = "opening"
  /\ BeginSession(job[p])
  /\ Goto(p, "trading")
  /\ UNCHANGED <<job, cursor, draft, crashes>>

RefuseSession(p) ==
  /\ pc[p] = "opening"
  /\ SessionRefused(job[p])
  /\ Leave(p)
  /\ UNCHANGED <<ledgerVars, crashes>>

NextOrder(p) == job[p].orders[cursor[p]]

Trade(p) ==
  /\ pc[p] = "trading"
  /\ cursor[p] <= Len(job[p].orders)
  /\ ExecuteOrder(job[p], NextOrder(p))
  /\ cursor' = [cursor EXCEPT ![p] = @ + 1]
  /\ UNCHANGED <<pc, job, draft, crashes>>

RaiseInTrade(p) ==
  /\ pc[p] = "trading"
  /\ cursor[p] <= Len(job[p].orders)
  /\ SaleBreaksCheck(job[p], NextOrder(p))
  /\ Leave(p)
  /\ UNCHANGED <<ledgerVars, crashes>>

(* Mutant: the loop stops one order short. *)
ReadCash_OneShort(p) ==
  /\ pc[p] = "trading"
  /\ cursor[p] >= Len(job[p].orders)
  /\ draft' = [draft EXCEPT ![p] = [cash |-> cash, market |-> 0]]
  /\ Goto(p, "pricing")
  /\ UNCHANGED <<ledgerVars, job, cursor, crashes>>

(* record_nav's snapshot reads the cash on one connection... *)
ReadCash(p) ==
  /\ pc[p] = "trading"
  /\ cursor[p] > Len(job[p].orders)
  /\ draft' = [draft EXCEPT ![p] = [cash |-> cash, market |-> 0]]
  /\ Goto(p, "pricing")
  /\ UNCHANGED <<ledgerVars, job, cursor, crashes>>

(* ... and the lots on another. *)
ReadLots(p) ==
  /\ pc[p] = "pricing"
  /\ Priced(job[p].date)
  /\ draft' = [draft EXCEPT ![p].market = MarketValue(job[p].date)]
  /\ Goto(p, "recording")
  /\ UNCHANGED <<ledgerVars, job, cursor, crashes>>

RaiseUnpriced(p) ==
  /\ pc[p] = "pricing"
  /\ ~Priced(job[p].date)
  /\ Leave(p)
  /\ UNCHANGED <<ledgerVars, crashes>>

(* record_nav computes the row and looks for the day's own on a connection that *)
(* takes the write lock only at the INSERT.                                     *)
ComputeNav(p) ==
  /\ pc[p] = "recording"
  /\ job[p].date \notin Days
  /\ draft' = [draft EXCEPT ![p] = NavFor(job[p].date, @.cash, @.market)]
  /\ Goto(p, "inserting")
  /\ UNCHANGED <<ledgerVars, job, cursor, crashes>>

KeepNav(p) ==
  /\ pc[p] = "recording"
  /\ NavKept(job[p].date, draft[p].cash, draft[p].market)
  /\ Goto(p, "closing")
  /\ UNCHANGED <<ledgerVars, job, cursor, draft, crashes>>

RefuseNav(p) ==
  /\ pc[p] = "recording"
  /\ NavRefused(job[p].date, draft[p].cash, draft[p].market)
  /\ Leave(p)
  /\ UNCHANGED <<ledgerVars, crashes>>

StoreNav(p) ==
  /\ pc[p] = "inserting"
  /\ InsertNav(draft[p])
  /\ Goto(p, "closing")
  /\ UNCHANGED <<job, cursor, draft, crashes>>

(* Another process stored the day's row meanwhile: IntegrityError. *)
RaiseSecondNav(p) ==
  /\ pc[p] = "inserting"
  /\ draft[p].date \in Days
  /\ Leave(p)
  /\ UNCHANGED <<ledgerVars, crashes>>

Finish(p) ==
  /\ pc[p] = "closing"
  /\ CompleteSession(job[p])
  /\ Leave(p)
  /\ UNCHANGED crashes

Crash(p) ==
  /\ pc[p] # "idle"
  /\ crashes < MaxCrashes
  /\ crashes' = crashes + 1
  /\ Leave(p)
  /\ UNCHANGED ledgerVars

(* The calls of one execution. *)
Step(p) ==
  \/ Validate(p) \/ RefuseOvertaken(p)
  \/ Begin(p) \/ RefuseSession(p)
  \/ Trade(p) \/ RaiseInTrade(p)
  \/ ReadCash(p) \/ ReadLots(p) \/ RaiseUnpriced(p)
  \/ ComputeNav(p) \/ KeepNav(p) \/ RefuseNav(p)
  \/ StoreNav(p) \/ RaiseSecondNav(p)
  \/ Finish(p)

Next ==
  \/ OpenAccount
  \/ \E p \in Procs :
       \/ \E plan \in Plans : Submit(p, plan)
       \/ Step(p)
       \/ Crash(p)

Spec == Init /\ [][Next]_vars

-----------------------------------------------------------------------------
TypeOK ==
  /\ BooksTypeOK
  /\ nav \subseteq NavRow
  /\ ProcsTypeOK

(* Every order of a trade date was recorded under the plan that owns the       *)
(* date's session, however many processes and plans competed for the date.     *)
OnePlanPerDay ==
  \A id \in OrderIds : orders[id] # Absent =>
    LET row == orders[id]
    IN  /\ sessions[row.plan.date] # Absent
        /\ sessions[row.plan.date].plan = row.plan

FilledOrders == {id \in OrderIds : orders[id] # Absent /\ orders[id].status = "FILLED"}

CashMoved ==
  [id \in FilledOrders |-> IF orders[id].order.side = "BUY"
                           THEN -Required(orders[id].order)
                           ELSE Proceeds(orders[id].order)]

FilledShares(symbol, side, days) ==
  SumFunctionOnSet([id \in FilledOrders |-> orders[id].order.volume],
                   {id \in FilledOrders : /\ orders[id].order.symbol = symbol
                                          /\ orders[id].order.side = side
                                          /\ orders[id].plan.date \in days})

SeededShares(symbol, days) ==
  SumFunctionOnSet([i \in DOMAIN SeedLots |-> SeedLots[i].volume],
                   {i \in DOMAIN SeedLots : /\ SeedLots[i].symbol = symbol
                                            /\ SeedLots[i].acquired \in days})

(* Cash and holdings are exactly what the filled orders, each counted once, make *)
(* of the initial cash and the seeded lots: a retry, a crash or a rival process  *)
(* never applies a fill twice and never half-applies one.                        *)
BooksBalance ==
  /\ cash # Absent => cash = InitialCash + SumFunctionOnSet(CashMoved, FilledOrders)
  /\ \A s \in Symbols :
       SharesIn({i \in DOMAIN lots : lots[i].symbol = s})
         = SeededShares(s, Nat) + FilledShares(s, "BUY", Nat) - FilledShares(s, "SELL", Nat)

(* T+1 over the whole history: by any date, no more shares of a symbol were sold *)
(* than had been acquired on earlier dates.                                      *)
NoSameDaySale ==
  \A s \in Symbols, d \in Dates :
    FilledShares(s, "SELL", 1..d)
      <= SeededShares(s, 0..(d - 1)) + FilledShares(s, "BUY", 0..(d - 1))

(* The ledger and its executor implement the settlement the workflow relies on. *)
Settles ==
  INSTANCE DailySettlement WITH
    owner <- [d \in Dates |-> IF sessions[d] = Absent THEN Absent ELSE sessions[d].plan],
    applied <- {id \in OrderIds : orders[id] # Absent},
    valued <- Days,
    closed <- {d \in Dates : sessions[d] # Absent /\ sessions[d].status = "COMPLETED"}

SettlesDaily == Settles!Settlement

-----------------------------------------------------------------------------
(* What holds when executions do not overlap (one process).                    *)

(* Orders are recorded in calendar order: once a later date has a session, no *)
(* order of an earlier date is recorded any more.                             *)
DaysInOrder ==
  [][\A id \in OrderIds : orders[id] = Absent /\ orders'[id] # Absent =>
       \A d \in Dates : sessions[d] # Absent => d <= orders'[id].plan.date]_vars

(* Sales consume the oldest lots: while a lot has shares left, no later lot of *)
(* its symbol has been drawn on.  A rival that passed the calendar check before *)
(* a later date was opened can still book an older lot after a later one was   *)
(* drawn on, so this too needs executions that do not overlap.                 *)
OldestLotFirst ==
  \A i, j \in DOMAIN lots :
    /\ lots[i].symbol = lots[j].symbol
    /\ lots[i].remaining > 0
    /\ \/ lots[i].acquired < lots[j].acquired
       \/ lots[i].acquired = lots[j].acquired /\ i < j
    => lots[j].remaining = lots[j].volume

(* When the latest date is complete its NAV is the value of the books as they *)
(* stand: nothing moved between valuing the day and closing it.               *)
NavIsClosingBalance ==
  \A d \in Dates :
    /\ sessions[d] # Absent /\ sessions[d].status = "COMPLETED"
    /\ ~Overtaken(d)
    => \E row \in nav : row.date = d /\ row.cash = cash /\ row.market = MarketValue(d)

(* Each stored return and drawdown is measured against the NAV series up to its *)
(* own date: the previous recorded equity and the running maximum.              *)
NavSeriesSound ==
  \A row \in nav :
    /\ row.previous = IF Earlier(row.date) = {} THEN 0
                      ELSE Equity(Latest(Earlier(row.date)))
    /\ row.peak = Max({Equity(other) : other \in Earlier(row.date) \cup {row}})

(* An execution that is repeated after its NAV was stored computes the stored *)
(* NAV again, so the repeat is never refused.                                 *)
NavRetryAgrees ==
  \A p \in Procs : pc[p] = "recording" =>
    ~NavRefused(job[p].date, draft[p].cash, draft[p].market)
=============================================================================
