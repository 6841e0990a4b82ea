---------------------------- MODULE TradingDays ----------------------------
(***************************************************************************)
(* The chain plan - assessment - execution over several trading days.       *)
(* PortfolioOrderPlanner.build reads the ledger and lays out the orders,    *)
(* PlanRiskEngine.evaluate judges and cuts them, and an approved plan is    *)
(* run by the executor of module PaperExecution, which may die on the way.  *)
(*                                                                          *)
(* Commands run one at a time, as docs/known_limitations.md asks, but not   *)
(* in a fixed order: a run may be planned, wait for its approval while      *)
(* another run is executed, and be executed on books it never saw.          *)
(***************************************************************************)
EXTENDS PlanRiskEngine

CONSTANTS
  Runs, RunDate,      \* run ids, and the trade date of each
  Picks,              \* the selections the research of a run may make
  InitialCash, Absent, Procs, MaxCrashes

VARIABLES
  cash, lots, orders, sessions, nav,      \* the ledger (PortfolioLedger)
  pc, job, cursor, draft, crashes,        \* the executor (PaperExecution)
  sheet,        \* the locals of the planner at work
  plan,         \* order_plan.json of a run, with the account it was built on
  assessment    \* risk_assessment.json of a run

execVars == <<cash, lots, orders, sessions, nav, pc, job, cursor, draft, crashes>>
vars == <<execVars, sheet, plan, assessment>>

ASSUME RunsAssumption ==
  /\ RunDate \in [Runs -> Dates]
  /\ Picks \in [Runs -> SUBSET ((SUBSET Symbols) \ {{}})]
  /\ \A r \in Runs : \A picks \in Picks[r] : IsFiniteSet(picks)
  /\ InitialCash \in Nat \ {0}
  /\ Absent \notin Nat

Order == [id: OrderIds, symbol: Symbols, side: Sides,
          price: Nat \ {0}, volume: Nat \ {0}]

(* A plan's checksum is a hash of its content, so the content stands for it; and *)
(* an order's id is made of the plan's run and the order's content.              *)
AllPlans ==
  {p \in [run: Runs, checksum: Seq(OrderIds), date: Dates, orders: Seq(Order)] :
     \A i \in DOMAIN p.orders :
       LET o == p.orders[i]
       IN  o = PlannedOrder(p.run, o.symbol, o.side, o.price, o.volume)}

Exec == INSTANCE PaperExecution WITH
  Plans <- AllPlans, Checksums <- Seq(OrderIds), SeedLots <- << >>

(* What the plan's ledger held when it was built, for the properties. *)
Seen == [orders: SUBSET OrderIds, days: SUBSET Dates]

Sheet == [run: Runs, account: Account, seen: Seen, sells: SUBSET Symbols,
          buys: SUBSET Symbols, picks: SUBSET Symbols, cash: Int, orders: Seq(Order)]

OrderPlan == [order: AllPlans, account: Account, seen: Seen, cash: Int]

Assessment == [decision: {"APPROVE", "ADJUST", "REJECT"}, plan: AllPlans]

ASSUME AbsentAssumption ==
  /\ Absent \notin Exec!OrderRow /\ Absent \notin Exec!Session
  /\ Absent \notin AllPlans /\ Absent \notin Sheet
  /\ Absent \notin OrderPlan /\ Absent \notin Assessment

Init ==
  /\ Exec!Init
  /\ sheet = Absent
  /\ plan = [r \in Runs |-> Absent]
  /\ assessment = [r \in Runs |-> Absent]

-----------------------------------------------------------------------------
Quiet == sheet = Absent /\ \A p \in Procs : pc[p] = "idle"

MarketOf(r) == Market[RunDate[r]]

(* portfolio_snapshot for the run's date. *)
Snapshot(r, money) ==
  [cash |-> money,
   equity |-> money + Exec!MarketValue(RunDate[r]),
   held |-> [s \in Symbols |-> Exec!SharesIn({i \in DOMAIN lots : lots[i].symbol = s})],
   available |-> [s \in Symbols |-> Exec!SharesIn(Exec!AvailableLots(s, RunDate[r]))]]

CanPlan(r, picks) ==
  /\ ~Exec!Overtaken(RunDate[r])
  /\ Exec!Priced(RunDate[r])
  /\ picks \subseteq DOMAIN MarketOf(r).close

BeginPlan(r, picks) ==
  /\ Quiet
  /\ plan[r] = Absent
  /\ CanPlan(r, picks)
  /\ Exec!EnsureAccount
  /\ LET account == Snapshot(r, cash')
     IN  sheet' = [run |-> r, account |-> account, picks |-> picks,
                   seen |-> [orders |-> {id \in OrderIds : orders[id] # Absent},
                             days |-> Exec!Days],
                   sells |-> ToSell(account, MarketOf(r), picks),
                   buys |-> ToBuy(account, MarketOf(r), picks),
                   cash |-> cash', orders |-> << >>]
  /\ UNCHANGED <<pc, job, cursor, draft, crashes, plan, assessment>>

(* A refused date and an unpriced symbol raise after the account is opened. *)
RaiseInPlan(r, picks) ==
  /\ Quiet
  /\ plan[r] = Absent
  /\ ~CanPlan(r, picks)
  /\ Exec!EnsureAccount
  /\ UNCHANGED <<pc, job, cursor, draft, crashes, sheet, plan, assessment>>

Close(r) == MarketOf(r).close

Planned(side, s, volume) ==
  PlannedOrder(sheet.run, s, side, Close(sheet.run)[s], volume)

(* One turn of the sells loop, in the order of the symbols. *)
PlanSell ==
  /\ sheet # Absent /\ sheet.sells # {}
  /\ LET s == First(sheet.sells)
         volume == SellVolume(sheet.account, MarketOf(sheet.run), sheet.picks, s)
         o == Planned("SELL", s, volume)
     IN  IF volume \in Nat \ {0} /\ CanOrder(MarketOf(sheet.run), s, "SELL")
         THEN sheet' = [sheet EXCEPT !.sells = @ \ {s}, !.cash = @ + CashDelta(o),
                                     !.orders = Append(@, o)]
         ELSE sheet' = [sheet EXCEPT !.sells = @ \ {s}]
  /\ UNCHANGED <<execVars, plan, assessment>>

Wanted(s) ==
  Desired(sheet.account, MarketOf(sheet.run), sheet.picks, s) - sheet.account.held[s]

(* One turn of the buys loop: later symbols get what the earlier ones left. *)
PlanBuy ==
  /\ sheet # Absent /\ sheet.sells = {} /\ sheet.buys # {}
  /\ LET s == First(sheet.buys)
     IN  \E volume \in 0..Wanted(s) :
           LET o == Planned("BUY", s, volume)
           IN  /\ IF CanOrder(MarketOf(sheet.run), s, "BUY")
                  THEN IsAffordable(volume, Wanted(s), Close(sheet.run)[s], sheet.cash)
                  ELSE volume = 0
               /\ sheet' = IF volume \in Nat \ {0}
                           THEN [sheet EXCEPT !.buys = @ \ {s}, !.cash = @ + CashDelta(o),
                                              !.orders = Append(@, o)]
                           ELSE [sheet EXCEPT !.buys = @ \ {s}]
  /\ UNCHANGED <<execVars, plan, assessment>>

WithOrders(r, list) ==
  [run |-> r, checksum |-> [i \in DOMAIN list |-> list[i].id], date |-> RunDate[r],
   orders |-> list]

StorePlan ==
  /\ sheet # Absent /\ sheet.sells = {} /\ sheet.buys = {}
  /\ plan' = [plan EXCEPT ![sheet.run] =
                [order |-> WithOrders(sheet.run, sheet.orders),
                 account |-> sheet.account, seen |-> sheet.seen, cash |-> sheet.cash]]
  /\ sheet' = Absent
  /\ UNCHANGED <<execVars, assessment>>

(* The planner's process dies: it has written nothing but the account. *)
LosePlan ==
  /\ sheet # Absent
  /\ crashes < MaxCrashes
  /\ crashes' = crashes + 1
  /\ sheet' = Absent
  /\ UNCHANGED <<cash, lots, orders, sessions, nav, pc, job, cursor, draft,
                 plan, assessment>>

-----------------------------------------------------------------------------
Passing(r) ==
  Passes(plan[r].account, MarketOf(r), plan[r].order.orders,
         Exec!Earlier(RunDate[r]))

Decide(r, verdict) ==
  /\ Quiet
  /\ plan[r] # Absent /\ assessment[r] = Absent
  /\ assessment' = [assessment EXCEPT ![r] = verdict]
  /\ UNCHANGED <<execVars, sheet, plan>>

Approve(r) ==
  LET list == plan[r].order.orders
  IN  /\ Decide(r, [decision |-> "APPROVE", plan |-> plan[r].order])
      /\ Passing(r)
      /\ ~Cut(list)

(* Mutant: the cut orders are filed under the checksum of the original plan. *)
Adjust_OldChecksum(r) ==
  LET list == plan[r].order.orders
      cut == [i \in DOMAIN list |-> Capped(r, list[i])]
  IN  /\ Decide(r, [decision |-> "ADJUST",
                    plan |-> [plan[r].order EXCEPT !.orders = cut]])
      /\ Passing(r)
      /\ Cut(list)

Adjust(r) ==
  LET list == plan[r].order.orders
      cut == [i \in DOMAIN list |-> Capped(r, list[i])]
  IN  /\ Decide(r, [decision |-> "ADJUST", plan |-> WithOrders(r, cut)])
      /\ Passing(r)
      /\ Cut(list)

(* The rules on the kill switch and on the data manifest pass here: a run they *)
(* reject does nothing to the ledger, like one that is never assessed, and      *)
(* module DailyWorkflow says what becomes of it.                                *)
Reject(r) ==
  /\ Decide(r, [decision |-> "REJECT", plan |-> plan[r].order])
  /\ ~Passing(r)

Approved(r) == assessment[r] # Absent /\ assessment[r].decision # "REJECT"

(* The executor runs the assessed plan; it may be repeated. *)
Execute(p, r) ==
  /\ Quiet
  /\ Approved(r)
  /\ Exec!Submit(p, assessment[r].plan)
  /\ UNCHANGED <<sheet, plan, assessment>>

Work(p) ==
  /\ Exec!Step(p) \/ Exec!Crash(p)
  /\ UNCHANGED <<sheet, plan, assessment>>

Next ==
  \/ \E r \in Runs :
       \/ \E picks \in Picks[r] : BeginPlan(r, picks) \/ RaiseInPlan(r, picks)
       \/ Approve(r) \/ Adjust(r) \/ Reject(r)
       \/ \E p \in Procs : Execute(p, r)
  \/ PlanSell \/ PlanBuy \/ StorePlan \/ LosePlan
  \/ \E p \in Procs : Work(p)

Spec == Init /\ [][Next]_vars

-----------------------------------------------------------------------------
(* A plan on file belongs to its run, and its checksum is that of its orders. *)
TypeOK ==
  /\ sheet # Absent => sheet \in Sheet
  /\ \A r \in Runs :
       /\ plan[r] # Absent => plan[r] \in OrderPlan /\ plan[r].order = WithOrders(r, plan[r].order.orders)
       /\ assessment[r] # Absent =>
            /\ assessment[r] \in Assessment
            /\ assessment[r].plan = WithOrders(r, assessment[r].plan.orders)

Executed(r) ==
  sessions[RunDate[r]] # Absent /\ sessions[RunDate[r]].plan.run = r

(* Nothing another run did to the ledger up to this run's date came after this *)
(* run was planned.                                                            *)
Fresh(r) ==
  /\ \A id \in OrderIds :
       /\ orders[id] # Absent
       /\ orders[id].plan.run # r
       /\ orders[id].plan.date <= RunDate[r]
       => id \in plan[r].seen.orders
  /\ {d \in Exec!Days : d < RunDate[r]} \subseteq plan[r].seen.days

Account0(r) == plan[r].account
ApprovedOrders(r) == assessment[r].plan.orders

SalesKept(r) ==
  \A i \in DOMAIN plan[r].order.orders :
    LET o == plan[r].order.orders[i] IN TooLarge(o) => o.side = "BUY"

Buys(list) == \E i \in DOMAIN list : list[i].side = "BUY"

(* The planner never spends more than the cash and the sales it counts on: when *)
(* a plan has a purchase its projected cash, fees included, is not negative.    *)
PurchasesAreFunded ==
  /\ sheet # Absent => (Buys(sheet.orders) => sheet.cash >= 0)
  /\ \A r \in Runs : plan[r] # Absent => (Buys(plan[r].order.orders) => plan[r].cash >= 0)

(* The order-value limit holds in the ledger: no recorded order is worth more, *)
(* whatever was planned, cut, repeated or interrupted on the way.              *)
OrdersAreCapped ==
  \A id \in OrderIds :
    orders[id] # Absent => EstimatedValue(orders[id].order) <= MaxOrderValue

(* The account only ever holds and trades board lots: cutting an order, cutting *)
(* a purchase for cash, T+1 and drawing on several lots all keep whole lots.    *)
BoardLots ==
  /\ \A i \in DOMAIN lots : lots[i].remaining % LotSize = 0
  /\ \A id \in OrderIds : orders[id] # Absent => orders[id].order.volume % LotSize = 0

(* An approved plan executed on the books it was built on is executed to the  *)
(* letter: no order is left unfilled, and the day closes with the cash and the *)
(* holdings its orders lead to.  An order raises only if it is a sale that     *)
(* costs more than the cash and a later sale of the plan would have paid for   *)
(* it: CASH_SUFFICIENCY looks at the sum.  Sales the order-value limit cut are *)
(* excluded: see AdjustedPlansPass.                                            *)
ClosesAsPlanned ==
  \A r \in Runs :
    Approved(r) /\ Executed(r) /\ Fresh(r) /\ SalesKept(r) =>
      /\ \A id \in OrderIds :
           orders[id] # Absent /\ orders[id].plan.run = r => orders[id].status = "FILLED"
      /\ \A row \in nav : row.date = RunDate[r] =>
           /\ row.cash = CashAfter(Account0(r), ApprovedOrders(r))
           /\ assessment[r].decision = "APPROVE" => row.cash = plan[r].cash
           /\ row.market = ExposureAfter(Account0(r), MarketOf(r), ApprovedOrders(r))
      /\ \A p \in Procs :
           /\ pc[p] = "trading" /\ job[p].run = r /\ cursor[p] <= Len(job[p].orders)
           /\ Exec!SaleBreaksCheck(job[p], Exec!NextOrder(p))
           => \E i \in DOMAIN job[p].orders :
                /\ i > cursor[p]
                /\ job[p].orders[i].side = "SELL" /\ CashDelta(job[p].orders[i]) > 0

FilledOn(d) ==
  {id \in OrderIds : orders[id] # Absent /\ orders[id].status = "FILLED"
                                          /\ orders[id].plan.date = d}

ValueFilledOn(d) ==
  SumFunctionOnSet([id \in FilledOn(d) |-> EstimatedValue(orders[id].order)], FilledOn(d))

(* What the limits are for: on the day a fresh plan is executed the market     *)
(* value at the close and the day's trading stay within the limits, measured   *)
(* in the ledger and against the equity the plan started from.                 *)
ClosesWithinLimits ==
  \A r \in Runs :
    Approved(r) /\ Executed(r) /\ Fresh(r) /\ SalesKept(r) =>
      \A row \in nav : row.date = RunDate[r] =>
        /\ WithinPercent(row.market, MaxGrossExposure, Account0(r).equity)
        /\ WithinPercent(ValueFilledOn(row.date), MaxTurnover, Account0(r).equity)

(* Once the NAV has fallen too far from its peak, trading stops: no run that  *)
(* was planned with that NAV on file opens a session on a later date.          *)
DrawdownHalts ==
  \A r \in Runs :
    Approved(r) /\ Executed(r) /\ Fresh(r) =>
      \A row \in Exec!Earlier(RunDate[r]) :
        (\A other \in Exec!Earlier(RunDate[r]) : other.date <= row.date) =>
          100 * Exec!Equity(row) >= (100 - MaxDrawdown) * row.peak

(* What the specification of the risk approval says of an adjustment: a limit  *)
(* is reduced safely.  An adjusted plan passes the rules its original passed.   *)
AdjustedPlansPass ==
  \A r \in Runs :
    assessment[r] # Absent /\ assessment[r].decision = "ADJUST" =>
      BookRules(plan[r].account, MarketOf(r), assessment[r].plan.orders)
=============================================================================
