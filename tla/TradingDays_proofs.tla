------------------------- MODULE TradingDays_proofs -------------------------
(***************************************************************************)
(* Machine-checked proofs about the planner and the risk engine of          *)
(* TradingDays, for any account, market, limits, runs and selections: what  *)
(* a plan's figures are worth, the board lots its volumes are counted in,   *)
(* and the rules a plan passes before and after it is cut.                  *)
(***************************************************************************)
EXTENDS TradingDays, SumTheorems, SequenceTheorems, FiniteSetTheorems, TLAPS

IsOrder(o) == o.side \in Sides /\ o.price \in Nat /\ o.volume \in Nat \ {0}

IsList(list) == \E S : list \in Seq(S) /\ \A o \in S : IsOrder(o)

LEMMA ListElements ==
  ASSUME NEW list, IsList(list)
  PROVE  /\ Len(list) \in Nat /\ DOMAIN list = 1..Len(list)
         /\ \A i \in DOMAIN list : IsOrder(list[i])
BY DEF IsList

LEMMA ListOf ==
  ASSUME NEW S, NEW list \in Seq(S), \A o \in S : IsOrder(o)
  PROVE  IsList(list)
BY DEF IsList

LEMMA EmptyList == IsList(<< >>)
<1> DEFINE none == {}
           empty == << >>
<1>1. empty \in Seq(none)
  OBVIOUS
<1>2. \A o \in none : IsOrder(o)
  OBVIOUS
<1> HIDE DEF none, empty
<1>3. IsList(empty)
  BY <1>1, <1>2, ListOf
<1>4. QED  BY <1>3 DEF empty

LEMMA AppendList ==
  ASSUME NEW list, IsList(list), NEW o, IsOrder(o)
  PROVE  /\ IsList(Append(list, o))
         /\ Len(Append(list, o)) = Len(list) + 1
         /\ \A i \in 1..Len(list) : Append(list, o)[i] = list[i]
         /\ Append(list, o)[Len(list) + 1] = o
<1>1. PICK S : list \in Seq(S) /\ \A e \in S : IsOrder(e)
  BY DEF IsList
<1>2. list \in Seq(S \cup {o}) /\ \A e \in S \cup {o} : IsOrder(e)
  BY <1>1
<1>3. Append(list, o) \in Seq(S \cup {o})
  BY <1>2
<1>4. IsList(Append(list, o))
  BY <1>2, <1>3 DEF IsList
<1>5. QED  BY <1>1, <1>4

-----------------------------------------------------------------------------
(* A set of naturals has a least element, so the loops have a first symbol. *)
LEMMA LeastNat ==
  ASSUME NEW S, S \subseteq Nat, S # {}
  PROVE  \E m \in S : \A k \in S : m <= k
<1> DEFINE T == {0..m : m \in S}
<1>1. T \subseteq FiniteSubsetsOf(Nat) /\ T # {}
  <2>1. ASSUME NEW m \in S
        PROVE  0..m \in FiniteSubsetsOf(Nat)
    <3>1. m \in Int /\ 0 \in Int /\ 0..m \subseteq Nat
      OBVIOUS
    <3>2. IsFiniteSet(0..m)
      BY <3>1, FS_Interval
    <3>3. QED  BY <3>1, <3>2 DEF FiniteSubsetsOf
  <2>2. QED  BY <2>1
<1>2. PICK t \in T : \A u \in T : <<u, t>> \notin StrictSubsetOrdering(Nat)
  BY <1>1, FS_StrictSubsetOrderingWellFounded, WFMin
<1>3. PICK m \in S : t = 0..m
  BY <1>2
<1>4. ASSUME NEW k \in S, k < m
      PROVE  FALSE
  <2>0. k \in Nat /\ m \in Nat
    OBVIOUS
  <2>1. 0..k \subseteq 0..m /\ m \in 0..m /\ m \notin 0..k
    BY <1>4, <2>0
  <2>2. <<0..k, t>> \in StrictSubsetOrdering(Nat)
    BY <1>3, <2>0, <2>1 DEF StrictSubsetOrdering
  <2>3. QED  BY <1>2, <2>2
<1>5. \A k \in S : ~ (k < m)
  BY <1>4
<1>6. QED  BY <1>5

LEMMA FirstIn ==
  ASSUME NEW S, S \subseteq Symbols, S # {}
  PROVE  First(S) \in S
<1> DEFINE ranks == {Rank[s] : s \in S}
<1>1. ranks \subseteq Nat /\ ranks # {} /\ \A s \in S : Rank[s] \in ranks
  BY PlannerAssumption
<1>2. ASSUME NEW m \in ranks
      PROVE  \E s \in S : Rank[s] = m
  OBVIOUS
<1> HIDE DEF ranks
<1>3. PICK m \in ranks : \A k \in ranks : m <= k
  BY <1>1, LeastNat
<1>4. \E s \in S : \A t \in S : Rank[s] <= Rank[t]
  BY <1>1, <1>2, <1>3
<1>5. QED  BY <1>4 DEF First

-----------------------------------------------------------------------------
LEMMA PerBpsType ==
  ASSUME NEW v \in Nat, NEW b \in Nat
  PROVE  PerBps(v, b) \in Nat
BY FeesAssumption DEF PerBps

LEMMA MoneyTypes ==
  ASSUME NEW o, IsOrder(o)
  PROVE  /\ ExecutionPrice(o.side, o.price) \in Nat
         /\ EstimatedValue(o) \in Nat
         /\ EstimatedFee(o) \in Nat
         /\ CashDelta(o) \in Int
<1>1. ExecutionPrice(o.side, o.price) \in Nat
  BY FeesAssumption DEF ExecutionPrice, IsOrder
<1>2. EstimatedValue(o) \in Nat
  BY <1>1 DEF EstimatedValue, IsOrder
<1> DEFINE v == EstimatedValue(o)
<1>3. /\ PerBps(v, CommissionBps) \in Nat /\ PerBps(v, TransferBps) \in Nat
      /\ PerBps(v, StampDutyBps) \in Nat
  BY <1>2, PerBpsType, FeesAssumption
<1>4. Commission(v) \in Nat
  BY <1>3, FeesAssumption DEF Commission
<1>5. EstimatedFee(o) \in Nat
  BY <1>3, <1>4 DEF EstimatedFee, EstimateFee
<1>6. QED  BY <1>1, <1>2, <1>5 DEF CashDelta

(* The executor's figures are the planner's. *)
LEMMA ExecMoney ==
  ASSUME NEW o
  PROVE  /\ Exec!Price(o) = ExecutionPrice(o.side, o.price)
         /\ Exec!Required(o) = EstimatedValue(o) + EstimatedFee(o)
         /\ Exec!Proceeds(o) = EstimatedValue(o) - EstimatedFee(o)
         /\ \A plan1 : Exec!CanTrade(plan1, o) <=> Tradable(Market[plan1.date], o.symbol, o.side, ExecutionPrice(o.side, o.price))
BY DEF Exec!Required, Exec!Proceeds, Exec!TradeValue, Exec!Fee, Exec!Price,
        EstimatedValue, EstimatedFee, Exec!ExecutionPrice, ExecutionPrice,
        Exec!EstimateFee, EstimateFee, Exec!Commission, Commission, Exec!PerBps, PerBps, Exec!CanTrade, Exec!Tradable, Tradable

(* The order-value limit: an order cut to whole lots fits the limit. *)
LEMMA CutFits ==
  ASSUME NEW run, NEW o, IsOrder(o), TooLarge(o) => CappedVolume(o) > 0
  PROVE  /\ IsOrder(Capped(run, o))
         /\ EstimatedValue(Capped(run, o)) <= MaxOrderValue
<1> DEFINE unit == ExecutionPrice(o.side, o.price)
           k == MaxOrderValue \div (unit * LotSize)
<1>1. unit \in Nat /\ EstimatedValue(o) = unit * o.volume /\ EstimatedValue(o) \in Nat
  BY MoneyTypes DEF EstimatedValue
<1>2. MaxOrderValue \in Nat /\ LotSize \in Nat \ {0}
  BY LimitsAssumption, PlannerAssumption
<1>3. CASE ~TooLarge(o)
  BY <1>1, <1>2, <1>3 DEF TooLarge, Capped
<1>4. CASE TooLarge(o)
  <2>1. unit * o.volume > MaxOrderValue
    BY <1>1, <1>4 DEF TooLarge
  <2>2. unit # 0
    <3>1. SUFFICES ASSUME unit = 0 PROVE FALSE
      OBVIOUS
    <3>2. o.volume \in Nat
      BY DEF IsOrder
    <3>3. unit * o.volume = 0
      BY <3>1, <3>2
    <3>4. QED  BY <1>2, <2>1, <3>3
  <2>3. unit * LotSize \in Nat \ {0}
    BY <1>1, <1>2, <2>2
  <2>4. k \in Nat /\ (unit * LotSize) * k <= MaxOrderValue
    BY <1>2, <2>3
  <2>5. CappedVolume(o) = k * LotSize
    BY DEF CappedVolume
  <2>6. unit * (k * LotSize) = (unit * LotSize) * k
    BY <1>1, <1>2, <2>4
  <2>7. CappedVolume(o) \in Nat \ {0}
    BY <1>2, <1>4, <2>4, <2>5
  <2>8. Capped(run, o) = PlannedOrder(run, o.symbol, o.side, o.price, CappedVolume(o))
    BY <1>4 DEF Capped
  <2>9. IsOrder(Capped(run, o))
    BY <2>7, <2>8 DEF PlannedOrder, IsOrder
  <2>10. EstimatedValue(Capped(run, o)) = unit * CappedVolume(o)
    BY <2>8 DEF PlannedOrder, EstimatedValue
  <2>11. QED  BY <2>4, <2>5, <2>6, <2>9, <2>10
<1>5. QED  BY <1>3, <1>4

LEMMA CutList ==
  ASSUME NEW run, NEW list, IsList(list), OrderValueRule(list)
  PROVE  LET cut == [i \in DOMAIN list |-> Capped(run, list[i])]
         IN  /\ IsList(cut)
             /\ \A i \in DOMAIN cut : EstimatedValue(cut[i]) <= MaxOrderValue
<1> DEFINE cut == [i \in DOMAIN list |-> Capped(run, list[i])]
           S == {Capped(run, list[i]) : i \in DOMAIN list}
<1>1. /\ Len(list) \in Nat /\ DOMAIN list = 1..Len(list)
      /\ \A i \in DOMAIN list : IsOrder(list[i])
  BY ListElements
<1>2. \A i \in DOMAIN list : /\ IsOrder(Capped(run, list[i]))
                            /\ EstimatedValue(Capped(run, list[i])) <= MaxOrderValue
  BY <1>1, CutFits DEF OrderValueRule
<1>3. cut \in Seq(S)
  <2>1. cut \in [1..Len(list) -> S]
    BY <1>1
  <2>2. QED  BY <1>1, <2>1, SeqDef
<1>4. \A o \in S : IsOrder(o)
  BY <1>2
<1>5. IsList(cut)
  <2> HIDE DEF cut, S
  <2>1. QED  BY <1>3, <1>4 DEF IsList
<1>6. \A i \in DOMAIN cut : EstimatedValue(cut[i]) <= MaxOrderValue
  BY <1>2
<1>7. QED  BY <1>5, <1>6

-----------------------------------------------------------------------------
(* Types, as far as they do not rest on sums over the lots. *)
On(f, D) == f = [d \in D |-> f[d]]

SheetOK ==
  /\ sheet = [run |-> sheet.run, account |-> sheet.account, seen |-> sheet.seen,
              sells |-> sheet.sells, buys |-> sheet.buys, picks |-> sheet.picks,
              cash |-> sheet.cash, orders |-> sheet.orders]
  /\ sheet.run \in Runs
  /\ sheet.sells \subseteq DOMAIN Close(sheet.run)
  /\ sheet.buys \subseteq DOMAIN Close(sheet.run)
  /\ sheet.cash \in Int
  /\ IsList(sheet.orders)

Early == {"idle", "validating", "opening"}

AccountOpen == \A p \in Procs : pc[p] \notin Early => cash # Absent

ExecutorOK ==
  /\ cash \in Nat \cup {Absent} /\ AccountOpen
  /\ On(orders, OrderIds) /\ On(pc, Procs) /\ On(job, Procs)
  /\ cursor \in [Procs -> Nat \ {0}]
  /\ \A p \in Procs : pc[p] # "idle" => IsList(job[p].orders)

FilesOK ==
  /\ On(plan, Runs) /\ On(assessment, Runs)
  /\ \A r \in Runs :
       /\ plan[r] # Absent => IsList(plan[r].order.orders) /\ plan[r].cash \in Int
       /\ Approved(r) => IsList(assessment[r].plan.orders)

Types == ExecutorOK /\ FilesOK /\ (sheet # Absent => SheetOK)

(* What a step of the executor does to the state the properties are about. *)
Kept(q) == pc[q] # "idle" /\ job'[q] = job[q]

LEMMA ExecutorStep ==
  ASSUME ExecutorOK, NEW p \in Procs, Exec!Step(p) \/ Exec!Crash(p)
  PROVE  /\ ExecutorOK'
         /\ \A q \in Procs : pc'[q] # "idle" => Kept(q)
         /\ \/ orders' = orders
            \/ \E i \in DOMAIN job[p].orders, status \in {"FILLED", "UNFILLED"} :
                 LET o == job[p].orders[i]
                 IN  orders' = [orders EXCEPT ![o.id] =
                                  [plan |-> job[p], order |-> o, status |-> status]]
         /\ pc[p] # "idle"
         /\ nav' = nav \/ \E row : row.date \notin Exec!Days /\ nav' = nav \cup {row}
<1> USE DEF ExecutorOK, On, Kept, Early
<1>1. ASSUME Exec!Leave(p)
      PROVE  /\ On(pc, Procs)' /\ On(job, Procs)' /\ cursor' \in [Procs -> Nat \ {0}]
             /\ \A q \in Procs : pc'[q] # "idle" => Kept(q)
             /\ cash' = cash => AccountOpen'
  <2>1. pc' = [q \in Procs |-> IF q = p THEN "idle" ELSE pc[q]]
    BY <1>1 DEF Exec!Leave
  <2>2. job' = [q \in Procs |-> IF q = p THEN Absent ELSE job[q]]
    BY <1>1 DEF Exec!Leave
  <2>3. cursor' \in [Procs -> Nat \ {0}]
    BY <1>1 DEF Exec!Leave
  <2>4. On(pc, Procs)' /\ On(job, Procs)'
    BY <2>1, <2>2
  <2>5. ASSUME NEW q \in Procs, pc'[q] # "idle"
        PROVE  Kept(q)
    BY <2>1, <2>2, <2>5
  <2>6. cash' = cash => AccountOpen'
    BY <2>1 DEF AccountOpen
  <2>7. QED  BY <2>3, <2>4, <2>5, <2>6
<1>2. ASSUME NEW stage, Exec!Goto(p, stage), UNCHANGED <<job, cash>>, pc[p] # "idle",
             stage \in Early \/ cash # Absent
      PROVE  On(pc, Procs)' /\ AccountOpen' /\ \A q \in Procs : pc'[q] # "idle" => Kept(q)
  <2>1. pc' = [q \in Procs |-> IF q = p THEN stage ELSE pc[q]]
    BY <1>2 DEF Exec!Goto
  <2>2. QED  BY <1>2, <2>1 DEF AccountOpen
<1>3. CASE Exec!Validate(p)
  BY <1>2, <1>3 DEF Exec!Validate, Exec!ledgerVars
<1>4. CASE Exec!RefuseOvertaken(p) \/ Exec!RefuseSession(p) \/ Exec!RaiseInTrade(p)
             \/ Exec!RaiseUnpriced(p) \/ Exec!RefuseNav(p) \/ Exec!RaiseSecondNav(p)
             \/ Exec!Crash(p)
  <2>1. Exec!Leave(p) /\ UNCHANGED <<cash, orders, nav>> /\ pc[p] # "idle"
    BY <1>4 DEF Exec!RefuseOvertaken, Exec!RefuseSession, Exec!RaiseInTrade,
                Exec!RaiseUnpriced, Exec!RefuseNav, Exec!RaiseSecondNav, Exec!Crash,
                Exec!ledgerVars
  <2>2. QED  BY <1>1, <2>1
<1>5. CASE Exec!Begin(p)
  BY <1>2, <1>5 DEF Exec!Begin, Exec!BeginSession, Exec!SessionRefused
<1>6. CASE Exec!Trade(p)
  <2> DEFINE o == Exec!NextOrder(p)
  <2>1. pc[p] # "idle" /\ UNCHANGED <<pc, job>> /\ cursor' = [cursor EXCEPT ![p] = @ + 1]
    BY <1>6 DEF Exec!Trade
  <2>2. IsList(job[p].orders) /\ cursor[p] \in DOMAIN job[p].orders
    BY <1>6, ListElements DEF Exec!Trade
  <2>3. IsOrder(o) /\ o = job[p].orders[cursor[p]]
    BY <2>2, ListElements DEF Exec!NextOrder
  <2>4. Exec!Required(o) \in Int /\ Exec!Proceeds(o) \in Int
    <3>1. EstimatedValue(o) \in Nat /\ EstimatedFee(o) \in Nat
      BY <2>3, MoneyTypes
    <3>2. QED  BY <3>1, ExecMoney
  <2>5. Exec!ExecuteOrder(job[p], o)
    BY <1>6 DEF Exec!Trade
  <2>6. cash \in Nat
    BY <1>6 DEF AccountOpen, Exec!Trade
  <2>7. nav' = nav /\ cash' \in Nat
    <3>1. CASE Exec!AnswerDuplicate(o)
      BY <2>6, <3>1 DEF Exec!AnswerDuplicate, Exec!ledgerVars
    <3>2. CASE Exec!RecordUnfilled(job[p], o)
      BY <2>6, <3>2 DEF Exec!RecordUnfilled
    <3>3. CASE Exec!FillBuy(job[p], o)
      <4>1. cash' = cash - Exec!Required(o) /\ cash >= Exec!Required(o) /\ nav' = nav
        BY <3>3 DEF Exec!FillBuy, Exec!Covered
      <4>2. QED  BY <2>4, <2>6, <4>1
    <3>4. CASE Exec!FillSell(job[p], o)
      <4>1. /\ cash' = cash + Exec!Proceeds(o) /\ cash + Exec!Proceeds(o) >= 0
            /\ nav' = nav
        BY <3>4 DEF Exec!FillSell
      <4>2. QED  BY <2>4, <2>6, <4>1
    <3>5. QED  BY <2>5, <3>1, <3>2, <3>3, <3>4 DEF Exec!ExecuteOrder
  <2>8. \/ orders' = orders
        \/ \E status \in {"FILLED", "UNFILLED"} :
             orders' = [orders EXCEPT ![o.id] =
                          [plan |-> job[p], order |-> o, status |-> status]]
    BY <2>5 DEF Exec!ExecuteOrder, Exec!AnswerDuplicate, Exec!RecordUnfilled,
                Exec!FillBuy, Exec!FillSell, Exec!Write, Exec!ledgerVars
  <2>9. On(orders, OrderIds)'
    BY <2>8
  <2>10. On(pc, Procs)' /\ On(job, Procs)' /\ cursor' \in [Procs -> Nat \ {0}]
    BY <2>1
  <2>11. AccountOpen'
    BY <2>1, <2>7, RunsAssumption DEF AccountOpen
  <2>12. ExecutorOK'
    BY <2>1, <2>7, <2>9, <2>10, <2>11
  <2>13. QED  BY <2>1, <2>2, <2>3, <2>7, <2>8, <2>12
<1>7. CASE Exec!ReadCash(p) \/ Exec!ReadLots(p) \/ Exec!ComputeNav(p) \/ Exec!KeepNav(p)
  <2>1. /\ pc[p] # "idle" /\ UNCHANGED <<cash, orders, nav, job, cursor>>
        /\ cash # Absent /\ \E stage : Exec!Goto(p, stage)
    BY <1>7 DEF AccountOpen, Exec!ReadCash, Exec!ReadLots, Exec!ComputeNav, Exec!KeepNav, Exec!ledgerVars
  <2>2. QED  BY <1>2, <2>1
<1>8. CASE Exec!StoreNav(p)
  BY <1>2, <1>8 DEF AccountOpen, Exec!StoreNav, Exec!InsertNav
<1>9. CASE Exec!Finish(p)
  BY <1>1, <1>9 DEF Exec!Finish, Exec!CompleteSession
<1>10. QED
  BY <1>3, <1>4, <1>5, <1>6, <1>7, <1>8, <1>9 DEF Exec!Step

-----------------------------------------------------------------------------
(* The account is open before a plan reads it. *)
LEMMA AccountOpens ==
  ASSUME ExecutorOK, Exec!EnsureAccount
  PROVE  cash' \in Nat /\ UNCHANGED <<lots, orders, sessions, nav>>
BY RunsAssumption DEF ExecutorOK, Exec!EnsureAccount

(* A turn of the planner's loops yields an order at a price on file. *)
LEMMA PlannedIsOrder ==
  ASSUME SheetOK, NEW s \in DOMAIN Close(sheet.run), NEW side \in Sides,
         NEW volume \in Nat \ {0}
  PROVE  IsOrder(Planned(side, s, volume)) /\ CashDelta(Planned(side, s, volume)) \in Int
<1>1. RunDate[sheet.run] \in Dates
  BY RunsAssumption DEF SheetOK
<1>2. Close(sheet.run)[s] \in Nat
  BY <1>1, MarketAssumption DEF Close, MarketOf
<1>3. IsOrder(Planned(side, s, volume))
  BY <1>2 DEF Planned, PlannedOrder, IsOrder
<1>4. QED  BY <1>3, MoneyTypes

LEMMA LoopSymbols ==
  ASSUME SheetOK
  PROVE  sheet.sells \subseteq Symbols /\ sheet.buys \subseteq Symbols
<1>1. RunDate[sheet.run] \in Dates
  BY RunsAssumption DEF SheetOK
<1>2. DOMAIN Close(sheet.run) \subseteq Symbols
  BY <1>1, MarketAssumption DEF Close, MarketOf
<1>3. QED  BY <1>2 DEF SheetOK

(* The sheet's fields, plans' and assessments' lists and the executor's locals *)
(* have their types in every execution.                                         *)
LEMMA TurnType ==
  ASSUME SheetOK, NEW sells, sells \subseteq sheet.sells,
         NEW buys, buys \subseteq sheet.buys, NEW c \in Int, NEW list, IsList(list),
         sheet' = [run |-> sheet.run, account |-> sheet.account, seen |-> sheet.seen,
                   sells |-> sells, buys |-> buys, picks |-> sheet.picks,
                   cash |-> c, orders |-> list]
  PROVE  SheetOK'
<1>1. /\ sheet'.run = sheet.run /\ sheet'.sells = sells /\ sheet'.buys = buys
      /\ sheet'.cash = c /\ sheet'.orders = list
      /\ sheet'.account = sheet.account /\ sheet'.seen = sheet.seen
      /\ sheet'.picks = sheet.picks
  OBVIOUS
<1>2. QED  BY <1>1 DEF SheetOK, Close, MarketOf

LEMMA PlanSellTurn ==
  ASSUME SheetOK, PlanSell
  PROVE  SheetOK' /\ (Buys(sheet.orders)' => Buys(sheet.orders))
<1> DEFINE s == First(sheet.sells)
           volume == SellVolume(sheet.account, MarketOf(sheet.run), sheet.picks, s)
           o == Planned("SELL", s, volume)
<1>1. s \in DOMAIN Close(sheet.run)
  BY FirstIn, LoopSymbols DEF PlanSell, SheetOK
<1>2. CASE volume \in Nat \ {0} /\ CanOrder(MarketOf(sheet.run), s, "SELL")
  <2>1. sheet' = [sheet EXCEPT !.sells = @ \ {s}, !.cash = @ + CashDelta(o),
                               !.orders = Append(@, o)]
    BY <1>2 DEF PlanSell
  <2>2. IsOrder(o) /\ CashDelta(o) \in Int
    BY <1>1, <1>2, PlannedIsOrder DEF Sides
  <2>3. IsList(Append(sheet.orders, o))
    BY <2>2, AppendList DEF SheetOK
  <2>4. sheet' = [run |-> sheet.run, account |-> sheet.account, seen |-> sheet.seen,
                  sells |-> sheet.sells \ {s}, buys |-> sheet.buys,
                  picks |-> sheet.picks, cash |-> sheet.cash + CashDelta(o),
                  orders |-> Append(sheet.orders, o)]
    BY <2>1 DEF SheetOK
  <2>5. sheet.cash + CashDelta(o) \in Int
    BY <2>2 DEF SheetOK
  <2>6. SheetOK'
    BY <2>3, <2>4, <2>5, TurnType
  <2>7. sheet'.orders = Append(sheet.orders, o) /\ o.side = "SELL"
    BY <2>4 DEF Planned, PlannedOrder
  <2>8. Buys(sheet.orders)' => Buys(sheet.orders)
    <3>1. /\ Len(sheet.orders) \in Nat /\ DOMAIN sheet.orders = 1..Len(sheet.orders)
          /\ DOMAIN sheet'.orders = 1..Len(sheet.orders) + 1
          /\ \A i \in 1..Len(sheet.orders) : sheet'.orders[i] = sheet.orders[i]
          /\ sheet'.orders[Len(sheet.orders) + 1] = o
      BY <2>2, <2>3, <2>7, AppendList, ListElements DEF SheetOK
    <3>2. ASSUME NEW i \in DOMAIN sheet'.orders, sheet'.orders[i].side = "BUY"
          PROVE  i \in 1..Len(sheet.orders)
      BY <2>7, <3>1, <3>2
    <3>3. QED  BY <3>1, <3>2 DEF Buys
  <2>9. QED  BY <2>6, <2>8
<1>3. CASE ~(volume \in Nat \ {0} /\ CanOrder(MarketOf(sheet.run), s, "SELL"))
  <2>1. sheet' = [sheet EXCEPT !.sells = @ \ {s}]
    BY <1>3 DEF PlanSell
  <2>2. QED  BY <2>1 DEF SheetOK, Close, MarketOf, Buys
<1>4. QED  BY <1>2, <1>3

LEMMA BuyCosts ==
  ASSUME SheetOK, NEW s \in DOMAIN Close(sheet.run), NEW volume \in Nat \ {0},
         IsAffordable(volume, Wanted(s), Close(sheet.run)[s], sheet.cash)
  PROVE  sheet.cash + CashDelta(Planned("BUY", s, volume)) >= 0
<1> DEFINE o == Planned("BUY", s, volume)
           price == Close(sheet.run)[s]
<1>1. IsOrder(o) /\ CashDelta(o) \in Int /\ EstimatedValue(o) \in Nat
      /\ EstimatedFee(o) \in Nat
  BY PlannedIsOrder, MoneyTypes DEF Sides
<1>2. BuyCost(price, volume) <= sheet.cash
  BY DEF IsAffordable
<1>3. o.side = "BUY" /\ o.price = price /\ o.volume = volume
  BY DEF Planned, PlannedOrder
<1>4. EstimatedValue(o) = ExecutionPrice("BUY", price) * volume
  BY <1>3 DEF EstimatedValue
<1>5. BuyCost(price, volume) = EstimatedValue(o) + EstimatedFee(o)
  BY <1>3, <1>4 DEF BuyCost, EstimatedFee
<1>6. CashDelta(o) = -(EstimatedValue(o) + EstimatedFee(o))
  BY <1>3 DEF CashDelta
<1> HIDE DEF o, price
<1>7. sheet.cash \in Int
  BY DEF SheetOK
<1>8. sheet.cash + CashDelta(o) >= 0
  BY <1>1, <1>2, <1>5, <1>6, <1>7
<1>9. QED  BY <1>8 DEF o

(* A turn of the buys loop skips the symbol or adds an order it can pay. *)
LEMMA PlanBuyTurn ==
  ASSUME SheetOK, PlanBuy
  PROVE  /\ SheetOK'
         /\ sheet'.sells = sheet.sells
         /\ \/ sheet'.orders = sheet.orders /\ sheet'.cash = sheet.cash
            \/ sheet'.cash >= 0
<1> DEFINE s == First(sheet.buys)
<1>1. s \in DOMAIN Close(sheet.run)
  BY FirstIn, LoopSymbols DEF PlanBuy, SheetOK
<1>2. PICK volume \in 0..Wanted(s) :
        /\ IF CanOrder(MarketOf(sheet.run), s, "BUY")
           THEN IsAffordable(volume, Wanted(s), Close(sheet.run)[s], sheet.cash)
           ELSE volume = 0
        /\ sheet' = IF volume \in Nat \ {0}
                    THEN [sheet EXCEPT !.buys = @ \ {s},
                            !.cash = @ + CashDelta(Planned("BUY", s, volume)),
                            !.orders = Append(@, Planned("BUY", s, volume))]
                    ELSE [sheet EXCEPT !.buys = @ \ {s}]
  BY DEF PlanBuy
<1> DEFINE o == Planned("BUY", s, volume)
<1>3. CASE volume \in Nat \ {0}
  <2>1. IsAffordable(volume, Wanted(s), Close(sheet.run)[s], sheet.cash)
    BY <1>2, <1>3
  <2>2. IsOrder(o) /\ CashDelta(o) \in Int
    BY <1>1, <1>3, PlannedIsOrder DEF Sides
  <2>3. IsList(Append(sheet.orders, o))
    BY <2>2, AppendList DEF SheetOK
  <2>4. sheet' = [run |-> sheet.run, account |-> sheet.account, seen |-> sheet.seen,
                  sells |-> sheet.sells, buys |-> sheet.buys \ {s},
                  picks |-> sheet.picks, cash |-> sheet.cash + CashDelta(o),
                  orders |-> Append(sheet.orders, o)]
    BY <1>2, <1>3 DEF SheetOK
  <2>5. sheet.cash + CashDelta(o) \in Int /\ sheet.cash + CashDelta(o) >= 0
    BY <1>1, <1>3, <2>1, <2>2, BuyCosts DEF SheetOK
  <2>6. SheetOK'
    BY <2>3, <2>4, <2>5, TurnType
  <2>7. sheet'.sells = sheet.sells /\ sheet'.cash = sheet.cash + CashDelta(o)
    BY <2>4
  <2>8. QED  BY <2>5, <2>6, <2>7
<1>4. CASE volume \notin Nat \ {0}
  <2>1. sheet' = [sheet EXCEPT !.buys = @ \ {s}]
    BY <1>2, <1>4
  <2>2. /\ sheet'.sells = sheet.sells /\ sheet'.orders = sheet.orders
        /\ sheet'.cash = sheet.cash
    BY <2>1 DEF SheetOK
  <2>3. SheetOK'
    BY <2>1 DEF SheetOK, Close, MarketOf
  <2>4. QED  BY <2>2, <2>3
<1>5. QED  BY <1>3, <1>4

-----------------------------------------------------------------------------
(* The inductive invariant: the types; a plan that still has symbols to sell   *)
(* holds no purchase yet, so the cash its purchases spend is the cash left     *)
(* after every sale; and a list of orders is within the order-value limit from *)
(* the moment it is approved, in the executor and in the ledger.               *)
SalesFirst == sheet # Absent => (sheet.sells # {} => ~Buys(sheet.orders))

WithinLimit(list) == \A i \in DOMAIN list : EstimatedValue(list[i]) <= MaxOrderValue

ListsCapped ==
  /\ \A r \in Runs : Approved(r) => WithinLimit(assessment[r].plan.orders)
  /\ \A p \in Procs : pc[p] # "idle" => WithinLimit(job[p].orders)

PlansInv == Types /\ SalesFirst /\ PurchasesAreFunded /\ ListsCapped /\ OrdersAreCapped

(* The part of the invariant that is about the files and the ledger. *)
LEMMA OnlySheet ==
  ASSUME PlansInv, UNCHANGED <<orders, pc, job, cursor, plan, assessment>>,
         cash' = cash \/ cash' \in Nat,
         sheet' # Absent => /\ SheetOK'
                            /\ sheet'.sells # {} => ~Buys(sheet'.orders)
                            /\ Buys(sheet'.orders) => sheet'.cash >= 0
  PROVE  PlansInv'
<1>1. ExecutorOK'
  BY RunsAssumption DEF PlansInv, Types, ExecutorOK, AccountOpen, On
<1>2. FilesOK' /\ ListsCapped' /\ OrdersAreCapped'
  BY DEF PlansInv, Types, FilesOK, On, ListsCapped, OrdersAreCapped, Approved, WithinLimit
<1>3. PurchasesAreFunded' /\ SalesFirst'
  BY DEF PlansInv, PurchasesAreFunded, SalesFirst, Buys
<1>4. QED  BY <1>1, <1>2, <1>3 DEF PlansInv, Types

LEMMA BeginPlanKeeps ==
  ASSUME PlansInv, NEW r \in Runs, NEW picks, BeginPlan(r, picks)
  PROVE  PlansInv'
<1>1. cash' \in Nat /\ UNCHANGED <<lots, orders, sessions, nav>>
  BY AccountOpens DEF PlansInv, Types, BeginPlan
<1>2. UNCHANGED <<pc, job, cursor, plan, assessment>>
  BY DEF BeginPlan
<1>3. PICK account, seen :
        sheet' = [run |-> r, account |-> account, picks |-> picks, seen |-> seen,
                  sells |-> ToSell(account, MarketOf(r), picks),
                  buys |-> ToBuy(account, MarketOf(r), picks),
                  cash |-> cash', orders |-> << >>]
  BY DEF BeginPlan
<1>4. SheetOK'
  BY <1>1, <1>3, EmptyList DEF SheetOK, ToSell, ToBuy, Close, MarketOf
<1>5. ~Buys(sheet'.orders)
  BY <1>3 DEF Buys
<1>6. QED  BY <1>1, <1>2, <1>4, <1>5, OnlySheet

LEMMA PlannerKeeps ==
  ASSUME PlansInv, PlanSell \/ PlanBuy
  PROVE  PlansInv'
<1>1. UNCHANGED <<execVars, plan, assessment>> /\ sheet # Absent /\ SheetOK
  BY DEF PlanSell, PlanBuy, PlansInv, Types
<1>2. CASE PlanSell
  <2>1. SheetOK' /\ ~Buys(sheet'.orders)
    BY <1>1, <1>2, PlanSellTurn DEF PlanSell, PlansInv, SalesFirst, Buys
  <2>2. QED  BY <1>1, <2>1, OnlySheet DEF execVars
<1>3. CASE PlanBuy
  <2>1. /\ SheetOK' /\ sheet'.sells = {}
        /\ \/ sheet'.orders = sheet.orders /\ sheet'.cash = sheet.cash
           \/ sheet'.cash >= 0
    BY <1>1, <1>3, PlanBuyTurn DEF PlanBuy
  <2>2. Buys(sheet'.orders) => sheet'.cash >= 0
    BY <1>1, <2>1 DEF PlansInv, PurchasesAreFunded
  <2>3. QED  BY <1>1, <2>1, <2>2, OnlySheet DEF execVars
<1>4. QED  BY <1>2, <1>3

LEMMA StorePlanKeeps ==
  ASSUME PlansInv, StorePlan
  PROVE  PlansInv'
<1>1. UNCHANGED <<execVars, assessment>> /\ sheet # Absent /\ SheetOK /\ sheet' = Absent
  BY DEF StorePlan, PlansInv, Types
<1>2. PICK r \in Runs : r = sheet.run
  BY <1>1 DEF SheetOK
<1>3. /\ plan' = [plan EXCEPT ![r] = plan'[r]]
      /\ plan'[r].order.orders = sheet.orders
      /\ plan'[r].cash = sheet.cash
  BY <1>2 DEF StorePlan, WithOrders, PlansInv, Types, FilesOK, On
<1>4. FilesOK'
  BY <1>1, <1>3 DEF PlansInv, Types, FilesOK, On, SheetOK, Approved
<1>5. PurchasesAreFunded'
  <2>1. Buys(sheet.orders) => sheet.cash >= 0
    BY <1>1 DEF PlansInv, PurchasesAreFunded
  <2>2. QED  BY <1>1, <1>3, <2>1 DEF PlansInv, Types, FilesOK, On, PurchasesAreFunded
<1>6. ExecutorOK' /\ ListsCapped' /\ OrdersAreCapped' /\ SalesFirst'
  BY <1>1 DEF execVars, PlansInv, Types, ExecutorOK, AccountOpen, On, ListsCapped,
              OrdersAreCapped, Approved, WithinLimit, SalesFirst
<1>7. QED  BY <1>1, <1>4, <1>5, <1>6 DEF PlansInv, Types

LEMMA VerdictKeeps ==
  ASSUME PlansInv, NEW r \in Runs, NEW verdict, Decide(r, verdict),
         verdict.decision # "REJECT" =>
           IsList(verdict.plan.orders) /\ WithinLimit(verdict.plan.orders)
  PROVE  PlansInv'
<1>1. /\ UNCHANGED <<execVars, sheet, plan>>
      /\ assessment' = [assessment EXCEPT ![r] = verdict]
  BY DEF Decide
<1>2. \A q \in Runs : assessment'[q] = IF q = r THEN verdict ELSE assessment[q]
  BY <1>1 DEF PlansInv, Types, FilesOK, On
<1>3. On(assessment, Runs)'
  BY <1>1 DEF PlansInv, Types, FilesOK, On
<1>4. ASSUME NEW q \in Runs, Approved(q)'
      PROVE  IsList(assessment'[q].plan.orders) /\ WithinLimit(assessment'[q].plan.orders)
  BY <1>2, <1>4 DEF PlansInv, Types, FilesOK, ListsCapped, Approved
<1>5. FilesOK'
  BY <1>1, <1>3, <1>4 DEF PlansInv, Types, FilesOK, On
<1>6. ListsCapped'
  BY <1>1, <1>4 DEF PlansInv, ListsCapped, WithinLimit, execVars
<1>7. /\ ExecutorOK' /\ (sheet' # Absent => SheetOK') /\ OrdersAreCapped'
      /\ SalesFirst' /\ PurchasesAreFunded'
  BY <1>1 DEF execVars, PlansInv, Types, ExecutorOK, AccountOpen, On, SheetOK,
              OrdersAreCapped, SalesFirst, PurchasesAreFunded, Close, MarketOf, Buys
<1>8. QED  BY <1>5, <1>6, <1>7 DEF PlansInv, Types

LEMMA AssessKeeps ==
  ASSUME PlansInv, NEW r \in Runs, Approve(r) \/ Adjust(r) \/ Reject(r)
  PROVE  PlansInv'
<1> DEFINE list == plan[r].order.orders
<1>1. IsList(list)
  BY DEF Approve, Adjust, Reject, Decide, PlansInv, Types, FilesOK
<1>2. CASE Approve(r)
  <2>1. Decide(r, [decision |-> "APPROVE", plan |-> plan[r].order]) /\ ~Cut(list)
    BY <1>2 DEF Approve
  <2>2. \A i \in DOMAIN list : EstimatedValue(list[i]) \in Nat
    BY <1>1, ListElements, MoneyTypes
  <2>3. WithinLimit(list)
    BY <2>1, <2>2, LimitsAssumption DEF Cut, TooLarge, WithinLimit
  <2>4. QED  BY <1>1, <2>1, <2>3, VerdictKeeps
<1>3. CASE Adjust(r)
  <2> DEFINE cut == [i \in DOMAIN list |-> Capped(r, list[i])]
  <2>1. /\ Decide(r, [decision |-> "ADJUST", plan |-> WithOrders(r, cut)])
        /\ Passing(r)
    BY <1>3 DEF Adjust
  <2>2. OrderValueRule(list)
    BY <2>1 DEF Passing, Passes
  <2>3. IsList(cut) /\ WithinLimit(cut)
    BY <1>1, <2>2, CutList DEF WithinLimit
  <2> HIDE DEF cut
  <2>4. WithOrders(r, cut).orders = cut
    BY DEF WithOrders
  <2>5. QED  BY <2>1, <2>3, <2>4, VerdictKeeps
<1>4. CASE Reject(r)
  <2>1. Decide(r, [decision |-> "REJECT", plan |-> plan[r].order])
    BY <1>4 DEF Reject
  <2>2. QED  BY <2>1, VerdictKeeps
<1>5. QED  BY <1>2, <1>3, <1>4

LEMMA ExecuteKeeps ==
  ASSUME PlansInv, NEW r \in Runs, NEW p \in Procs, Execute(p, r)
  PROVE  PlansInv'
<1>1. /\ UNCHANGED <<cash, lots, orders, sessions, nav, cursor, sheet, plan, assessment>>
      /\ pc' = [pc EXCEPT ![p] = "validating"]
      /\ job' = [job EXCEPT ![p] = assessment[r].plan]
      /\ Approved(r)
  BY DEF Execute, Exec!Submit, Exec!Goto, Exec!ledgerVars
<1>2. IsList(assessment[r].plan.orders) /\ WithinLimit(assessment[r].plan.orders)
  BY <1>1 DEF PlansInv, Types, FilesOK, ListsCapped
<1>3. \A q \in Procs : /\ job'[q] = IF q = p THEN assessment[r].plan ELSE job[q]
                       /\ pc'[q] = IF q = p THEN "validating" ELSE pc[q]
  BY <1>1 DEF PlansInv, Types, ExecutorOK, On
<1>4. On(pc, Procs)' /\ On(job, Procs)' /\ On(orders, OrderIds)'
  BY <1>1 DEF PlansInv, Types, ExecutorOK, On
<1>5. AccountOpen'
  BY <1>1, <1>3 DEF PlansInv, Types, ExecutorOK, AccountOpen, Early
<1>6. \A q \in Procs : pc'[q] # "idle" => IsList(job'[q].orders) /\ WithinLimit(job'[q].orders)
  BY <1>2, <1>3 DEF PlansInv, Types, ExecutorOK, ListsCapped
<1>7. ExecutorOK'
  BY <1>1, <1>4, <1>5, <1>6 DEF PlansInv, Types, ExecutorOK
<1>8. ListsCapped'
  BY <1>1, <1>6 DEF PlansInv, ListsCapped, Approved, WithinLimit
<1>9. /\ FilesOK' /\ (sheet' # Absent => SheetOK') /\ OrdersAreCapped'
      /\ SalesFirst' /\ PurchasesAreFunded'
  BY <1>1 DEF PlansInv, Types, FilesOK, On, SheetOK, OrdersAreCapped, SalesFirst,
              PurchasesAreFunded, Close, MarketOf, Buys, Approved
<1>10. QED  BY <1>7, <1>8, <1>9 DEF PlansInv, Types

LEMMA WorkKeeps ==
  ASSUME PlansInv, NEW p \in Procs, Work(p)
  PROVE  PlansInv'
<1>1. /\ ExecutorOK'
      /\ \A q \in Procs : pc'[q] # "idle" => Kept(q)
      /\ \/ orders' = orders
         \/ \E i \in DOMAIN job[p].orders, status \in {"FILLED", "UNFILLED"} :
              LET o == job[p].orders[i]
              IN  orders' = [orders EXCEPT ![o.id] =
                               [plan |-> job[p], order |-> o, status |-> status]]
      /\ pc[p] # "idle"
  BY ExecutorStep DEF Work, PlansInv, Types
<1>2. UNCHANGED <<sheet, plan, assessment>>
  BY DEF Work
<1>3. OrdersAreCapped'
  <2>1. CASE orders' = orders
    BY <2>1 DEF PlansInv, OrdersAreCapped
  <2>2. CASE orders' # orders
    <3>1. PICK i \in DOMAIN job[p].orders, status \in {"FILLED", "UNFILLED"} :
            orders' = [orders EXCEPT ![job[p].orders[i].id] =
                         [plan |-> job[p], order |-> job[p].orders[i], status |-> status]]
      BY <1>1, <2>2
    <3>2. EstimatedValue(job[p].orders[i]) <= MaxOrderValue
      BY <1>1 DEF PlansInv, ListsCapped, WithinLimit
    <3>3. ASSUME NEW id \in OrderIds
          PROVE  \/ orders'[id] = orders[id]
                 \/ orders'[id].order = job[p].orders[i]
      BY <3>1 DEF PlansInv, Types, ExecutorOK, On
    <3>4. QED  BY <3>2, <3>3 DEF PlansInv, OrdersAreCapped
  <2>3. QED  BY <2>1, <2>2
<1>4. ListsCapped'
  BY <1>1, <1>2 DEF Kept, PlansInv, ListsCapped, Approved, WithinLimit
<1>5. /\ FilesOK' /\ (sheet' # Absent => SheetOK') /\ SalesFirst' /\ PurchasesAreFunded'
  BY <1>2 DEF PlansInv, Types, FilesOK, On, SheetOK, SalesFirst,
              PurchasesAreFunded, Close, MarketOf, Buys, Approved
<1>6. QED  BY <1>1, <1>3, <1>4, <1>5 DEF PlansInv, Types

LEMMA PlansInvariant == Spec => []PlansInv
<1>1. Init => PlansInv
  <2> SUFFICES ASSUME Init PROVE PlansInv
    OBVIOUS
  <2>1. /\ cash = Absent /\ orders = [id \in OrderIds |-> Absent]
        /\ pc = [p \in Procs |-> "idle"] /\ job = [p \in Procs |-> Absent]
        /\ cursor = [p \in Procs |-> 1]
        /\ sheet = Absent /\ plan = [r \in Runs |-> Absent]
        /\ assessment = [r \in Runs |-> Absent]
    BY DEF Init, Exec!Init, Exec!LedgerInit
  <2>2. Types
    BY <2>1 DEF Types, ExecutorOK, AccountOpen, Early, On, FilesOK, Approved
  <2>3. QED
    BY <2>1, <2>2 DEF PlansInv, SalesFirst, PurchasesAreFunded, ListsCapped,
                      OrdersAreCapped, Approved
<1>2. PlansInv /\ [Next]_vars => PlansInv'
  <2> SUFFICES ASSUME PlansInv, [Next]_vars
               PROVE  PlansInv'
    OBVIOUS
  <2>1. ASSUME NEW r \in Runs, NEW picks, BeginPlan(r, picks)
        PROVE  PlansInv'
    BY <2>1, BeginPlanKeeps
  <2>2. ASSUME NEW r \in Runs, NEW picks, RaiseInPlan(r, picks)
        PROVE  PlansInv'
    <3>1. cash' \in Nat /\ UNCHANGED <<orders, pc, job, cursor, sheet, plan, assessment>>
      BY <2>2, AccountOpens DEF RaiseInPlan, PlansInv, Types
    <3>2. sheet' # Absent => /\ SheetOK'
                             /\ sheet'.sells # {} => ~Buys(sheet'.orders)
                             /\ Buys(sheet'.orders) => sheet'.cash >= 0
      BY <3>1 DEF PlansInv, Types, SheetOK, Close, MarketOf, SalesFirst,
                  PurchasesAreFunded, Buys
    <3>3. QED  BY <3>1, <3>2, OnlySheet
  <2>3. ASSUME NEW r \in Runs, Approve(r) \/ Adjust(r) \/ Reject(r)
        PROVE  PlansInv'
    BY <2>3, AssessKeeps
  <2>4. ASSUME NEW r \in Runs, NEW p \in Procs, Execute(p, r)
        PROVE  PlansInv'
    BY <2>4, ExecuteKeeps
  <2>5. CASE PlanSell \/ PlanBuy
    BY <2>5, PlannerKeeps
  <2>6. CASE StorePlan
    BY <2>6, StorePlanKeeps
  <2>7. CASE LosePlan
    BY <2>7, OnlySheet DEF LosePlan
  <2>8. ASSUME NEW p \in Procs, Work(p)
        PROVE  PlansInv'
    BY <2>8, WorkKeeps
  <2>9. CASE UNCHANGED vars
    BY <2>9 DEF vars, execVars, PlansInv, Types, ExecutorOK, AccountOpen, On, FilesOK,
                SheetOK, Close, MarketOf, SalesFirst, PurchasesAreFunded, Buys,
                ListsCapped, WithinLimit, OrdersAreCapped, Approved
  <2>10. QED
    BY <2>1, <2>2, <2>3, <2>4, <2>5, <2>6, <2>7, <2>8, <2>9 DEF Next
<1>3. QED  BY <1>1, <1>2, PTL DEF Spec

(* PortfolioOrderPlanner.build never plans a purchase beyond the cash on hand  *)
(* and the net proceeds of its own sales, for any account, market and fees.    *)
THEOREM PurchasesAreFundedHolds == Spec => []PurchasesAreFunded
<1>1. PlansInv => PurchasesAreFunded
  BY DEF PlansInv
<1>2. QED  BY <1>1, PlansInvariant, PTL

(* No order above max_order_value reaches the ledger, for any plan, limit, lot *)
(* size, number of processes and deaths of the executor.                       *)
THEOREM OrdersAreCappedHolds == Spec => []OrdersAreCapped
<1>1. PlansInv => OrdersAreCapped
  BY DEF PlansInv
<1>2. QED  BY <1>1, PlansInvariant, PTL

-----------------------------------------------------------------------------
(* A plan knows dates the NAV series has, a run is planned once, and while no  *)
(* earlier date has been valued since a plan was built, the series up to the   *)
(* date of an approved run is the one its drawdown rule looked at.             *)
NavBefore(r) == {d \in Exec!Days : d < RunDate[r]}

SeenDays ==
  /\ sheet # Absent => sheet.seen.days \subseteq Exec!Days /\ plan[sheet.run] = Absent
  /\ \A r \in Runs : plan[r] # Absent => plan[r].seen.days \subseteq Exec!Days

PlannedFirst == \A r \in Runs : assessment[r] # Absent => plan[r] # Absent

DrawdownJudged ==
  \A r \in Runs :
    Approved(r) /\ NavBefore(r) \subseteq plan[r].seen.days =>
      DrawdownRule(Exec!Earlier(RunDate[r]))

DrawdownInv == SeenDays /\ PlannedFirst /\ DrawdownJudged

(* Valuing a date either leaves what a plan sees of the series, or is unseen. *)
LEMMA WorkKeepsDrawdown ==
  ASSUME PlansInv, DrawdownInv, NEW p \in Procs, Work(p)
  PROVE  DrawdownInv'
<1>1. /\ UNCHANGED <<sheet, plan, assessment>>
      /\ nav' = nav \/ \E row : row.date \notin Exec!Days /\ nav' = nav \cup {row}
  BY ExecutorStep DEF Work, PlansInv, Types
<1>2. CASE nav' = nav
  BY <1>1, <1>2 DEF DrawdownInv, SeenDays, PlannedFirst, DrawdownJudged, Approved,
                    NavBefore, Exec!Days, Exec!Earlier
<1>3. CASE nav' # nav
  <2>1. PICK row : row.date \notin Exec!Days /\ nav' = nav \cup {row}
    BY <1>1, <1>3
  <2>2. Exec!Days' = Exec!Days \cup {row.date}
    BY <2>1 DEF Exec!Days
  <2>3. SeenDays' /\ PlannedFirst'
    BY <1>1, <2>2 DEF DrawdownInv, SeenDays, PlannedFirst
  <2>4. ASSUME NEW r \in Runs, Approved(r)', NavBefore(r)' \subseteq plan'[r].seen.days
        PROVE  DrawdownRule(Exec!Earlier(RunDate[r]))'
    <3>1. Approved(r) /\ plan[r] # Absent /\ plan' = plan
      BY <1>1, <2>4 DEF Approved, DrawdownInv, PlannedFirst
    <3>2. row.date \notin plan[r].seen.days
      BY <2>1, <3>1 DEF DrawdownInv, SeenDays
    <3>3. ~ (row.date < RunDate[r])
      BY <2>2, <2>4, <3>1, <3>2 DEF NavBefore
    <3>4. Exec!Earlier(RunDate[r])' = Exec!Earlier(RunDate[r])
      BY <2>1, <3>3 DEF Exec!Earlier
    <3>5. NavBefore(r) \subseteq plan[r].seen.days
      BY <2>2, <2>4, <3>1 DEF NavBefore
    <3>6. DrawdownRule(Exec!Earlier(RunDate[r]))
      BY <3>1, <3>5 DEF DrawdownInv, DrawdownJudged
    <3>7. QED  BY <3>4, <3>6 DEF DrawdownRule
  <2>5. QED  BY <2>3, <2>4 DEF DrawdownInv, DrawdownJudged
<1>4. QED  BY <1>2, <1>3

LEMMA DrawdownInvariant == Spec => []DrawdownInv
<1>1. Init => DrawdownInv
  BY DEF Init, DrawdownInv, SeenDays, PlannedFirst, DrawdownJudged, Approved
<1>2. PlansInv /\ DrawdownInv /\ [Next]_vars => DrawdownInv'
  <2> SUFFICES ASSUME PlansInv, DrawdownInv, [Next]_vars
               PROVE  DrawdownInv'
    OBVIOUS
  <2>1. ASSUME UNCHANGED <<nav, plan, assessment>>,
               sheet' # Absent => sheet' = sheet \/ SeenDays'
        PROVE  DrawdownInv'
    BY <2>1 DEF DrawdownInv, SeenDays, PlannedFirst, DrawdownJudged, Approved,
                NavBefore, Exec!Days, Exec!Earlier
  <2>2. ASSUME NEW r \in Runs, NEW picks, BeginPlan(r, picks)
        PROVE  DrawdownInv'
    <3>1. UNCHANGED <<nav, plan, assessment>> /\ plan[r] = Absent
      BY <2>2 DEF BeginPlan, Exec!EnsureAccount
    <3>2. sheet'.run = r /\ sheet'.seen.days = Exec!Days
      BY <2>2 DEF BeginPlan
    <3>3. SeenDays'
      BY <3>1, <3>2 DEF DrawdownInv, SeenDays, Exec!Days
    <3>4. QED  BY <2>1, <3>1, <3>3
  <2>3. ASSUME NEW r \in Runs, NEW picks, RaiseInPlan(r, picks)
        PROVE  DrawdownInv'
    BY <2>1, <2>3 DEF RaiseInPlan, Exec!EnsureAccount
  <2>4. CASE PlanSell \/ PlanBuy
    <3>1. UNCHANGED <<nav, plan, assessment>> /\ sheet # Absent
      BY <2>4 DEF PlanSell, PlanBuy, execVars
    <3>2. sheet'.seen = sheet.seen /\ sheet'.run = sheet.run
      BY <2>4, <3>1 DEF PlanSell, PlanBuy, PlansInv, Types, SheetOK
    <3>3. SeenDays'
      BY <3>1, <3>2 DEF DrawdownInv, SeenDays, Exec!Days
    <3>4. QED  BY <2>1, <3>1, <3>3
  <2>5. CASE StorePlan
    <3>1. /\ UNCHANGED <<nav, assessment>> /\ sheet # Absent /\ sheet' = Absent
          /\ sheet.run \in Runs /\ plan[sheet.run] = Absent
      BY <2>5 DEF StorePlan, execVars, PlansInv, Types, SheetOK, DrawdownInv, SeenDays
    <3>2. /\ \A r \in Runs : r # sheet.run => plan'[r] = plan[r]
          /\ plan'[sheet.run].seen = sheet.seen
      BY <2>5, <3>1 DEF StorePlan, PlansInv, Types, FilesOK, On
    <3>3. assessment[sheet.run] = Absent
      BY <3>1 DEF DrawdownInv, PlannedFirst
    <3>4. SeenDays'
      BY <3>1, <3>2 DEF DrawdownInv, SeenDays, Exec!Days
    <3>5. PlannedFirst' /\ DrawdownJudged'
      BY <3>1, <3>2, <3>3
      DEF DrawdownInv, PlannedFirst, DrawdownJudged, Approved, NavBefore, Exec!Days,
          Exec!Earlier
    <3>6. QED  BY <3>4, <3>5 DEF DrawdownInv
  <2>6. CASE LosePlan
    BY <2>1, <2>6 DEF LosePlan
  <2>7. ASSUME NEW r \in Runs, Approve(r) \/ Adjust(r) \/ Reject(r)
        PROVE  DrawdownInv'
    <3>1. PICK verdict : Decide(r, verdict) /\ (verdict.decision # "REJECT" => Passing(r))
      BY <2>7 DEF Approve, Adjust, Reject
    <3>2. /\ UNCHANGED <<nav, sheet, plan>> /\ plan[r] # Absent
          /\ \A q \in Runs : assessment'[q] = IF q = r THEN verdict ELSE assessment[q]
      BY <3>1 DEF Decide, execVars, PlansInv, Types, FilesOK, On
    <3>3. SeenDays' /\ PlannedFirst'
      BY <3>2 DEF DrawdownInv, SeenDays, PlannedFirst, Exec!Days
    <3>4. ASSUME NEW q \in Runs, Approved(q)', NavBefore(q)' \subseteq plan'[q].seen.days
          PROVE  DrawdownRule(Exec!Earlier(RunDate[q]))'
      <4>1. DrawdownRule(Exec!Earlier(RunDate[q]))
        <5>1. CASE q = r
          BY <3>1, <3>2, <3>4, <5>1 DEF Approved, Passing, Passes
        <5>2. CASE q # r
          BY <3>2, <3>4, <5>2 DEF Approved, DrawdownInv, DrawdownJudged, NavBefore, Exec!Days
        <5>3. QED  BY <5>1, <5>2
      <4>2. QED  BY <3>2, <4>1 DEF DrawdownRule, Exec!Earlier
    <3>5. QED  BY <3>3, <3>4 DEF DrawdownInv, DrawdownJudged
  <2>8. ASSUME NEW r \in Runs, NEW p \in Procs, Execute(p, r)
        PROVE  DrawdownInv'
    BY <2>1, <2>8 DEF Execute, Exec!Submit, Exec!ledgerVars
  <2>9. ASSUME NEW p \in Procs, Work(p)
        PROVE  DrawdownInv'
    BY <2>9, WorkKeepsDrawdown
  <2>10. CASE UNCHANGED vars
    BY <2>1, <2>10 DEF vars, execVars
  <2>11. QED
    BY <2>2, <2>3, <2>4, <2>5, <2>6, <2>7, <2>8, <2>9, <2>10 DEF Next
<1>3. QED  BY <1>1, <1>2, PlansInvariant, PTL DEF Spec

(* A drawdown beyond max_portfolio_drawdown stops trading: no run planned with *)
(* that NAV on file is executed on a later date, for any runs and any history. *)
THEOREM DrawdownHaltsHolds == Spec => []DrawdownHalts
<1>1. DrawdownInv => DrawdownHalts
  <2> SUFFICES ASSUME DrawdownInv, NEW r \in Runs, Approved(r), Fresh(r)
               PROVE  DrawdownRule(Exec!Earlier(RunDate[r]))
    BY DEF DrawdownHalts, DrawdownRule, Exec!Equity
  <2>1. NavBefore(r) \subseteq plan[r].seen.days
    BY DEF Fresh, NavBefore
  <2>2. QED  BY <2>1 DEF DrawdownInv, DrawdownJudged
<1>2. QED  BY <1>1, DrawdownInvariant, PTL

Board(v) == \E k \in Int : v = k * LotSize

LEMMA BoardOf ==
  ASSUME NEW k \in Int
  PROVE  Board(k * LotSize)
<1> DEFINE v == k * LotSize
<1>1. v = k * LotSize
  OBVIOUS
<1> HIDE DEF v
<1>2. \E n \in Int : v = n * LotSize
  BY <1>1
<1>3. Board(v)
  BY <1>2 DEF Board
<1>4. QED  BY <1>3 DEF v

LEMMA BoardIs ==
  ASSUME NEW v \in Int
  PROVE  Board(v) <=> v % LotSize = 0
<1>1. LotSize \in Nat \ {0}
  BY PlannerAssumption
<1>2. /\ v = LotSize * (v \div LotSize) + (v % LotSize)
      /\ v \div LotSize \in Int /\ v % LotSize \in 0..LotSize-1
  BY <1>1
<1>3. ASSUME v % LotSize = 0
      PROVE  Board(v)
  <2>1. v = (v \div LotSize) * LotSize
    BY <1>1, <1>2, <1>3
  <2>2. QED  BY <1>2, <2>1, BoardOf
<1>4. ASSUME NEW k \in Int, v = k * LotSize
      PROVE  v % LotSize = 0
  BY <1>1, <1>4
<1>5. QED  BY <1>3, <1>4 DEF Board

LEMMA BoardSum ==
  ASSUME NEW a, NEW b, Board(a), Board(b)
  PROVE  Board(a + b) /\ Board(a - b) /\ a \in Int /\ b \in Int
<1>1. PICK k \in Int : a = k * LotSize
  BY DEF Board
<1>2. PICK m \in Int : b = m * LotSize
  BY DEF Board
<1>3. LotSize \in Int
  BY PlannerAssumption
<1>4. a + b = (k + m) * LotSize /\ a - b = (k - m) * LotSize
  BY <1>1, <1>2, <1>3
<1>5. Board((k + m) * LotSize) /\ Board((k - m) * LotSize)
  BY BoardOf
<1>6. a \in Int /\ b \in Int
  BY <1>1, <1>2, <1>3
<1>7. QED  BY <1>4, <1>5, <1>6

LEMMA BoardWhole ==
  ASSUME NEW v \in Int
  PROVE  Board(WholeLots(v)) /\ WholeLots(v) \in Int
<1>1. LotSize \in Nat \ {0}
  BY PlannerAssumption
<1>2. v \div LotSize \in Int
  BY <1>1
<1>3. QED  BY <1>1, <1>2, BoardOf DEF WholeLots

LEMMA BoardZero == Board(0)
BY PlannerAssumption DEF Board

LEMMA ExecSigma ==
  ASSUME NEW f, NEW S
  PROVE  Exec!SumFunctionOnSet(f, S) = Sigma(f, S)
BY DEF Sigma, SumFunctionOnSet, FoldFunctionOnSet, MapThenFoldSet,
   Exec!SumFunctionOnSet, Exec!FoldFunctionOnSet, Exec!MapThenFoldSet

-----------------------------------------------------------------------------
RunOrders(r) ==
  {PlannedOrder(r, s, side, Close(r)[s], v) :
     s \in DOMAIN Close(r), side \in Sides, v \in {n \in Nat \ {0} : Board(n)}}

LEMMA CloseType ==
  ASSUME NEW r \in Runs
  PROVE  /\ RunDate[r] \in Dates /\ DOMAIN Close(r) \subseteq Symbols
         /\ Close(r) = MarketOf(r).close /\ MarketOf(r) = Market[RunDate[r]]
         /\ \A s \in DOMAIN Close(r) : Close(r)[s] \in Nat \ {0}
BY RunsAssumption, MarketAssumption DEF Close, MarketOf

LEMMA RunOrderIs ==
  ASSUME NEW r \in Runs, NEW o \in RunOrders(r)
  PROVE  /\ o = PlannedOrder(r, o.symbol, o.side, o.price, o.volume)
         /\ o.id = OrderId(r, o.symbol, o.side, o.price, o.volume)
         /\ o.symbol \in DOMAIN Close(r) /\ o.symbol \in Symbols /\ o.side \in Sides
         /\ o.price = Close(r)[o.symbol] /\ o.price \in Nat \ {0}
         /\ o.volume \in Nat \ {0} /\ Board(o.volume)
         /\ IsOrder(o)
<1>1. PICK s \in DOMAIN Close(r), side \in Sides, v \in {n \in Nat \ {0} : Board(n)} :
        o = PlannedOrder(r, s, side, Close(r)[s], v)
  BY DEF RunOrders
<1>2. /\ o.symbol = s /\ o.side = side /\ o.price = Close(r)[s] /\ o.volume = v
      /\ o.id = OrderId(r, s, side, Close(r)[s], v)
  BY <1>1 DEF PlannedOrder
<1>3. Close(r)[s] \in Nat \ {0} /\ s \in Symbols
  BY CloseType
<1>4. o = PlannedOrder(r, o.symbol, o.side, o.price, o.volume)
  BY <1>1, <1>2
<1>5. QED  BY <1>2, <1>3, <1>4 DEF IsOrder

LEMMA RunOrderMade ==
  ASSUME NEW r \in Runs, NEW s \in DOMAIN Close(r), NEW side \in Sides,
         NEW v \in Nat \ {0}, Board(v)
  PROVE  PlannedOrder(r, s, side, Close(r)[s], v) \in RunOrders(r)
BY DEF RunOrders

(* A position's target is a whole number of lots. *)
LEMMA TargetType ==
  ASSUME NEW picks, IsFiniteSet(picks), NEW s \in picks, NEW equity \in Nat,
         NEW price \in Nat \ {0}
  PROVE  TargetVolume(picks, equity, price) \in Nat /\ Board(TargetVolume(picks, equity, price))
<1> DEFINE n == Cardinality(picks)
<1>1. n \in Nat \ {0}
  BY FS_CardinalityType, FS_EmptySet
<1>2. n * price \in Nat \ {0} /\ 100 * price \in Nat \ {0}
  BY <1>1
<1>3. MaxPositionWeight \in Nat /\ LotSize \in Nat \ {0}
  BY PlannerAssumption
<1>4. equity * MaxPositionWeight \in Nat
  BY <1>3
<1>5. equity \div (n * price) \in Nat /\ (equity * MaxPositionWeight) \div (100 * price) \in Nat
  BY <1>2, <1>4
<1>6. ASSUME NEW v \in Nat
      PROVE  WholeLots(v) \in Nat /\ Board(WholeLots(v))
  <2>1. v \div LotSize \in Nat
    BY <1>3
  <2>2. WholeLots(v) \in Nat
    BY <1>3, <2>1 DEF WholeLots
  <2>3. QED  BY <2>2, BoardWhole
<1>7. QED  BY <1>5, <1>6 DEF TargetVolume

AccountOK(a, r) ==
  /\ a \in Account
  /\ \A s \in Symbols : /\ Board(a.held[s]) /\ Board(a.available[s])
                        /\ a.available[s] <= a.held[s]
                        /\ a.held[s] # 0 => s \in DOMAIN Close(r)

PicksOK(picks) == picks \subseteq Symbols /\ IsFiniteSet(picks)

LEMMA DesiredType ==
  ASSUME NEW r \in Runs, NEW a, AccountOK(a, r), NEW picks, PicksOK(picks),
         NEW s \in DOMAIN Close(r)
  PROVE  /\ Desired(a, MarketOf(r), picks, s) \in Nat
         /\ Board(Desired(a, MarketOf(r), picks, s))
<1>1. a.equity \in Nat
  BY DEF AccountOK, Account
<1>2. Close(r)[s] \in Nat \ {0} /\ MarketOf(r).close = Close(r)
  BY CloseType
<1>3. CASE s \in picks
  BY <1>1, <1>2, <1>3, TargetType DEF Desired, PicksOK
<1>4. CASE s \notin picks
  BY <1>4, BoardZero DEF Desired
<1>5. QED  BY <1>3, <1>4

LEMMA SellVolumeType ==
  ASSUME NEW r \in Runs, NEW a, AccountOK(a, r), NEW picks, PicksOK(picks),
         NEW s \in DOMAIN Close(r)
  PROVE  /\ Board(SellVolume(a, MarketOf(r), picks, s))
         /\ SellVolume(a, MarketOf(r), picks, s) \in Int
         /\ SellVolume(a, MarketOf(r), picks, s) <= a.available[s]
<1>1. s \in Symbols
  BY CloseType
<1>2. a.held[s] \in Nat /\ a.available[s] \in Nat /\ Board(a.held[s]) /\ Board(a.available[s])
  BY <1>1 DEF AccountOK, Account
<1> DEFINE d == Desired(a, MarketOf(r), picks, s)
<1>3. d \in Nat /\ Board(d)
  BY DesiredType
<1>4. Board(a.held[s] - d) /\ a.held[s] - d \in Int
  BY <1>2, <1>3, BoardSum
<1> HIDE DEF d
<1>5. SellVolume(a, MarketOf(r), picks, s) = Smaller(a.held[s] - d, a.available[s])
  BY DEF SellVolume, d
<1>6. QED  BY <1>2, <1>4, <1>5 DEF Smaller

LEMMA AffordableBoard ==
  ASSUME NEW v \in Nat \ {0}, NEW wanted, Board(wanted), NEW price \in Nat \ {0},
         NEW budget \in Int, IsAffordable(v, wanted, price, budget)
  PROVE  Board(v) /\ v <= wanted
<1> DEFINE paid == ExecutionPrice("BUY", price)
           start == Smaller(wanted, WholeLots(budget \div paid))
<1>1. wanted \in Int
  BY PlannerAssumption DEF Board
<1>2. paid \in Nat \ {0}
  <2>1. BpsScale \in Nat \ {0} /\ SlippageBps \in Nat
    BY FeesAssumption
  <2>2. price * (BpsScale + SlippageBps) >= 1 * BpsScale /\ price * (BpsScale + SlippageBps) \in Nat
    <3>1. price * BpsScale \in Nat /\ price * SlippageBps \in Nat /\ price * BpsScale >= BpsScale
      BY <2>1
    <3>2. price * (BpsScale + SlippageBps) = price * BpsScale + price * SlippageBps
      BY <2>1
    <3>3. QED  BY <2>1, <3>1, <3>2
  <2> DEFINE q == price * (BpsScale + SlippageBps)
  <2> HIDE DEF q
  <2>3. q \in Nat /\ q >= BpsScale
    BY <2>1, <2>2 DEF q
  <2>4. q \div BpsScale \in Nat \ {0}
    BY <2>1, <2>3
  <2>5. QED  BY <2>4 DEF q, ExecutionPrice
<1>3. budget \div paid \in Int
  BY <1>2
<1>4. Board(start) /\ start \in Int /\ start <= wanted
  <2> HIDE DEF paid
  <2>1. Board(WholeLots(budget \div paid)) /\ WholeLots(budget \div paid) \in Int
    BY <1>3, BoardWhole
  <2>2. QED  BY <1>1, <2>1 DEF Smaller
<1>5. v \in 1..start /\ (start - v) % LotSize = 0
  BY DEF IsAffordable
<1> HIDE DEF start
<1>6. start - v \in Int
  BY <1>4
<1>7. Board(start - v)
  BY <1>5, <1>6, BoardIs
<1>8. Board(start - (start - v))
  BY <1>4, <1>7, BoardSum
<1>9. start - (start - v) = v
  BY <1>4
<1>10. QED  BY <1>1, <1>4, <1>5, <1>8, <1>9

-----------------------------------------------------------------------------
(* The books a snapshot is taken from. *)
LotsOK ==
  /\ lots \in Seq(Exec!Lot)
  /\ \A i \in DOMAIN lots : Board(lots[i].remaining)

Rem == [i \in DOMAIN lots |-> lots[i].remaining]

LEMMA LotFacts ==
  ASSUME LotsOK
  PROVE  /\ Len(lots) \in Nat /\ DOMAIN lots = 1..Len(lots) /\ IsFiniteSet(DOMAIN lots)
         /\ \A i \in DOMAIN lots :
              /\ lots[i] \in Exec!Lot
              /\ lots[i].symbol \in Symbols /\ lots[i].acquired \in Nat
              /\ lots[i].volume \in Nat \ {0} /\ lots[i].remaining \in Nat
              /\ Rem[i] = lots[i].remaining
<1>1. lots \in Seq(Exec!Lot)
  BY DEF LotsOK
<1>2. Len(lots) \in Nat /\ DOMAIN lots = 1..Len(lots)
  BY <1>1
<1>3. IsFiniteSet(DOMAIN lots)
  BY <1>2, FS_Interval
<1>4. ASSUME NEW i \in DOMAIN lots
      PROVE  lots[i] \in Exec!Lot
  BY <1>1, <1>4
<1>5. QED  BY <1>2, <1>3, <1>4 DEF Exec!Lot, Rem

LEMMA SharesType ==
  ASSUME LotsOK, NEW S, S \subseteq DOMAIN lots
  PROVE  /\ Exec!SharesIn(S) = Sigma(Rem, S) /\ IsFiniteSet(S)
         /\ Exec!SharesIn(S) \in Nat /\ Board(Exec!SharesIn(S))
<1>1. IsFiniteSet(S)
  BY LotFacts, FS_Subset
<1>2. \A i \in S : Rem[i] \in Nat /\ \E k \in Int : Rem[i] = k * LotSize
  BY LotFacts DEF LotsOK, Board
<1>3. Exec!SharesIn(S) = Sigma(Rem, S)
  BY ExecSigma DEF Exec!SharesIn, Rem
<1>4. Sigma(Rem, S) \in Nat
  BY <1>1, <1>2, SigmaNat
<1>5. \E k \in Int : Sigma(Rem, S) = k * LotSize
  <2>1. LotSize \in Int
    BY PlannerAssumption
  <2>2. QED  BY <1>1, <1>2, <2>1, SigmaMultiple
<1>6. QED  BY <1>1, <1>3, <1>4, <1>5 DEF Board

LEMMA MarketValueType ==
  ASSUME LotsOK, NEW d \in Dates, Exec!Priced(d)
  PROVE  Exec!MarketValue(d) \in Nat
<1> DEFINE value == [i \in Exec!Held |-> lots[i].remaining * Market[d].close[lots[i].symbol]]
<1>1. IsFiniteSet(Exec!Held)
  BY LotFacts, FS_Subset DEF Exec!Held
<1>2. ASSUME NEW i \in Exec!Held
      PROVE  value[i] \in Nat
  <2>1. lots[i].remaining \in Nat /\ lots[i].symbol \in DOMAIN Market[d].close
    BY LotFacts DEF Exec!Held, Exec!Priced
  <2>2. Market[d].close[lots[i].symbol] \in Nat
    BY <2>1, MarketAssumption
  <2>3. QED  BY <2>1, <2>2
<1>3. Exec!MarketValue(d) = Sigma(value, Exec!Held)
  BY ExecSigma DEF Exec!MarketValue
<1> HIDE DEF value
<1>4. QED  BY <1>1, <1>2, <1>3, SigmaNat

LEMMA SnapshotOK ==
  ASSUME LotsOK, NEW r \in Runs, Exec!Priced(RunDate[r]), NEW money \in Nat
  PROVE  AccountOK(Snapshot(r, money), r)
<1> DEFINE a == Snapshot(r, money)
           of(s) == {i \in DOMAIN lots : lots[i].symbol = s}
           out(s) == Exec!AvailableLots(s, RunDate[r])
<1>1. RunDate[r] \in Dates /\ Close(r) = Market[RunDate[r]].close
  BY CloseType
<1>2. ASSUME NEW s \in Symbols
      PROVE  /\ Exec!SharesIn(of(s)) \in Nat /\ Board(Exec!SharesIn(of(s)))
             /\ Exec!SharesIn(out(s)) \in Nat /\ Board(Exec!SharesIn(out(s)))
             /\ Exec!SharesIn(out(s)) <= Exec!SharesIn(of(s))
  <2>1. of(s) \subseteq DOMAIN lots /\ out(s) \subseteq of(s)
    BY DEF Exec!AvailableLots
  <2>2. /\ \A i \in of(s) : Rem[i] \in Nat
        /\ of(s) \ out(s) \subseteq DOMAIN lots
    BY <2>1, LotFacts
  <2> HIDE DEF of, out
  <2>3. /\ Exec!SharesIn(of(s)) = Sigma(Rem, of(s)) /\ IsFiniteSet(of(s))
        /\ Exec!SharesIn(out(s)) = Sigma(Rem, out(s))
        /\ Exec!SharesIn(of(s) \ out(s)) = Sigma(Rem, of(s) \ out(s))
        /\ Exec!SharesIn(of(s)) \in Nat /\ Board(Exec!SharesIn(of(s)))
        /\ Exec!SharesIn(out(s)) \in Nat /\ Board(Exec!SharesIn(out(s)))
        /\ Exec!SharesIn(of(s) \ out(s)) \in Nat
    BY <2>1, <2>2, SharesType
  <2>4. Sigma(Rem, of(s)) = Sigma(Rem, out(s)) + Sigma(Rem, of(s) \ out(s))
    BY <2>1, <2>2, <2>3, SigmaRest
  <2>5. QED  BY <2>3, <2>4
<1>3. ASSUME NEW s \in Symbols, s \notin DOMAIN Close(r)
      PROVE  Exec!SharesIn(of(s)) = 0
  <2>1. of(s) \subseteq DOMAIN lots
    OBVIOUS
  <2>2. \A i \in of(s) : Rem[i] = 0
    <3>1. ASSUME NEW i \in of(s), Rem[i] # 0 PROVE FALSE
      <4>1. i \in DOMAIN lots /\ lots[i].symbol = s /\ lots[i].remaining > 0
        BY <3>1, LotFacts
      <4>2. s \in DOMAIN Market[RunDate[r]].close
        BY <4>1 DEF Exec!Priced, Exec!Held
      <4>3. QED  BY <1>1, <1>3, <4>2
    <3>2. QED  BY <3>1
  <2>3. Exec!SharesIn(of(s)) = Sigma(Rem, of(s)) /\ IsFiniteSet(of(s))
    BY <2>1, SharesType
  <2> HIDE DEF of
  <2>4. Sigma(Rem, of(s)) = Sigma(Rem, {})
    BY <2>2, <2>3, SigmaZeros
  <2>5. QED  BY <2>3, <2>4, SigmaEmpty
<1>4. Exec!MarketValue(RunDate[r]) \in Nat
  BY <1>1, MarketValueType
<1>5. a = [cash |-> money, equity |-> money + Exec!MarketValue(RunDate[r]),
           held |-> [s \in Symbols |-> Exec!SharesIn(of(s))],
           available |-> [s \in Symbols |-> Exec!SharesIn(out(s))]]
  BY DEF Snapshot
<1> HIDE DEF of, out, a
<1>6. a \in Account
  BY <1>2, <1>4, <1>5 DEF Account
<1>7. ASSUME NEW s \in Symbols
      PROVE  /\ Board(a.held[s]) /\ Board(a.available[s])
             /\ a.available[s] <= a.held[s]
             /\ a.held[s] # 0 => s \in DOMAIN Close(r)
  BY <1>2, <1>3, <1>5
<1>8. QED  BY <1>6, <1>7 DEF AccountOK, a

-----------------------------------------------------------------------------
(* What the fills do to the books: holdings, and what may be sold on a date. *)
OfSymbol(s) == {i \in DOMAIN lots : lots[i].symbol = s}
HeldNow(s) == Exec!SharesIn(OfSymbol(s))
SellableNow(s, d) == Exec!SharesIn(Exec!AvailableLots(s, d))

LEMMA BooksNow ==
  ASSUME LotsOK, NEW s, NEW d
  PROVE  /\ OfSymbol(s) \subseteq DOMAIN lots /\ Exec!AvailableLots(s, d) \subseteq DOMAIN lots
         /\ IsFiniteSet(OfSymbol(s)) /\ IsFiniteSet(Exec!AvailableLots(s, d))
         /\ HeldNow(s) = Sigma(Rem, OfSymbol(s)) /\ HeldNow(s) \in Nat
         /\ SellableNow(s, d) = Sigma(Rem, Exec!AvailableLots(s, d))
         /\ SellableNow(s, d) \in Nat
<1>1. OfSymbol(s) \subseteq DOMAIN lots /\ Exec!AvailableLots(s, d) \subseteq DOMAIN lots
  BY DEF OfSymbol, Exec!AvailableLots
<1>2. QED  BY <1>1, SharesType DEF HeldNow, SellableNow

LEMMA BuyEffect ==
  ASSUME LotsOK, NEW doc, doc.date \in Dates, NEW o, o.symbol \in Symbols,
         o.volume \in Nat \ {0}, Board(o.volume), Exec!FillBuy(doc, o)
  PROVE  /\ LotsOK'
         /\ \A s : /\ HeldNow(s)' = HeldNow(s) + (IF o.symbol = s THEN o.volume ELSE 0)
                   /\ SellableNow(s, doc.date)' = SellableNow(s, doc.date)
<1> DEFINE n == Len(lots) + 1
           lot == [symbol |-> o.symbol, acquired |-> doc.date,
                   volume |-> o.volume, remaining |-> o.volume]
<1>1. lots \in Seq(Exec!Lot) /\ lots' = Append(lots, lot)
  BY DEF Exec!FillBuy, LotsOK
<1>2. doc.date \in Nat
  BY DatesAssumption
<1>3. lot \in Exec!Lot
  BY <1>2 DEF Exec!Lot
<1>4. /\ lots' \in Seq(Exec!Lot) /\ DOMAIN lots' = DOMAIN lots \cup {n}
      /\ n \notin DOMAIN lots /\ lots'[n] = lot
      /\ \A i \in DOMAIN lots : lots'[i] = lots[i]
  <2> HIDE DEF lot
  <2>1. /\ lots' \in Seq(Exec!Lot) /\ Len(lots') = n /\ DOMAIN lots' = 1..n
        /\ lots'[n] = lot /\ \A i \in 1..Len(lots) : lots'[i] = lots[i]
    BY <1>1, <1>3, LotFacts
  <2>2. QED  BY <2>1, LotFacts
<1>5. LotsOK'
  <2>1. \A i \in DOMAIN lots' : Board(lots'[i].remaining)
    BY <1>4 DEF LotsOK
  <2>2. QED  BY <1>4, <2>1 DEF LotsOK, Board
<1>6. ASSUME NEW s
      PROVE  /\ HeldNow(s)' = HeldNow(s) + (IF o.symbol = s THEN o.volume ELSE 0)
             /\ SellableNow(s, doc.date)' = SellableNow(s, doc.date)
  <2> DEFINE S == OfSymbol(s)
             T == Exec!AvailableLots(s, doc.date)
  <2>1. S' = IF o.symbol = s THEN S \cup {n} ELSE S
    <3>1. S' = {i \in DOMAIN lots' : lots'[i].symbol = s}
      BY DEF OfSymbol
    <3>2. \A i \in DOMAIN lots : i \in S' <=> i \in S
      BY <1>4, <3>1 DEF OfSymbol
    <3>3. n \in S' <=> o.symbol = s
      BY <1>4, <3>1
    <3>4. S' \subseteq DOMAIN lots \cup {n} /\ S \subseteq DOMAIN lots
      BY <1>4, <3>1 DEF OfSymbol
    <3> HIDE DEF S, n
    <3>5. QED  BY <3>2, <3>3, <3>4
  <2>2. T' = T
    <3>1. T' = {i \in DOMAIN lots' : /\ lots'[i].symbol = s /\ lots'[i].acquired < doc.date
                                     /\ lots'[i].remaining > 0}
      BY DEF Exec!AvailableLots
    <3>2. n \notin T'
      BY <1>2, <1>4, <3>1
    <3>3. \A i \in DOMAIN lots : i \in T' <=> i \in T
      BY <1>4, <3>1 DEF Exec!AvailableLots
    <3>4. T' \subseteq DOMAIN lots \cup {n} /\ T \subseteq DOMAIN lots
      BY <1>4, <3>1 DEF Exec!AvailableLots
    <3> HIDE DEF T, n
    <3>5. QED  BY <3>2, <3>3, <3>4
  <2>3. /\ Rem'[n] = o.volume /\ \A i \in DOMAIN lots : Rem'[i] = Rem[i] /\ Rem[i] \in Int
    <3>1. Rem' = [i \in DOMAIN lots' |-> lots'[i].remaining]
      BY DEF Rem
    <3>2. QED  BY <1>4, <3>1, LotFacts
  <2>4. /\ HeldNow(s)' = Sigma(Rem', S') /\ HeldNow(s) = Sigma(Rem, S)
        /\ SellableNow(s, doc.date)' = Sigma(Rem', T')
        /\ SellableNow(s, doc.date) = Sigma(Rem, T)
    <3>1. /\ HeldNow(s)' = Exec!SumFunctionOnSet(Rem', S')
          /\ SellableNow(s, doc.date)' = Exec!SumFunctionOnSet(Rem', T')
      BY DEF HeldNow, SellableNow, Exec!SharesIn, Rem
    <3>2. QED  BY <3>1, BooksNow, ExecSigma
  <2>5. /\ S \subseteq DOMAIN lots /\ T \subseteq DOMAIN lots
        /\ IsFiniteSet(S) /\ IsFiniteSet(T)
        /\ HeldNow(s) \in Int
    BY BooksNow
  <2> HIDE DEF S, T, n
  <2>6. Sigma(Rem', T) = Sigma(Rem, T)
    BY <2>3, <2>5, SigmaSame
  <2>7. Sigma(Rem', S) = Sigma(Rem, S)
    BY <2>3, <2>5, SigmaSame
  <2>8. Sigma(Rem', S \cup {n}) = Rem'[n] + Sigma(Rem, S)
    <3>1. n \notin S
      BY <1>4, <2>5 DEF n
    <3>2. QED  BY <3>1, <2>3, <2>5, SigmaGrow
  <2>9. QED  BY <2>1, <2>2, <2>3, <2>4, <2>5, <2>6, <2>7, <2>8
<1>7. QED  BY <1>5, <1>6

(* A sale takes whole lots: at most one lot is taken in part. *)
LEMMA TakenWhole ==
  ASSUME LotsOK, NEW s, NEW d, NEW v \in Nat, Board(v),
         NEW taken \in [DOMAIN lots -> 0..v], Exec!DrawnFIFO(taken, s, d, v)
  PROVE  \A i \in DOMAIN lots : Board(taken[i])
<1> DEFINE avail == Exec!AvailableLots(s, d)
           Part == {i \in avail : taken[i] # 0 /\ taken[i] # lots[i].remaining}
<1>1. /\ \A i \in DOMAIN lots \ avail : taken[i] = 0
      /\ Sigma(taken, avail) = v
      /\ \A i, j \in avail : Exec!Ahead(i, j) /\ taken[j] > 0 => taken[i] = lots[i].remaining
  BY ExecSigma DEF Exec!DrawnFIFO
<1>2. avail \subseteq DOMAIN lots /\ IsFiniteSet(avail)
  BY BooksNow
<1>3. \A i \in DOMAIN lots : taken[i] \in Nat /\ lots[i].acquired \in Nat /\ i \in Nat
  BY LotFacts
<1>4. \A i \in avail : i \notin Part => Board(taken[i])
  BY <1>2, BoardZero DEF LotsOK
<1>5. \A i, j \in Part : i = j
  <2>1. SUFFICES ASSUME NEW i \in Part, NEW j \in Part, i # j
                 PROVE  FALSE
    OBVIOUS
  <2>2. Exec!Ahead(i, j) \/ Exec!Ahead(j, i)
    BY <1>2, <1>3, <2>1 DEF Exec!Ahead
  <2>3. taken[i] > 0 /\ taken[j] > 0
    BY <1>2, <1>3
  <2>4. QED  BY <1>1, <2>2, <2>3
<1>6. ASSUME NEW i \in Part
      PROVE  Board(taken[i])
  <2>1. i \in avail /\ \A j \in avail \ {i} : Board(taken[j])
    BY <1>4, <1>5
  <2>2. IsFiniteSet(avail \ {i}) /\ \A j \in avail : taken[j] \in Int
    BY <1>2, <1>3, FS_Subset
  <2> HIDE DEF avail, Part
  <2>3. Sigma(taken, avail) = taken[i] + Sigma(taken, avail \ {i})
    BY <1>2, <2>1, <2>2, SigmaTake
  <2>4. Sigma(taken, avail \ {i}) \in Int
    BY <2>2, SigmaInt
  <2>5. LotSize \in Int
    BY PlannerAssumption
  <2>6. \E k \in Int : Sigma(taken, avail \ {i}) = k * LotSize
    BY <2>1, <2>2, <2>5, SigmaMultiple DEF Board
  <2>7. Board(v - Sigma(taken, avail \ {i}))
    BY <2>6, BoardSum DEF Board
  <2>8. taken[i] \in Int
    BY <2>1, <2>2
  <2>9. v - Sigma(taken, avail \ {i}) = taken[i]
    BY <1>1, <2>3, <2>4, <2>8
  <2>10. QED  BY <2>7, <2>9
<1>7. ASSUME NEW i \in DOMAIN lots
      PROVE  Board(taken[i])
  BY <1>1, <1>4, <1>6, BoardZero
<1>8. QED  BY <1>7

LEMMA SellEffect ==
  ASSUME LotsOK, NEW doc, doc.date \in Dates, NEW o, o.symbol \in Symbols,
         o.volume \in Nat \ {0}, Board(o.volume), Exec!FillSell(doc, o)
  PROVE  /\ LotsOK'
         /\ \A s : /\ HeldNow(s)' = HeldNow(s) - (IF o.symbol = s THEN o.volume ELSE 0)
                   /\ SellableNow(s, doc.date)' =
                        SellableNow(s, doc.date) - (IF o.symbol = s THEN o.volume ELSE 0)
<1> DEFINE avail == Exec!AvailableLots(o.symbol, doc.date)
<1>1. PICK taken \in [DOMAIN lots -> 0..o.volume] :
        /\ Exec!DrawnFIFO(taken, o.symbol, doc.date, o.volume)
        /\ lots' = [i \in DOMAIN lots |-> [lots[i] EXCEPT !.remaining = @ - taken[i]]]
  BY DEF Exec!FillSell
<1>2. /\ \A i \in DOMAIN lots : taken[i] <= lots[i].remaining
      /\ \A i \in DOMAIN lots \ avail : taken[i] = 0
      /\ Sigma(taken, avail) = o.volume
  BY <1>1, ExecSigma DEF Exec!DrawnFIFO
<1>3. \A i \in DOMAIN lots : taken[i] \in Nat /\ Board(taken[i])
  BY <1>1, TakenWhole
<1>4. avail \subseteq DOMAIN lots /\ IsFiniteSet(avail)
  BY BooksNow
<1>5. /\ DOMAIN lots' = DOMAIN lots
      /\ \A i \in DOMAIN lots :
           /\ lots'[i].symbol = lots[i].symbol /\ lots'[i].acquired = lots[i].acquired
           /\ lots'[i].remaining = lots[i].remaining - taken[i]
           /\ lots'[i] \in Exec!Lot
  <2>1. DOMAIN lots' = DOMAIN lots
    BY <1>1
  <2>2. ASSUME NEW i \in DOMAIN lots
        PROVE  /\ lots'[i].symbol = lots[i].symbol /\ lots'[i].acquired = lots[i].acquired
               /\ lots'[i].remaining = lots[i].remaining - taken[i]
               /\ lots'[i] \in Exec!Lot
    <3>1. lots[i] \in Exec!Lot /\ lots[i].remaining \in Nat
      BY LotFacts
    <3>2. lots'[i] = [lots[i] EXCEPT !.remaining = @ - taken[i]]
      BY <1>1
    <3>3. lots[i].remaining - taken[i] \in Nat
      BY <1>2, <1>3, <3>1
    <3>4. QED  BY <3>1, <3>2, <3>3 DEF Exec!Lot
  <2>3. QED  BY <2>1, <2>2
<1>6. LotsOK'
  <2>1. lots' \in Seq(Exec!Lot)
    <3>1. lots' = [i \in 1..Len(lots) |-> lots'[i]]
      BY <1>1, LotFacts
    <3>2. lots' \in [1..Len(lots) -> Exec!Lot]
      BY <3>1, <1>5, LotFacts
    <3>3. QED  BY <3>2, LotFacts, SeqDef
  <2>2. \A i \in DOMAIN lots : Board(lots'[i].remaining)
    BY <1>3, <1>5, BoardSum DEF LotsOK
  <2>3. QED  BY <1>5, <2>1, <2>2 DEF LotsOK, Board
<1>7. Rem' = [i \in DOMAIN lots |-> lots[i].remaining - taken[i]]
  <2>1. Rem' = [i \in DOMAIN lots' |-> lots'[i].remaining]
    BY DEF Rem
  <2>2. QED  BY <2>1, <1>5
<1>8. \A i \in DOMAIN lots : Rem[i] = Rem'[i] + taken[i] /\ Rem'[i] \in Int /\ taken[i] \in Int
  BY <1>3, <1>7, LotFacts
<1>9. ASSUME NEW S, S \subseteq DOMAIN lots
      PROVE  /\ Sigma(Rem, S) = Sigma(Rem', S) + Sigma(taken, S)
             /\ Sigma(Rem', S) \in Int /\ Sigma(taken, S) \in Int
  <2>1. IsFiniteSet(S)
    BY <1>9, SharesType
  <2>2. \A i \in S : Rem'[i] \in Int /\ taken[i] \in Int /\ Rem[i] = Rem'[i] + taken[i]
    BY <1>8, <1>9
  <2>3. Sigma(Rem, S) = Sigma(Rem', S) + Sigma(taken, S)
    BY <2>1, <2>2, SigmaPlus
  <2>4. QED  BY <2>1, <2>2, <2>3, SigmaInt
<1>10. ASSUME NEW s
       PROVE  /\ HeldNow(s)' = HeldNow(s) - (IF o.symbol = s THEN o.volume ELSE 0)
              /\ SellableNow(s, doc.date)' =
                   SellableNow(s, doc.date) - (IF o.symbol = s THEN o.volume ELSE 0)
  <2> DEFINE S == OfSymbol(s)
             T == Exec!AvailableLots(s, doc.date)
  <2>1. S \subseteq DOMAIN lots /\ T \subseteq DOMAIN lots /\ IsFiniteSet(S) /\ IsFiniteSet(T)
        /\ HeldNow(s) = Sigma(Rem, S) /\ SellableNow(s, doc.date) = Sigma(Rem, T)
    BY BooksNow
  <2>2. S' = S
    BY <1>5 DEF OfSymbol
  <2>3. T' \subseteq T /\ \A i \in T \ T' : Rem'[i] = 0
    <3>1. T' = {i \in DOMAIN lots : /\ lots[i].symbol = s /\ lots[i].acquired < doc.date
                                    /\ lots'[i].remaining > 0}
      BY <1>5 DEF Exec!AvailableLots
    <3>2. \A i \in DOMAIN lots : lots'[i].remaining > 0 => lots[i].remaining > 0
      BY <1>3, <1>5, LotFacts
    <3>3. T' \subseteq T
      BY <3>1, <3>2 DEF Exec!AvailableLots
    <3>4. ASSUME NEW i \in T \ T'
          PROVE  Rem'[i] = 0
      <4>1. i \in DOMAIN lots /\ ~(lots'[i].remaining > 0)
        BY <3>1 DEF Exec!AvailableLots
      <4>2. lots'[i].remaining \in Nat
        BY <1>5, <4>1 DEF Exec!Lot
      <4>3. Rem'[i] = lots'[i].remaining
        BY <1>5, <1>7, <4>1
      <4>4. QED  BY <4>1, <4>2, <4>3
    <3>5. QED  BY <3>3, <3>4
  <2>4. HeldNow(s)' = Sigma(Rem', S') /\ SellableNow(s, doc.date)' = Sigma(Rem', T')
    <3>1. /\ HeldNow(s)' = Exec!SumFunctionOnSet(Rem', S')
          /\ SellableNow(s, doc.date)' = Exec!SumFunctionOnSet(Rem', T')
      BY DEF HeldNow, SellableNow, Exec!SharesIn, Rem
    <3>2. QED  BY <3>1, ExecSigma
  <2>5. Sigma(Rem', T') = Sigma(Rem', T)
    <3>1. \A i \in T : Rem'[i] \in Int
      BY <1>8, <2>1
    <3> HIDE DEF T
    <3>2. QED  BY <2>1, <2>3, <3>1, SigmaZeros
  <2>6. /\ o.symbol = s => avail \subseteq S /\ avail = T
        /\ o.symbol # s => S \cap avail = {} /\ T \cap avail = {}
    BY DEF OfSymbol, Exec!AvailableLots
  <2>7. ASSUME NEW U, U \subseteq DOMAIN lots, IsFiniteSet(U),
               o.symbol = s => avail \subseteq U, o.symbol # s => U \cap avail = {}
        PROVE  Sigma(taken, U) = IF o.symbol = s THEN o.volume ELSE 0
    <3> HIDE DEF avail
    <3>1. \A i \in U : taken[i] \in Int /\ (i \notin avail => taken[i] = 0)
      BY <1>2, <1>3, <2>7
    <3>2. CASE o.symbol = s
      BY <1>2, <2>7, <3>1, <3>2, SigmaZeros
    <3>3. CASE o.symbol # s
      <4>1. \A i \in U \ {} : taken[i] = 0
        BY <2>7, <3>1, <3>3
      <4>2. Sigma(taken, U) = Sigma(taken, {})
        BY <2>7, <3>1, <4>1, SigmaZeros
      <4>3. QED  BY <3>3, <4>2, SigmaEmpty
    <3>4. QED  BY <3>2, <3>3
  <2> HIDE DEF S, T, avail
  <2>8. /\ Sigma(taken, S) = IF o.symbol = s THEN o.volume ELSE 0
        /\ Sigma(taken, T) = IF o.symbol = s THEN o.volume ELSE 0
    BY <2>1, <2>6, <2>7
  <2> DEFINE moved == IF o.symbol = s THEN o.volume ELSE 0
  <2>9. /\ HeldNow(s) = Sigma(Rem', S) + moved /\ Sigma(Rem', S) \in Int
        /\ SellableNow(s, doc.date) = Sigma(Rem', T) + moved /\ Sigma(Rem', T) \in Int
        /\ moved \in Int
    BY <1>9, <2>1, <2>8
  <2>10. HeldNow(s)' = Sigma(Rem', S) /\ SellableNow(s, doc.date)' = Sigma(Rem', T)
    BY <2>2, <2>4, <2>5
  <2> HIDE DEF moved
  <2>11. HeldNow(s)' = HeldNow(s) - moved /\ SellableNow(s, doc.date)' = SellableNow(s, doc.date) - moved
    BY <2>9, <2>10
  <2>12. QED  BY <2>11 DEF moved
<1>11. QED  BY <1>6, <1>10

-----------------------------------------------------------------------------
(* A run's orders as the planner lays them out: one a symbol, sales first, and *)
(* no sale of more than the account may sell.                                   *)
Layout(a, list) ==
  /\ \A i, j \in DOMAIN list : list[i].symbol = list[j].symbol => i = j
  /\ \A i, j \in DOMAIN list : i < j /\ list[j].side = "SELL" => list[i].side = "SELL"
  /\ \A i \in DOMAIN list :
       list[i].side = "SELL" => list[i].volume <= a.available[list[i].symbol]

OrdersOf(r, a, list) == list \in Seq(RunOrders(r)) /\ Layout(a, list)

(* What each order of a list does to the cash, to a holding and to what may be sold. *)
Deltas(list) == [i \in DOMAIN list |-> CashDelta(list[i])]

Values(list) == [i \in DOMAIN list |-> EstimatedValue(list[i])]

Bought(list, s) ==
  [i \in DOMAIN list |-> IF list[i].symbol = s /\ list[i].side = "BUY"
                         THEN list[i].volume ELSE 0]

Sold(list, s) ==
  [i \in DOMAIN list |-> IF list[i].symbol = s /\ list[i].side = "SELL"
                         THEN list[i].volume ELSE 0]

Moved(list, s) == [i \in DOMAIN list |-> Bought(list, s)[i] - Sold(list, s)[i]]

LEMMA RunListFacts ==
  ASSUME NEW r \in Runs, NEW list \in Seq(RunOrders(r))
  PROVE  /\ Len(list) \in Nat /\ DOMAIN list = 1..Len(list) /\ IsFiniteSet(DOMAIN list)
         /\ \A i \in DOMAIN list :
              /\ list[i] \in RunOrders(r) /\ IsOrder(list[i])
              /\ list[i].symbol \in DOMAIN Close(r) /\ list[i].symbol \in Symbols
              /\ list[i].price = Close(r)[list[i].symbol]
              /\ list[i].side \in Sides /\ list[i].volume \in Nat \ {0}
              /\ Deltas(list)[i] = CashDelta(list[i]) /\ Deltas(list)[i] \in Int
              /\ Values(list)[i] = EstimatedValue(list[i]) /\ Values(list)[i] \in Nat
              /\ \A s : /\ Bought(list, s)[i] \in Nat /\ Sold(list, s)[i] \in Nat
                        /\ Moved(list, s)[i] \in Int
                        /\ Bought(list, s)[i] = Moved(list, s)[i] + Sold(list, s)[i]
                        /\ list[i].symbol # s => Moved(list, s)[i] = 0 /\ Sold(list, s)[i] = 0
<1>1. Len(list) \in Nat /\ DOMAIN list = 1..Len(list)
  OBVIOUS
<1>2. IsFiniteSet(DOMAIN list)
  BY <1>1, FS_Interval
<1>3. ASSUME NEW i \in DOMAIN list
      PROVE  /\ list[i] \in RunOrders(r) /\ IsOrder(list[i])
             /\ list[i].symbol \in DOMAIN Close(r) /\ list[i].symbol \in Symbols
             /\ list[i].price = Close(r)[list[i].symbol]
             /\ list[i].side \in Sides /\ list[i].volume \in Nat \ {0}
  BY RunOrderIs
<1>4. ASSUME NEW i \in DOMAIN list
      PROVE  /\ Deltas(list)[i] = CashDelta(list[i]) /\ Deltas(list)[i] \in Int
             /\ Values(list)[i] = EstimatedValue(list[i]) /\ Values(list)[i] \in Nat
  BY <1>3, MoneyTypes DEF Deltas, Values
<1>5. ASSUME NEW i \in DOMAIN list, NEW s
      PROVE  /\ Bought(list, s)[i] \in Nat /\ Sold(list, s)[i] \in Nat
             /\ Moved(list, s)[i] \in Int
             /\ Bought(list, s)[i] = Moved(list, s)[i] + Sold(list, s)[i]
             /\ list[i].symbol # s => Moved(list, s)[i] = 0 /\ Sold(list, s)[i] = 0
  <2>1. list[i].volume \in Nat
    BY <1>3
  <2>2. Bought(list, s)[i] \in Nat /\ Sold(list, s)[i] \in Nat
    BY <2>1 DEF Bought, Sold
  <2>3. Moved(list, s)[i] = Bought(list, s)[i] - Sold(list, s)[i]
    BY DEF Moved
  <2>4. list[i].symbol # s => Bought(list, s)[i] = 0 /\ Sold(list, s)[i] = 0
    BY DEF Bought, Sold
  <2>5. QED  BY <2>2, <2>3, <2>4
<1>6. QED  BY <1>1, <1>2, <1>3, <1>4, <1>5

(* The sums of the risk engine, order by order. *)
LEMMA AfterSums ==
  ASSUME NEW r \in Runs, NEW a \in Account, NEW list \in Seq(RunOrders(r))
  PROVE  /\ CashAfter(a, list) = a.cash + Sigma(Deltas(list), DOMAIN list)
         /\ CashAfter(a, list) \in Int
         /\ Turnover(list) = Sigma(Values(list), DOMAIN list)
         /\ \A s \in Symbols :
              /\ HeldAfter(a, list, s) = a.held[s] + Sigma(Moved(list, s), DOMAIN list)
              /\ HeldAfter(a, list, s) \in Int
<1> DEFINE D == DOMAIN list
<1>1. IsFiniteSet(D)
  BY RunListFacts
<1>2. CashAfter(a, list) = a.cash + Sigma(Deltas(list), D) /\ Turnover(list) = Sigma(Values(list), D)
  BY DEF CashAfter, Turnover, Sigma, Deltas, Values
<1>3. Sigma(Deltas(list), D) \in Int
  BY <1>1, RunListFacts, SigmaInt
<1>4. a.cash \in Int
  BY DEF Account
<1>5. ASSUME NEW s \in Symbols
      PROVE  /\ HeldAfter(a, list, s) = a.held[s] + Sigma(Moved(list, s), D)
             /\ HeldAfter(a, list, s) \in Int
  <2> DEFINE B == {i \in D : list[i].symbol = s /\ list[i].side = "BUY"}
             S == {i \in D : list[i].symbol = s /\ list[i].side = "SELL"}
             vol == [i \in D |-> list[i].volume]
  <2>1. \A i \in D : /\ vol[i] \in Int /\ Bought(list, s)[i] \in Int /\ Sold(list, s)[i] \in Int
                     /\ Moved(list, s)[i] \in Int
                     /\ Bought(list, s)[i] = Moved(list, s)[i] + Sold(list, s)[i]
    BY RunListFacts
  <2>2. /\ \A i \in B : Bought(list, s)[i] = vol[i]
        /\ \A i \in D \ B : Bought(list, s)[i] = 0
        /\ \A i \in S : Sold(list, s)[i] = vol[i]
        /\ \A i \in D \ S : Sold(list, s)[i] = 0
    BY DEF Bought, Sold
  <2>3. /\ Traded(list, s, "BUY") = Sigma(vol, B) /\ Traded(list, s, "SELL") = Sigma(vol, S)
        /\ B \subseteq D /\ S \subseteq D
    BY DEF Traded, Sigma
  <2>4. a.held[s] \in Int
    BY DEF Account
  <2> HIDE DEF B, S, vol, D
  <2>5. IsFiniteSet(B) /\ IsFiniteSet(S)
    BY <1>1, <2>3, FS_Subset
  <2>6. Sigma(Bought(list, s), D) = Sigma(Bought(list, s), B)
    BY <1>1, <2>1, <2>2, <2>3, SigmaZeros
  <2>7. Sigma(Bought(list, s), B) = Sigma(vol, B)
    BY <2>1, <2>2, <2>3, <2>5, SigmaSame
  <2>8. Sigma(Sold(list, s), D) = Sigma(Sold(list, s), S)
    BY <1>1, <2>1, <2>2, <2>3, SigmaZeros
  <2>9. Sigma(Sold(list, s), S) = Sigma(vol, S)
    BY <2>1, <2>2, <2>3, <2>5, SigmaSame
  <2>10. Sigma(Bought(list, s), D) = Sigma(Moved(list, s), D) + Sigma(Sold(list, s), D)
    BY <1>1, <2>1, SigmaPlus
  <2>11. Sigma(Moved(list, s), D) \in Int /\ Sigma(Sold(list, s), D) \in Int
    BY <1>1, <2>1, SigmaInt
  <2>12. HeldAfter(a, list, s) = a.held[s] + Traded(list, s, "BUY") - Traded(list, s, "SELL")
    BY DEF HeldAfter
  <2>13. QED  BY <2>3, <2>4, <2>6, <2>7, <2>8, <2>9, <2>10, <2>11, <2>12
<1>6. QED  BY <1>2, <1>3, <1>4, <1>5

LEMMA BuyDelta ==
  ASSUME NEW o, IsOrder(o)
  PROVE  /\ o.side = "BUY" => CashDelta(o) = -(EstimatedValue(o) + EstimatedFee(o)) /\ CashDelta(o) <= 0
         /\ o.side = "SELL" => CashDelta(o) = EstimatedValue(o) - EstimatedFee(o)
         /\ o.side = "BUY" \/ o.side = "SELL"
BY MoneyTypes DEF CashDelta, IsOrder, Sides

(* An order on top of a list. *)
LEMMA AppendSums ==
  ASSUME NEW r \in Runs, NEW a \in Account, NEW list \in Seq(RunOrders(r)), NEW o \in RunOrders(r)
  PROVE  /\ Append(list, o) \in Seq(RunOrders(r))
         /\ CashAfter(a, Append(list, o)) = CashAfter(a, list) + CashDelta(o)
<1> DEFINE n == Len(list) + 1
           more == Append(list, o)
<1>1. /\ more \in Seq(RunOrders(r)) /\ DOMAIN more = DOMAIN list \cup {n} /\ n \notin DOMAIN list
      /\ more[n] = o /\ \A i \in DOMAIN list : more[i] = list[i]
  <2>1. /\ more \in Seq(RunOrders(r)) /\ Len(more) = n /\ DOMAIN more = 1..n
        /\ more[n] = o /\ \A i \in 1..Len(list) : more[i] = list[i]
    OBVIOUS
  <2>2. QED  BY <2>1, RunListFacts
<1> HIDE DEF more, n
<1>2. IsFiniteSet(DOMAIN list) /\ n \in DOMAIN more
  BY <1>1, RunListFacts
<1>3. \A i \in DOMAIN list : Deltas(list)[i] \in Int /\ Deltas(more)[i] = Deltas(list)[i]
  BY <1>1, RunListFacts DEF Deltas
<1>4. Deltas(more)[n] = CashDelta(o) /\ Deltas(more)[n] \in Int
  BY <1>1, <1>2, RunListFacts
<1>5. Sigma(Deltas(more), DOMAIN more) = CashDelta(o) + Sigma(Deltas(list), DOMAIN list)
  BY <1>1, <1>2, <1>3, <1>4, SigmaGrow
<1>6. Sigma(Deltas(list), DOMAIN list) \in Int /\ a.cash \in Int
  BY <1>2, <1>3, SigmaInt DEF Account
<1>7. /\ CashAfter(a, more) = a.cash + Sigma(Deltas(more), DOMAIN more)
      /\ CashAfter(a, list) = a.cash + Sigma(Deltas(list), DOMAIN list)
  BY <1>1, AfterSums
<1>8. CashDelta(o) \in Int
  BY <1>4
<1>9. CashAfter(a, more) = CashAfter(a, list) + CashDelta(o)
  BY <1>5, <1>6, <1>7, <1>8
<1>10. QED  BY <1>1, <1>9 DEF more

LEMMA AppendLayout ==
  ASSUME NEW r \in Runs, NEW a, NEW list, OrdersOf(r, a, list), NEW o \in RunOrders(r),
         \A i \in DOMAIN list : list[i].symbol # o.symbol,
         o.side = "SELL" => ~Buys(list) /\ o.volume <= a.available[o.symbol]
  PROVE  OrdersOf(r, a, Append(list, o))
<1> DEFINE n == Len(list) + 1
           more == Append(list, o)
<1>1. /\ more \in Seq(RunOrders(r)) /\ DOMAIN more = DOMAIN list \cup {n} /\ n \notin DOMAIN list
      /\ more[n] = o /\ (\A i \in DOMAIN list : more[i] = list[i])
      /\ \A i \in DOMAIN list : i < n /\ ~(n < i)
  <2>1. list \in Seq(RunOrders(r))
    BY DEF OrdersOf
  <2>2. /\ more \in Seq(RunOrders(r)) /\ Len(more) = n /\ DOMAIN more = 1..n
        /\ more[n] = o /\ \A i \in 1..Len(list) : more[i] = list[i]
    BY <2>1
  <2>3. QED  BY <2>1, <2>2, RunListFacts
<1>2. \A i \in DOMAIN list : list[i].side \in Sides
  BY RunListFacts DEF OrdersOf
<1>3. ~(n < n)
  BY RunListFacts DEF OrdersOf
<1> HIDE DEF more, n
<1>4. \A i, j \in DOMAIN more : more[i].symbol = more[j].symbol => i = j
  BY <1>1 DEF OrdersOf, Layout
<1>5. ASSUME NEW i \in DOMAIN more, NEW j \in DOMAIN more, i < j, more[j].side = "SELL"
      PROVE  more[i].side = "SELL"
  <2>1. i \in DOMAIN list
    BY <1>1, <1>3, <1>5
  <2>2. CASE j \in DOMAIN list
    BY <1>1, <1>5, <2>1, <2>2 DEF OrdersOf, Layout
  <2>3. CASE j = n
    BY <1>1, <1>2, <1>5, <2>1, <2>3 DEF Buys, Sides
  <2>4. QED  BY <1>1, <2>2, <2>3
<1>6. \A i \in DOMAIN more : more[i].side = "SELL" => more[i].volume <= a.available[more[i].symbol]
  BY <1>1 DEF OrdersOf, Layout
<1>7. Layout(a, more)
  BY <1>4, <1>5, <1>6 DEF Layout
<1>8. QED  BY <1>1, <1>7 DEF OrdersOf, more

LEMMA EmptyLayout ==
  ASSUME NEW r \in Runs, NEW a \in Account
  PROVE  OrdersOf(r, a, << >>) /\ CashAfter(a, << >>) = a.cash /\ DOMAIN << >> = {}
<1> DEFINE empty == << >>
<1>1. empty \in Seq(RunOrders(r)) /\ DOMAIN empty = {}
  OBVIOUS
<1> HIDE DEF empty
<1>2. OrdersOf(r, a, empty)
  BY <1>1 DEF OrdersOf, Layout
<1>3. CashAfter(a, empty) = a.cash
  <2>1. Sigma(Deltas(empty), {}) = 0 /\ a.cash \in Int
    BY SigmaEmpty DEF Account
  <2>2. CashAfter(a, empty) = a.cash + Sigma(Deltas(empty), DOMAIN empty)
    BY <1>1, AfterSums
  <2>3. CashAfter(a, empty) = a.cash + 0
    BY <1>1, <2>1, <2>2
  <2>4. QED  BY <2>1, <2>3
<1>4. QED  BY <1>1, <1>2, <1>3 DEF empty

-----------------------------------------------------------------------------
(* Fees grow with the value traded. *)
LEMMA DivKeepsOrder ==
  ASSUME NEW x \in Nat, NEW y \in Nat, x <= y, NEW b \in Nat \ {0}
  PROVE  x \div b <= y \div b
<1>1. /\ x \div b \in Nat /\ y \div b \in Nat
      /\ b * (x \div b) <= x /\ y < b * (y \div b) + b
  BY Z3
<1> DEFINE m == x \div b
           n == y \div b
<1> HIDE DEF m, n
<1>2. m \in Nat /\ n \in Nat /\ b * m < b * n + b
  BY <1>1 DEF m, n
<1>3. SUFFICES ASSUME ~(m <= n) PROVE FALSE
  BY DEF m, n
<1>4. m - (n + 1) \in Nat
  BY <1>2, <1>3
<1>5. b * (m - (n + 1)) \in Nat
  BY <1>4
<1>6. b * (m - (n + 1)) = b * m - (b * n + b)
  BY <1>2
<1>7. b * m \in Int /\ b * n + b \in Int
  BY <1>2
<1>8. QED  BY <1>2, <1>5, <1>6, <1>7

LEMMA TimesKeepsOrder ==
  ASSUME NEW x \in Nat, NEW y \in Nat, x <= y, NEW k \in Nat
  PROVE  x * k <= y * k /\ k * x <= k * y
<1>1. (y - x) * k \in Nat /\ (y - x) * k = y * k - x * k
  OBVIOUS
<1>2. x * k \in Nat /\ y * k \in Nat /\ k * x = x * k /\ k * y = y * k
  OBVIOUS
<1>3. QED  BY <1>1, <1>2

LEMMA PerBpsGrows ==
  ASSUME NEW x \in Nat, NEW y \in Nat, x <= y, NEW k \in Nat
  PROVE  PerBps(x, k) <= PerBps(y, k) /\ PerBps(x, k) \in Nat /\ PerBps(y, k) \in Nat
<1>1. x * k \in Nat /\ y * k \in Nat /\ x * k <= y * k
  BY TimesKeepsOrder
<1>2. BpsScale \in Nat \ {0}
  BY FeesAssumption
<1>3. PerBps(x, k) <= PerBps(y, k)
  BY <1>1, <1>2, DivKeepsOrder DEF PerBps
<1>4. QED  BY <1>3, PerBpsType

LEMMA FeeGrows ==
  ASSUME NEW side, NEW x \in Nat, NEW y \in Nat, x <= y
  PROVE  EstimateFee(side, x) <= EstimateFee(side, y)
<1>1. /\ CommissionBps \in Nat /\ MinimumCommission \in Nat
      /\ StampDutyBps \in Nat /\ TransferBps \in Nat
  BY FeesAssumption
<1>2. /\ PerBps(x, CommissionBps) <= PerBps(y, CommissionBps)
      /\ PerBps(x, CommissionBps) \in Nat /\ PerBps(y, CommissionBps) \in Nat
      /\ PerBps(x, TransferBps) <= PerBps(y, TransferBps)
      /\ PerBps(x, TransferBps) \in Nat /\ PerBps(y, TransferBps) \in Nat
      /\ PerBps(x, StampDutyBps) <= PerBps(y, StampDutyBps)
      /\ PerBps(x, StampDutyBps) \in Nat /\ PerBps(y, StampDutyBps) \in Nat
  BY <1>1, PerBpsGrows
<1>3. Commission(x) <= Commission(y) /\ Commission(x) \in Nat /\ Commission(y) \in Nat
  BY <1>1, <1>2 DEF Commission
<1>4. QED  BY <1>2, <1>3 DEF EstimateFee

(* What is left of an order the limit cuts. *)
LEMMA CappedOrder ==
  ASSUME NEW r \in Runs, NEW o \in RunOrders(r), TooLarge(o) => CappedVolume(o) > 0
  PROVE  LET c == Capped(r, o)
         IN  /\ c \in RunOrders(r)
             /\ c.symbol = o.symbol /\ c.side = o.side /\ c.price = o.price
             /\ c.volume <= o.volume
             /\ EstimatedValue(c) <= EstimatedValue(o)
             /\ o.side = "BUY" \/ ~TooLarge(o) => CashDelta(o) <= CashDelta(c)
             /\ ~TooLarge(o) => c = o
<1> DEFINE c == Capped(r, o)
           unit == ExecutionPrice(o.side, o.price)
<1>1. /\ IsOrder(o) /\ o.symbol \in DOMAIN Close(r) /\ o.side \in Sides
      /\ o.price = Close(r)[o.symbol] /\ o.volume \in Nat \ {0}
  BY RunOrderIs
<1>2. unit \in Nat /\ EstimatedValue(o) = unit * o.volume /\ EstimatedValue(o) \in Nat
      /\ CashDelta(o) \in Int
  BY <1>1, MoneyTypes DEF EstimatedValue
<1>3. CASE ~TooLarge(o)
  <2>1. c = o
    BY <1>3 DEF Capped
  <2>2. QED  BY <1>1, <1>2, <2>1
<1>4. CASE TooLarge(o)
  <2> DEFINE v == CappedVolume(o)
  <2>1. c = PlannedOrder(r, o.symbol, o.side, Close(r)[o.symbol], v)
    BY <1>1, <1>4 DEF Capped
  <2>2. /\ c.symbol = o.symbol /\ c.side = o.side /\ c.price = o.price /\ c.volume = v
    BY <1>1, <2>1 DEF PlannedOrder
  <2>3. MaxOrderValue \in Nat /\ LotSize \in Nat \ {0}
    BY LimitsAssumption, PlannerAssumption
  <2>4. IsOrder(c) /\ EstimatedValue(c) <= MaxOrderValue
    BY <1>1, CutFits
  <2>5. v \in Nat \ {0}
    BY <2>2, <2>4 DEF IsOrder
  <2>6. Board(v)
    <3>1. v = (MaxOrderValue \div (unit * LotSize)) * LotSize
      BY DEF CappedVolume
    <3>2. unit # 0
      <4>1. SUFFICES ASSUME unit = 0 PROVE FALSE
        OBVIOUS
      <4>2. unit * o.volume = 0
        BY <1>1, <4>1
      <4>3. QED  BY <1>2, <1>4, <2>3, <4>2 DEF TooLarge
    <3>3. unit * LotSize \in Nat \ {0}
      BY <1>2, <2>3, <3>2
    <3>4. MaxOrderValue \div (unit * LotSize) \in Int
      BY <2>3, <3>3
    <3>5. QED  BY <3>1, <3>4, BoardOf
  <2>7. c \in RunOrders(r)
    BY <1>1, <2>1, <2>5, <2>6, RunOrderMade
  <2>8. EstimatedValue(c) \in Nat /\ EstimatedValue(c) <= EstimatedValue(o)
    <3>1. EstimatedValue(c) \in Nat
      BY <2>4, MoneyTypes
    <3>2. MaxOrderValue < EstimatedValue(o)
      BY <1>2, <1>4, <2>3 DEF TooLarge
    <3>3. QED  BY <1>2, <2>3, <2>4, <3>1, <3>2
  <2>9. v <= o.volume
    <3>1. EstimatedValue(c) = unit * v
      BY <2>2 DEF EstimatedValue
    <3>2. SUFFICES ASSUME v > o.volume PROVE FALSE
      BY <1>1, <2>5
    <3>3. unit * o.volume <= unit * v
      BY <1>1, <1>2, <2>5, <3>2, TimesKeepsOrder
    <3>4. MaxOrderValue < EstimatedValue(o)
      BY <1>2, <1>4, <2>3 DEF TooLarge
    <3> HIDE DEF unit, v
    <3>5. QED  BY <1>2, <2>3, <2>4, <2>8, <3>1, <3>3, <3>4
  <2>10. ASSUME o.side = "BUY"
         PROVE  CashDelta(o) <= CashDelta(c)
    <3>1. EstimatedFee(c) <= EstimatedFee(o) /\ EstimatedFee(c) \in Nat /\ EstimatedFee(o) \in Nat
      BY <1>1, <1>2, <2>2, <2>4, <2>8, FeeGrows, MoneyTypes DEF EstimatedFee
    <3>2. /\ CashDelta(o) = -(EstimatedValue(o) + EstimatedFee(o))
          /\ CashDelta(c) = -(EstimatedValue(c) + EstimatedFee(c))
      BY <1>1, <2>2, <2>4, <2>10, BuyDelta
    <3> HIDE DEF c
    <3>3. QED  BY <1>2, <2>8, <3>1, <3>2
  <2>11. QED  BY <1>4, <2>2, <2>7, <2>8, <2>9, <2>10
<1>5. QED  BY <1>3, <1>4

CutOf(r, list) == [i \in DOMAIN list |-> Capped(r, list[i])]

(* The cut list is laid out as the plan was. *)
LEMMA CutLayout ==
  ASSUME NEW r \in Runs, NEW a \in Account, NEW list, OrdersOf(r, a, list), OrderValueRule(list)
  PROVE  OrdersOf(r, a, CutOf(r, list)) /\ DOMAIN CutOf(r, list) = DOMAIN list
<1> DEFINE cut == CutOf(r, list)
<1>1. list \in Seq(RunOrders(r)) /\ Layout(a, list)
  BY DEF OrdersOf
<1>2. /\ Len(list) \in Nat /\ DOMAIN list = 1..Len(list)
      /\ \A i \in DOMAIN list : list[i] \in RunOrders(r)
  BY <1>1, RunListFacts
<1>3. DOMAIN cut = DOMAIN list /\ \A i \in DOMAIN list : cut[i] = Capped(r, list[i])
  BY DEF CutOf
<1>4. \A i \in DOMAIN list :
        /\ cut[i] \in RunOrders(r)
        /\ cut[i].symbol = list[i].symbol /\ cut[i].side = list[i].side
        /\ cut[i].volume <= list[i].volume
  BY <1>2, <1>3, CappedOrder DEF OrderValueRule
<1>5. cut \in Seq(RunOrders(r))
  <2>1. cut \in [1..Len(list) -> RunOrders(r)]
    BY <1>2, <1>3, <1>4 DEF CutOf
  <2>2. QED  BY <1>2, <2>1, SeqDef
<1>6. \A i \in DOMAIN list :
        /\ cut[i].volume \in Nat /\ list[i].volume \in Nat
        /\ a.available[list[i].symbol] \in Nat
  BY <1>1, <1>3, <1>5, RunListFacts DEF Account
<1> HIDE DEF cut
<1>7. Layout(a, cut)
  <2>1. \A i, j \in DOMAIN cut : cut[i].symbol = cut[j].symbol => i = j
    BY <1>1, <1>3, <1>4 DEF Layout
  <2>2. \A i, j \in DOMAIN cut : i < j /\ cut[j].side = "SELL" => cut[i].side = "SELL"
    BY <1>1, <1>3, <1>4 DEF Layout
  <2>3. ASSUME NEW i \in DOMAIN cut, cut[i].side = "SELL"
        PROVE  cut[i].volume <= a.available[cut[i].symbol]
    <3>1. list[i].volume <= a.available[list[i].symbol]
      BY <1>1, <1>3, <1>4, <2>3 DEF Layout
    <3>2. QED  BY <1>3, <1>4, <1>6, <3>1
  <2>4. QED  BY <2>1, <2>2, <2>3 DEF Layout
<1>8. QED  BY <1>3, <1>5, <1>7 DEF OrdersOf, cut

-----------------------------------------------------------------------------
(* What a list sells of a symbol is what its one order of the symbol says. *)
LEMMA SoldBound ==
  ASSUME NEW r \in Runs, NEW a \in Account, NEW list, OrdersOf(r, a, list), NEW s \in Symbols,
         NEW D, D \subseteq DOMAIN list
  PROVE  Sigma(Sold(list, s), D) <= a.available[s] /\ Sigma(Sold(list, s), D) \in Nat
<1>1. list \in Seq(RunOrders(r)) /\ Layout(a, list)
  BY DEF OrdersOf
<1>2. IsFiniteSet(D) /\ \A i \in D : Sold(list, s)[i] \in Nat
  BY <1>1, RunListFacts, FS_Subset
<1>3. Sigma(Sold(list, s), D) \in Nat
  BY <1>2, SigmaNat
<1>4. a.available[s] \in Nat
  BY DEF Account
<1>5. \A i \in D : Sold(list, s)[i] \in Int
  BY <1>2
<1>6. CASE \E i \in D : list[i].symbol = s
  <2>1. PICK i \in D : list[i].symbol = s
    BY <1>6
  <2>2. \A j \in D \ {i} : Sold(list, s)[j] = 0
    <3>1. \A j \in D \ {i} : list[j].symbol # s
      BY <1>1, <2>1 DEF Layout
    <3>2. QED  BY <1>1, <3>1, RunListFacts
  <2>3. Sigma(Sold(list, s), D) = Sigma(Sold(list, s), {i})
    BY <1>2, <1>5, <2>2, SigmaZeros
  <2>4. Sigma(Sold(list, s), {i}) = Sold(list, s)[i]
    BY <1>5, SigmaOne
  <2>5. Sold(list, s)[i] <= a.available[s]
    BY <1>1, <1>4, <2>1 DEF Sold, Layout
  <2>6. QED  BY <1>3, <2>3, <2>4, <2>5
<1>7. CASE \A i \in D : list[i].symbol # s
  <2>1. \A j \in D \ {} : Sold(list, s)[j] = 0
    BY <1>1, <1>7, RunListFacts
  <2>2. Sigma(Sold(list, s), D) = Sigma(Sold(list, s), {})
    BY <1>2, <1>5, <2>1, SigmaZeros
  <2>3. QED  BY <1>3, <1>4, <2>2, SigmaEmpty
<1>8. QED  BY <1>6, <1>7

(* So the holdings a list leads to are never negative, and have a price. *)
LEMMA HeldAfterType ==
  ASSUME NEW r \in Runs, NEW a, AccountOK(a, r), NEW list, OrdersOf(r, a, list), NEW s \in Symbols
  PROVE  /\ HeldAfter(a, list, s) \in Nat
         /\ HeldAfter(a, list, s) # 0 => s \in DOMAIN Close(r)
         /\ ValueAfter(a, MarketOf(r), list, s) \in Nat
<1> DEFINE D == DOMAIN list
<1>1. /\ list \in Seq(RunOrders(r)) /\ a \in Account
      /\ a.available[s] <= a.held[s] /\ (a.held[s] # 0 => s \in DOMAIN Close(r))
      /\ a.available[s] \in Nat /\ a.held[s] \in Nat
  BY DEF OrdersOf, AccountOK, Account
<1>2. IsFiniteSet(D) /\ \A i \in D : /\ Bought(list, s)[i] \in Nat /\ Sold(list, s)[i] \in Nat
                                    /\ Sold(list, s)[i] \in Int
                                    /\ Moved(list, s)[i] \in Int
                                    /\ Bought(list, s)[i] = Moved(list, s)[i] + Sold(list, s)[i]
  BY <1>1, RunListFacts
<1>3. /\ Sigma(Bought(list, s), D) \in Nat /\ Sigma(Moved(list, s), D) \in Int
      /\ Sigma(Bought(list, s), D) = Sigma(Moved(list, s), D) + Sigma(Sold(list, s), D)
  BY <1>2, SigmaNat, SigmaInt, SigmaPlus
<1>4. Sigma(Sold(list, s), D) <= a.available[s] /\ Sigma(Sold(list, s), D) \in Nat
  BY <1>1, SoldBound
<1>5. HeldAfter(a, list, s) = a.held[s] + Sigma(Moved(list, s), D)
  BY <1>1, AfterSums
<1> HIDE DEF D
<1>6. HeldAfter(a, list, s) \in Nat
  BY <1>1, <1>3, <1>4, <1>5
<1>7. ASSUME s \notin DOMAIN Close(r)
      PROVE  HeldAfter(a, list, s) = 0
  <2>0. \A i \in DOMAIN list : list[i].symbol # s
    BY <1>1, <1>7, RunListFacts
  <2>1. \A i \in D \ {} : Moved(list, s)[i] = 0
    BY <1>1, <2>0, RunListFacts DEF D
  <2>2. Sigma(Moved(list, s), D) = Sigma(Moved(list, s), {})
    BY <1>2, <2>1, SigmaZeros
  <2>3. QED  BY <1>1, <1>5, <1>7, <2>2, SigmaEmpty
<1>8. ValueAfter(a, MarketOf(r), list, s) \in Nat
  BY <1>6, <1>7, CloseType DEF ValueAfter
<1>9. QED  BY <1>6, <1>7, <1>8

KeepsSales(list) == \A i \in DOMAIN list : TooLarge(list[i]) => list[i].side = "BUY"

(* A plan whose purchases are cut: more cash, less held, less traded. *)
LEMMA CutCompared ==
  ASSUME NEW r \in Runs, NEW a, AccountOK(a, r), NEW list, OrdersOf(r, a, list),
         OrderValueRule(list), KeepsSales(list)
  PROVE  /\ CashAfter(a, list) <= CashAfter(a, CutOf(r, list))
         /\ Turnover(CutOf(r, list)) <= Turnover(list)
         /\ Turnover(CutOf(r, list)) \in Int /\ Turnover(list) \in Int
         /\ \A s \in Symbols : HeldAfter(a, CutOf(r, list), s) <= HeldAfter(a, list, s)
<1> DEFINE cut == CutOf(r, list)
           D == DOMAIN list
<1>1. list \in Seq(RunOrders(r)) /\ a \in Account
  BY DEF OrdersOf, AccountOK
<1>2. cut \in Seq(RunOrders(r)) /\ DOMAIN cut = D /\ \A i \in D : cut[i] = Capped(r, list[i])
  BY <1>1, CutLayout DEF OrdersOf, CutOf
<1>3. \A i \in D : /\ list[i] \in RunOrders(r) /\ list[i].side \in Sides
                   /\ TooLarge(list[i]) => CappedVolume(list[i]) > 0
                   /\ list[i].side = "BUY" \/ ~TooLarge(list[i])
  BY <1>1, RunListFacts DEF OrderValueRule, KeepsSales
<1>4. \A i \in D : /\ cut[i].symbol = list[i].symbol /\ cut[i].side = list[i].side
                   /\ cut[i].volume <= list[i].volume
                   /\ EstimatedValue(cut[i]) <= EstimatedValue(list[i])
                   /\ CashDelta(list[i]) <= CashDelta(cut[i])
                   /\ list[i].side # "BUY" => cut[i] = list[i]
  BY <1>2, <1>3, CappedOrder
<1> HIDE DEF cut
<1>5. IsFiniteSet(D)
  BY <1>1, RunListFacts
<1>6. \A i \in D : /\ Deltas(list)[i] \in Int /\ Deltas(cut)[i] \in Int
                   /\ Deltas(list)[i] <= Deltas(cut)[i]
                   /\ Values(list)[i] \in Int /\ Values(cut)[i] \in Int
                   /\ Values(cut)[i] <= Values(list)[i]
  BY <1>1, <1>2, <1>4, RunListFacts
<1>7. /\ Sigma(Deltas(list), D) <= Sigma(Deltas(cut), D)
      /\ Sigma(Values(cut), D) <= Sigma(Values(list), D)
      /\ Sigma(Deltas(list), D) \in Int /\ Sigma(Deltas(cut), D) \in Int
      /\ Sigma(Values(list), D) \in Int /\ Sigma(Values(cut), D) \in Int
  BY <1>5, <1>6, SigmaLeq, SigmaInt
<1>8. /\ CashAfter(a, list) = a.cash + Sigma(Deltas(list), D)
      /\ CashAfter(a, cut) = a.cash + Sigma(Deltas(cut), D)
      /\ Turnover(list) = Sigma(Values(list), D) /\ Turnover(cut) = Sigma(Values(cut), D)
      /\ a.cash \in Int
  BY <1>1, <1>2, AfterSums DEF Account
<1>9. CashAfter(a, list) <= CashAfter(a, cut) /\ Turnover(cut) <= Turnover(list)
  BY <1>7, <1>8
<1>10. ASSUME NEW s \in Symbols
       PROVE  HeldAfter(a, cut, s) <= HeldAfter(a, list, s)
  <2>1. \A i \in D : Moved(cut, s)[i] <= Moved(list, s)[i]
    <3>1. SUFFICES ASSUME NEW i \in D
                   PROVE  Moved(cut, s)[i] <= Moved(list, s)[i]
      OBVIOUS
    <3>2. /\ list[i].volume \in Nat /\ cut[i].volume \in Nat /\ cut[i].volume <= list[i].volume
          /\ list[i].side = "BUY" \/ cut[i] = list[i]
      BY <1>1, <1>2, <1>4, RunListFacts
    <3>3. CASE cut[i] = list[i]
      <4>1. Moved(cut, s)[i] = Moved(list, s)[i] /\ Moved(list, s)[i] \in Int
        BY <1>1, <1>2, <3>3, RunListFacts DEF Moved, Bought, Sold
      <4>2. QED  BY <4>1
    <3>4. CASE list[i].side = "BUY"
      <4>1. /\ Moved(list, s)[i] = IF list[i].symbol = s THEN list[i].volume ELSE 0
            /\ Moved(cut, s)[i] = IF list[i].symbol = s THEN cut[i].volume ELSE 0
        BY <1>2, <1>4, <3>2, <3>4 DEF Moved, Bought, Sold
      <4>2. QED  BY <3>2, <4>1
    <3>5. QED  BY <3>2, <3>3, <3>4
  <2>2. \A i \in D : Moved(list, s)[i] \in Int /\ Moved(cut, s)[i] \in Int
    BY <1>1, <1>2, RunListFacts
  <2>3. Sigma(Moved(cut, s), D) <= Sigma(Moved(list, s), D)
        /\ Sigma(Moved(cut, s), D) \in Int /\ Sigma(Moved(list, s), D) \in Int
    BY <1>5, <2>1, <2>2, SigmaLeq, SigmaInt
  <2>4. /\ HeldAfter(a, cut, s) = a.held[s] + Sigma(Moved(cut, s), D)
        /\ HeldAfter(a, list, s) = a.held[s] + Sigma(Moved(list, s), D)
    BY <1>1, <1>2, AfterSums
  <2>5. a.held[s] \in Int
    BY <1>1 DEF Account
  <2>6. QED  BY <2>3, <2>4, <2>5
<1>11. Turnover(cut) \in Int /\ Turnover(list) \in Int
  BY <1>7, <1>8
<1>12. QED  BY <1>9, <1>10, <1>11 DEF cut

LEMMA WithinLess ==
  ASSUME NEW x \in Int, NEW y \in Int, x <= y, NEW limit, NEW equity,
         WithinPercent(y, limit, equity), NEW p \in Int, p = limit * equity
  PROVE  WithinPercent(x, limit, equity)
BY DEF WithinPercent

(* It passes the rules on the book that the plan passed. *)
LEMMA CutPasses ==
  ASSUME NEW r \in Runs, NEW a, AccountOK(a, r), NEW list, OrdersOf(r, a, list),
         OrderValueRule(list), KeepsSales(list), BookRules(a, MarketOf(r), list)
  PROVE  BookRules(a, MarketOf(r), CutOf(r, list))
<1> DEFINE cut == CutOf(r, list)
           m == MarketOf(r)
<1>1. OrdersOf(r, a, cut) /\ a \in Account /\ a.equity \in Nat
  BY CutLayout DEF AccountOK, Account
<1>2. /\ CashAfter(a, list) <= CashAfter(a, cut) /\ Turnover(cut) <= Turnover(list)
      /\ Turnover(cut) \in Int /\ Turnover(list) \in Int
      /\ CashAfter(a, list) \in Int /\ CashAfter(a, cut) \in Int
      /\ \A s \in Symbols : HeldAfter(a, cut, s) <= HeldAfter(a, list, s)
  BY <1>1, CutCompared, AfterSums DEF OrdersOf
<1> HIDE DEF cut
<1>3. ASSUME NEW s \in Symbols
      PROVE  /\ ValueAfter(a, m, cut, s) <= ValueAfter(a, m, list, s)
             /\ ValueAfter(a, m, cut, s) \in Nat /\ ValueAfter(a, m, list, s) \in Nat
  <2>1. /\ HeldAfter(a, cut, s) \in Nat /\ HeldAfter(a, list, s) \in Nat
        /\ HeldAfter(a, cut, s) # 0 => s \in DOMAIN Close(r)
        /\ ValueAfter(a, m, cut, s) \in Nat /\ ValueAfter(a, m, list, s) \in Nat
    BY <1>1, HeldAfterType
  <2>2. CASE HeldAfter(a, cut, s) = 0
    BY <2>1, <2>2 DEF ValueAfter
  <2>3. CASE HeldAfter(a, cut, s) # 0
    <3>1. m.close[s] \in Nat
      BY <2>1, <2>3, CloseType
    <3>2. HeldAfter(a, cut, s) <= HeldAfter(a, list, s) /\ HeldAfter(a, list, s) # 0
      BY <1>2, <2>1, <2>3
    <3>3. HeldAfter(a, cut, s) * m.close[s] <= HeldAfter(a, list, s) * m.close[s]
      BY <2>1, <3>1, <3>2, TimesKeepsOrder
    <3>4. QED  BY <2>1, <2>3, <3>2, <3>3 DEF ValueAfter
  <2>4. QED  BY <2>1, <2>2, <2>3
<1>4. /\ ExposureAfter(a, m, cut) <= ExposureAfter(a, m, list)
      /\ ExposureAfter(a, m, cut) \in Int /\ ExposureAfter(a, m, list) \in Int
  <2> DEFINE f == [s \in Symbols |-> ValueAfter(a, m, cut, s)]
             g == [s \in Symbols |-> ValueAfter(a, m, list, s)]
  <2>1. ExposureAfter(a, m, cut) = Sigma(f, Symbols) /\ ExposureAfter(a, m, list) = Sigma(g, Symbols)
    BY DEF ExposureAfter, Sigma
  <2>2. \A s \in Symbols : f[s] \in Int /\ g[s] \in Int /\ f[s] <= g[s]
    <3>1. ASSUME NEW s \in Symbols
          PROVE  f[s] \in Int /\ g[s] \in Int /\ f[s] <= g[s]
      <4>1. f[s] = ValueAfter(a, m, cut, s) /\ g[s] = ValueAfter(a, m, list, s)
        OBVIOUS
      <4> HIDE DEF f, g, m
      <4>2. QED  BY <1>3, <4>1
    <3>2. QED  BY <3>1
  <2>3. IsFiniteSet(Symbols)
    BY PlannerAssumption
  <2> HIDE DEF f, g
  <2>4. QED  BY <2>1, <2>2, <2>3, SigmaLeq, SigmaInt
<1>5. /\ MaxGrossExposure * a.equity \in Int /\ MaxSingleWeight * a.equity \in Int
      /\ MaxTurnover * a.equity \in Int
  BY <1>1, LimitsAssumption
<1>6. GrossExposureRule(a, m, cut)
  BY <1>4, <1>5, WithinLess DEF BookRules, GrossExposureRule
<1>7. SingleWeightRule(a, m, cut)
  <2>1. SUFFICES ASSUME NEW s \in Symbols
                 PROVE  WithinPercent(ValueAfter(a, m, cut, s), MaxSingleWeight, a.equity)
    BY DEF SingleWeightRule
  <2>2. WithinPercent(ValueAfter(a, m, list, s), MaxSingleWeight, a.equity)
    BY DEF BookRules, SingleWeightRule
  <2>3. ValueAfter(a, m, cut, s) \in Int /\ ValueAfter(a, m, list, s) \in Int
    BY <1>3
  <2>4. QED  BY <1>3, <1>5, <2>2, <2>3, WithinLess
<1>8. TurnoverRule(a, cut)
  BY <1>2, <1>5, WithinLess DEF BookRules, TurnoverRule
<1>9. CashRule(a, cut)
  BY <1>2 DEF BookRules, CashRule
<1>10. QED  BY <1>6, <1>7, <1>8, <1>9 DEF BookRules, cut

-----------------------------------------------------------------------------
(* The files: what the planner has on its sheet, what a plan and an assessment *)
(* hold, and where the executor's plan, a recorded order and a session come     *)
(* from.                                                                         *)
SheetShape(x) ==
  /\ AccountOK(x.account, x.run) /\ x.seen \in Seen /\ PicksOK(x.picks)
  /\ x.sells \subseteq ToSell(x.account, MarketOf(x.run), x.picks)
  /\ x.buys \subseteq ToBuy(x.account, MarketOf(x.run), x.picks)
  /\ OrdersOf(x.run, x.account, x.orders)
  /\ \A i \in DOMAIN x.orders : x.orders[i].symbol \notin x.sells \cup x.buys
  /\ x.cash = CashAfter(x.account, x.orders)

PlanShape(r, f) ==
  /\ f = [order |-> WithOrders(r, f.order.orders), account |-> f.account,
          seen |-> f.seen, cash |-> f.cash]
  /\ AccountOK(f.account, r) /\ f.seen \in Seen
  /\ OrdersOf(r, f.account, f.order.orders)
  /\ f.cash = CashAfter(f.account, f.order.orders)

Judged(r, f) ==
  /\ TradabilityRule(MarketOf(r), f.order.orders)
  /\ BookRules(f.account, MarketOf(r), f.order.orders)
  /\ OrderValueRule(f.order.orders)

(* An assessment of run r against the plan f. *)
VerdictShape(r, f, v) ==
  /\ v = [decision |-> v.decision, plan |-> v.plan]
  /\ \/ v.decision = "REJECT" /\ v.plan = f.order
     \/ v.decision = "APPROVE" /\ v.plan = f.order /\ Judged(r, f)
     \/ /\ v.decision = "ADJUST" /\ v.plan = WithOrders(r, CutOf(r, f.order.orders))
        /\ Judged(r, f)

SheetInv == sheet # Absent => SheetShape(sheet)

PlansOK == \A r \in Runs : plan[r] # Absent => PlanShape(r, plan[r])

VerdictsOK ==
  \A r \in Runs : assessment[r] # Absent =>
    plan[r] # Absent /\ VerdictShape(r, plan[r], assessment[r])

(* What the executor works on is an approved plan. *)
IsApproved(x) == x.run \in Runs /\ Approved(x.run) /\ x = assessment[x.run].plan

JobsOK == \A p \in Procs : pc[p] # "idle" => IsApproved(job[p])

RowShape(row) ==
  /\ row = [plan |-> row.plan, order |-> row.order, status |-> row.status]
  /\ row.status \in {"FILLED", "UNFILLED"}
  /\ \E i \in DOMAIN row.plan.orders : row.order = row.plan.orders[i]

RowsOK ==
  \A id \in OrderIds : orders[id] # Absent =>
    IsApproved(orders[id].plan) /\ RowShape(orders[id]) /\ orders[id].order.id = id

SessionShape(d, row) ==
  /\ row = [plan |-> row.plan, status |-> row.status]
  /\ row.status \in {"STARTED", "COMPLETED"} /\ row.plan.date = d

SessionsOK ==
  /\ On(sessions, Dates)
  /\ \A d \in Dates : sessions[d] # Absent =>
       IsApproved(sessions[d].plan) /\ SessionShape(d, sessions[d])

NavOK ==
  /\ Exec!Days \subseteq Dates /\ On(draft, Procs)
  /\ \A p \in Procs : pc[p] = "inserting" => draft[p].date = job[p].date

FilesInv ==
  LotsOK /\ SheetInv /\ PlansOK /\ VerdictsOK /\ JobsOK /\ RowsOK /\ SessionsOK /\ NavOK

(* What an approved plan is worth. *)
LEMMA ApprovedFacts ==
  ASSUME PlansOK, VerdictsOK, NEW r \in Runs, Approved(r)
  PROVE  /\ plan[r] # Absent /\ PlanShape(r, plan[r]) /\ Judged(r, plan[r])
         /\ assessment[r].plan = WithOrders(r, assessment[r].plan.orders)
         /\ assessment[r].plan.run = r /\ assessment[r].plan.date = RunDate[r]
         /\ OrdersOf(r, plan[r].account, assessment[r].plan.orders)
         /\ \/ assessment[r].plan.orders = plan[r].order.orders /\ assessment[r].decision = "APPROVE"
            \/ /\ assessment[r].plan.orders = CutOf(r, plan[r].order.orders)
               /\ assessment[r].decision = "ADJUST"
<1> DEFINE f == plan[r]
           v == assessment[r]
<1>1. /\ f # Absent /\ PlanShape(r, f) /\ VerdictShape(r, f, v) /\ v.decision # "REJECT"
  BY DEF Approved, PlansOK, VerdictsOK
<1> HIDE DEF f, v
<1>2. Judged(r, f)
  BY <1>1 DEF VerdictShape
<1>3. f.order = WithOrders(r, f.order.orders)
  BY <1>1 DEF PlanShape
<1>4. f.account \in Account
  BY <1>1 DEF PlanShape, AccountOK
<1>5. CASE v.decision = "APPROVE" /\ v.plan = f.order
  <2>1. v.plan = WithOrders(r, v.plan.orders) /\ v.plan.orders = f.order.orders
    BY <1>3, <1>5
  <2>2. v.plan.run = r /\ v.plan.date = RunDate[r]
    BY <2>1 DEF WithOrders
  <2>3. OrdersOf(r, f.account, v.plan.orders)
    BY <1>1, <2>1 DEF PlanShape
  <2>4. QED  BY <1>1, <1>2, <1>5, <2>1, <2>2, <2>3 DEF f, v
<1>6. CASE v.decision = "ADJUST" /\ v.plan = WithOrders(r, CutOf(r, f.order.orders))
  <2>1. v.plan.orders = CutOf(r, f.order.orders) /\ v.plan.run = r /\ v.plan.date = RunDate[r]
    BY <1>6 DEF WithOrders
  <2>2. OrdersOf(r, f.account, CutOf(r, f.order.orders))
    BY <1>1, <1>2, <1>4, CutLayout DEF PlanShape, Judged
  <2>3. QED  BY <1>1, <1>2, <1>6, <2>1, <2>2 DEF f, v
<1>7. QED  BY <1>1, <1>5, <1>6 DEF VerdictShape

(* The orders of an approved plan are made of whole lots, at the run's prices. *)
LEMMA ApprovedOrder ==
  ASSUME PlansOK, VerdictsOK, NEW x, IsApproved(x), NEW i \in DOMAIN x.orders
  PROVE  x.orders[i] \in RunOrders(x.run) /\ x.date = RunDate[x.run] /\ x.date \in Dates
<1>1. /\ x.orders \in Seq(RunOrders(x.run)) /\ x.run \in Runs
      /\ x.date = RunDate[x.run]
  BY ApprovedFacts DEF IsApproved, OrdersOf
<1>2. QED  BY <1>1, CloseType

-----------------------------------------------------------------------------
LEMMA TurnsApart ==
  ASSUME NEW x, SheetShape(x), x.run \in Runs
  PROVE  /\ x.sells \cap x.buys = {}
         /\ x.sells \subseteq DOMAIN Close(x.run) /\ x.buys \subseteq DOMAIN Close(x.run)
<1> DEFINE want(s) == Desired(x.account, MarketOf(x.run), x.picks, s)
<1>1. MarketOf(x.run).close = Close(x.run) /\ DOMAIN Close(x.run) \subseteq Symbols
  BY CloseType
<1>2. x.sells \subseteq DOMAIN Close(x.run) /\ x.buys \subseteq DOMAIN Close(x.run)
  BY <1>1 DEF SheetShape, ToSell, ToBuy
<1>3. ASSUME NEW s \in x.sells, s \in x.buys
      PROVE  FALSE
  <2>1. want(s) \in Nat /\ x.account.held[s] \in Nat
    BY <1>1, <1>2, <1>3, DesiredType DEF SheetShape, AccountOK, Account
  <2>2. want(s) < x.account.held[s] /\ want(s) > x.account.held[s]
    BY <1>3 DEF SheetShape, ToSell, ToBuy
  <2> HIDE DEF want
  <2>3. QED  BY <2>1, <2>2
<1>4. QED  BY <1>2, <1>3

(* One more order on the sheet, for a symbol that is off the lists from now on. *)
LEMMA SheetGrows ==
  ASSUME NEW x, SheetShape(x), NEW r \in Runs, r = x.run, NEW o \in RunOrders(r),
         \A i \in DOMAIN x.orders : x.orders[i].symbol # o.symbol,
         o.side = "SELL" => ~Buys(x.orders) /\ o.volume <= x.account.available[o.symbol],
         NEW sells, sells \subseteq x.sells, NEW buys, buys \subseteq x.buys,
         o.symbol \notin sells \cup buys,
         NEW y, y = [x EXCEPT !.sells = sells, !.buys = buys, !.cash = @ + CashDelta(o),
                              !.orders = Append(@, o)],
         x = [run |-> x.run, account |-> x.account, seen |-> x.seen,
              sells |-> x.sells, buys |-> x.buys, picks |-> x.picks,
              cash |-> x.cash, orders |-> x.orders]
  PROVE  SheetShape(y)
<1> DEFINE more == Append(x.orders, o)
<1>1. /\ y.run = r /\ y.account = x.account /\ y.seen = x.seen /\ y.picks = x.picks
      /\ y.sells = sells /\ y.buys = buys
      /\ y.cash = x.cash + CashDelta(o) /\ y.orders = more
  OBVIOUS
<1>2. x.orders \in Seq(RunOrders(r)) /\ x.account \in Account
  BY DEF SheetShape, OrdersOf, AccountOK
<1>3. CashAfter(x.account, more) = x.cash + CashDelta(o)
  BY <1>2, AppendSums DEF SheetShape
<1>4. OrdersOf(r, x.account, more)
  BY AppendLayout DEF SheetShape
<1>5. \A i \in DOMAIN more : more[i] = o \/ \E j \in DOMAIN x.orders : more[i] = x.orders[j]
  BY <1>2
<1> HIDE DEF more
<1>6. \A i \in DOMAIN more : more[i].symbol \notin sells \cup buys
  BY <1>5 DEF SheetShape
<1>7. QED  BY <1>1, <1>3, <1>4, <1>6 DEF SheetShape

LEMMA SheetShrinks ==
  ASSUME NEW x, SheetShape(x), NEW sells, sells \subseteq x.sells,
         NEW buys, buys \subseteq x.buys,
         NEW y, y = [x EXCEPT !.sells = sells, !.buys = buys],
         x = [run |-> x.run, account |-> x.account, seen |-> x.seen,
              sells |-> x.sells, buys |-> x.buys, picks |-> x.picks,
              cash |-> x.cash, orders |-> x.orders]
  PROVE  SheetShape(y)
<1>1. /\ y.run = x.run /\ y.account = x.account /\ y.seen = x.seen /\ y.picks = x.picks
      /\ y.sells = sells /\ y.buys = buys /\ y.cash = x.cash /\ y.orders = x.orders
  OBVIOUS
<1>2. QED  BY <1>1 DEF SheetShape

LEMMA SellKeepsShape ==
  ASSUME PlansInv, FilesInv, PlanSell
  PROVE  SheetInv'
<1> DEFINE x == sheet
           r == sheet.run
           s == First(sheet.sells)
           volume == SellVolume(sheet.account, MarketOf(r), sheet.picks, s)
           o == Planned("SELL", s, volume)
<1>1. SheetOK /\ SheetShape(x) /\ r \in Runs /\ ~Buys(x.orders)
  BY DEF PlanSell, PlansInv, Types, SheetOK, FilesInv, SheetInv, SalesFirst
<1>2. s \in x.sells /\ s \in DOMAIN Close(r)
  BY <1>1, FirstIn, LoopSymbols DEF PlanSell, SheetOK
<1>3. s \notin x.buys /\ \A i \in DOMAIN x.orders : x.orders[i].symbol # s
  BY <1>1, <1>2, TurnsApart DEF SheetShape
<1>4. CASE volume \in Nat \ {0} /\ CanOrder(MarketOf(r), s, "SELL")
  <2>1. sheet' = [sheet EXCEPT !.sells = @ \ {s}, !.cash = @ + CashDelta(o),
                               !.orders = Append(@, o)]
    BY <1>4 DEF PlanSell
  <2>2. Board(volume) /\ volume <= x.account.available[s]
    BY <1>1, <1>2, SellVolumeType DEF SheetShape
  <2>3. o \in RunOrders(r) /\ o.symbol = s /\ o.volume = volume
    BY <1>1, <1>2, <1>4, <2>2, RunOrderMade DEF Planned, PlannedOrder, Sides
  <2> HIDE DEF o, volume, s
  <2>4. sheet' = [sheet EXCEPT !.sells = x.sells \ {s}, !.buys = x.buys, !.cash = @ + CashDelta(o),
                               !.orders = Append(@, o)]
    BY <1>1, <2>1 DEF SheetOK
  <2>5. SheetShape(sheet')
    BY <1>1, <1>2, <1>3, <2>2, <2>3, <2>4, SheetGrows DEF SheetOK
  <2>6. QED  BY <2>5 DEF SheetInv
<1>5. CASE ~(volume \in Nat \ {0} /\ CanOrder(MarketOf(r), s, "SELL"))
  <2>1. sheet' = [sheet EXCEPT !.sells = @ \ {s}]
    BY <1>5 DEF PlanSell
  <2> HIDE DEF volume, s
  <2>2. sheet' = [sheet EXCEPT !.sells = x.sells \ {s}, !.buys = x.buys]
    BY <1>1, <2>1 DEF SheetOK
  <2>3. SheetShape(sheet')
    BY <1>1, <2>2, SheetShrinks DEF SheetOK
  <2>4. QED  BY <2>3 DEF SheetInv
<1>6. QED  BY <1>4, <1>5

LEMMA BuyKeepsShape ==
  ASSUME PlansInv, FilesInv, PlanBuy
  PROVE  SheetInv'
<1> DEFINE x == sheet
           r == sheet.run
           s == First(sheet.buys)
<1>1. SheetOK /\ SheetShape(x) /\ r \in Runs /\ x.cash \in Int
  BY DEF PlanBuy, PlansInv, Types, SheetOK, FilesInv, SheetInv
<1>2. s \in x.buys /\ s \in DOMAIN Close(r) /\ s \in Symbols
  BY <1>1, FirstIn, LoopSymbols DEF PlanBuy, SheetOK
<1>3. s \notin x.sells /\ \A i \in DOMAIN x.orders : x.orders[i].symbol # s
  BY <1>1, <1>2, TurnsApart DEF SheetShape
<1>4. PICK volume \in 0..Wanted(s) :
        /\ IF CanOrder(MarketOf(sheet.run), s, "BUY")
           THEN IsAffordable(volume, Wanted(s), Close(sheet.run)[s], sheet.cash)
           ELSE volume = 0
        /\ sheet' = IF volume \in Nat \ {0}
                    THEN [sheet EXCEPT !.buys = @ \ {s},
                            !.cash = @ + CashDelta(Planned("BUY", s, volume)),
                            !.orders = Append(@, Planned("BUY", s, volume))]
                    ELSE [sheet EXCEPT !.buys = @ \ {s}]
  BY DEF PlanBuy
<1> DEFINE o == Planned("BUY", s, volume)
<1>5. CASE volume \in Nat \ {0}
  <2>1. IsAffordable(volume, Wanted(s), Close(r)[s], x.cash)
    BY <1>4, <1>5
  <2>2. Board(Wanted(s))
    <3>1. Board(Desired(x.account, MarketOf(r), x.picks, s)) /\ Board(x.account.held[s])
      BY <1>1, <1>2, DesiredType DEF SheetShape, AccountOK
    <3>2. QED  BY <3>1, BoardSum DEF Wanted
  <2>3. Close(r)[s] \in Nat \ {0}
    BY <1>1, <1>2, CloseType
  <2>4. Board(volume)
    BY <1>1, <1>5, <2>1, <2>2, <2>3, AffordableBoard
  <2>5. o \in RunOrders(r) /\ o.symbol = s /\ o.side = "BUY"
    BY <1>1, <1>2, <1>5, <2>4, RunOrderMade DEF Planned, PlannedOrder, Sides
  <2>6. sheet' = [sheet EXCEPT !.buys = @ \ {s}, !.cash = @ + CashDelta(o), !.orders = Append(@, o)]
    BY <1>4, <1>5
  <2> HIDE DEF o, s
  <2>7. sheet' = [sheet EXCEPT !.sells = x.sells, !.buys = x.buys \ {s}, !.cash = @ + CashDelta(o),
                               !.orders = Append(@, o)]
    BY <1>1, <2>6 DEF SheetOK
  <2>8. SheetShape(sheet')
    BY <1>1, <1>2, <1>3, <2>5, <2>7, SheetGrows DEF SheetOK
  <2>9. QED  BY <2>8 DEF SheetInv
<1>6. CASE volume \notin Nat \ {0}
  <2>1. sheet' = [sheet EXCEPT !.buys = @ \ {s}]
    BY <1>4, <1>6
  <2> HIDE DEF s
  <2>2. sheet' = [sheet EXCEPT !.sells = x.sells, !.buys = x.buys \ {s}]
    BY <1>1, <2>1 DEF SheetOK
  <2>3. SheetShape(sheet')
    BY <1>1, <2>2, SheetShrinks DEF SheetOK
  <2>4. QED  BY <2>3 DEF SheetInv
<1>7. QED  BY <1>5, <1>6

-----------------------------------------------------------------------------
LEMMA FilesSame ==
  ASSUME FilesInv, UNCHANGED <<lots, orders, sessions, nav, pc, job, draft, plan, assessment>>, SheetInv'
  PROVE  FilesInv'
<1>1. LotsOK'
  BY DEF FilesInv, LotsOK
<1>2. PlansOK' /\ VerdictsOK' /\ JobsOK' /\ RowsOK' /\ SessionsOK'
  BY DEF FilesInv, PlansOK, VerdictsOK, JobsOK, RowsOK, SessionsOK, IsApproved, Approved, On
<1>3. NavOK'
  BY DEF FilesInv, NavOK, On, Exec!Days
<1>4. QED  BY <1>1, <1>2, <1>3 DEF FilesInv

LEMMA BeginPlanFiles ==
  ASSUME PlansInv, FilesInv, NEW r \in Runs, NEW picks \in Picks[r], BeginPlan(r, picks)
  PROVE  FilesInv'
<1>1. cash' \in Nat /\ UNCHANGED <<lots, orders, sessions, nav, pc, job, draft, plan, assessment>>
  BY AccountOpens DEF PlansInv, Types, BeginPlan
<1> DEFINE a == Snapshot(r, cash')
<1>2. sheet' = [run |-> r, account |-> a, picks |-> picks,
                seen |-> [orders |-> {id \in OrderIds : orders[id] # Absent}, days |-> Exec!Days],
                sells |-> ToSell(a, MarketOf(r), picks), buys |-> ToBuy(a, MarketOf(r), picks),
                cash |-> cash', orders |-> << >>]
  BY DEF BeginPlan
<1>3. AccountOK(a, r) /\ a.cash = cash'
  <2>1. Exec!Priced(RunDate[r])
    BY DEF BeginPlan, CanPlan
  <2>2. AccountOK(a, r)
    BY <1>1, <2>1, SnapshotOK DEF FilesInv
  <2>3. QED  BY <2>2 DEF Snapshot
<1>4. PicksOK(picks)
  <2>1. picks \subseteq DOMAIN MarketOf(r).close
    BY DEF BeginPlan, CanPlan
  <2>2. QED  BY <2>1, CloseType, RunsAssumption DEF PicksOK
<1> HIDE DEF a
<1>5. Exec!Days \subseteq Dates
  BY DEF FilesInv, NavOK
<1>6. OrdersOf(r, a, << >>) /\ CashAfter(a, << >>) = a.cash /\ DOMAIN << >> = {}
  BY <1>3, EmptyLayout DEF AccountOK
<1>7. SheetShape(sheet')
  BY <1>2, <1>3, <1>4, <1>5, <1>6 DEF SheetShape, Seen
<1>8. QED  BY <1>1, <1>7, FilesSame DEF SheetInv


LEMMA StoreFiles ==
  ASSUME PlansInv, DrawdownInv, FilesInv, StorePlan
  PROVE  FilesInv'
<1> DEFINE r == sheet.run
<1>1. /\ UNCHANGED <<execVars, assessment>> /\ sheet # Absent /\ SheetOK /\ sheet' = Absent
      /\ SheetShape(sheet) /\ r \in Runs /\ plan[r] = Absent
  BY DEF StorePlan, PlansInv, Types, SheetOK, FilesInv, SheetInv, DrawdownInv, SeenDays
<1>2. plan'[r] = [order |-> WithOrders(r, sheet.orders), account |-> sheet.account,
                  seen |-> sheet.seen, cash |-> sheet.cash]
      /\ \A q \in Runs : q # r => plan'[q] = plan[q]
  BY <1>1 DEF StorePlan, PlansInv, Types, FilesOK, On
<1>3. PlanShape(r, plan'[r])
  <2> DEFINE f == plan'[r]
  <2>1. f.order.orders = sheet.orders /\ f.account = sheet.account /\ f.seen = sheet.seen
        /\ f.cash = sheet.cash
        /\ f = [order |-> WithOrders(r, f.order.orders), account |-> f.account,
                seen |-> f.seen, cash |-> f.cash]
    BY <1>2 DEF WithOrders
  <2> HIDE DEF f
  <2>2. PlanShape(r, f)
    BY <1>1, <2>1 DEF PlanShape, SheetShape
  <2>3. QED  BY <2>2 DEF f
<1>4. PlansOK'
  BY <1>2, <1>3 DEF FilesInv, PlansOK
<1>5. VerdictsOK'
  BY <1>1, <1>2 DEF FilesInv, VerdictsOK
<1>6. LotsOK' /\ JobsOK' /\ RowsOK' /\ SessionsOK' /\ NavOK' /\ SheetInv'
  BY <1>1 DEF execVars, FilesInv, LotsOK, JobsOK, RowsOK, SessionsOK, IsApproved, Approved,
              On, NavOK, Exec!Days, SheetInv
<1>7. QED  BY <1>4, <1>5, <1>6 DEF FilesInv

LEMMA VerdictFiles ==
  ASSUME PlansInv, FilesInv, NEW r \in Runs, Approve(r) \/ Adjust(r) \/ Reject(r)
  PROVE  FilesInv'
<1> DEFINE f == plan[r]
<1>1. /\ plan[r] # Absent /\ assessment[r] = Absent
      /\ UNCHANGED <<execVars, sheet, plan>> /\ PlanShape(r, f)
  BY DEF Approve, Adjust, Reject, Decide, FilesInv, PlansOK
<1>2. PICK v : /\ Decide(r, v) /\ VerdictShape(r, f, v)
  <2>1. Passing(r) => Judged(r, f)
    BY DEF Passing, Passes, Judged
  <2>2. CASE Approve(r)
    <3> DEFINE v == [decision |-> "APPROVE", plan |-> plan[r].order]
    <3>1. Decide(r, v) /\ Judged(r, f)
      BY <2>1, <2>2 DEF Approve
    <3>2. VerdictShape(r, f, v)
      BY <3>1 DEF VerdictShape
    <3>3. QED  BY <3>1, <3>2
  <2>3. CASE Adjust(r)
    <3> DEFINE v == [decision |-> "ADJUST", plan |-> WithOrders(r, CutOf(r, plan[r].order.orders))]
    <3>1. Decide(r, v) /\ Judged(r, f)
      BY <2>1, <2>3 DEF Adjust, CutOf
    <3>2. VerdictShape(r, f, v)
      BY <3>1 DEF VerdictShape
    <3>3. QED  BY <3>1, <3>2
  <2>4. CASE Reject(r)
    <3> DEFINE v == [decision |-> "REJECT", plan |-> plan[r].order]
    <3>1. Decide(r, v)
      BY <2>4 DEF Reject
    <3>2. VerdictShape(r, f, v)
      BY <3>1 DEF VerdictShape
    <3>3. QED  BY <3>1, <3>2
  <2>5. QED  BY <2>2, <2>3, <2>4
<1>3. \A q \in Runs : assessment'[q] = IF q = r THEN v ELSE assessment[q]
  BY <1>2 DEF Decide, PlansInv, Types, FilesOK, On
<1>4. VerdictsOK'
  BY <1>1, <1>2, <1>3 DEF FilesInv, VerdictsOK
<1>5. \A x : IsApproved(x) => IsApproved(x)'
  BY <1>1, <1>3 DEF IsApproved, Approved
<1>6. LotsOK' /\ PlansOK' /\ NavOK' /\ SheetInv'
  BY <1>1 DEF execVars, FilesInv, LotsOK, PlansOK, On, NavOK, Exec!Days, SheetInv
<1>7. JobsOK'
  BY <1>1, <1>5 DEF execVars, FilesInv, JobsOK
<1>8. RowsOK'
  BY <1>1, <1>5 DEF execVars, FilesInv, RowsOK
<1>9. SessionsOK'
  BY <1>1, <1>5 DEF execVars, FilesInv, SessionsOK, On
<1>10. QED  BY <1>4, <1>6, <1>7, <1>8, <1>9 DEF FilesInv

LEMMA ExecuteFiles ==
  ASSUME PlansInv, FilesInv, NEW r \in Runs, NEW p \in Procs, Execute(p, r)
  PROVE  FilesInv'
<1>1. /\ UNCHANGED <<cash, lots, orders, sessions, nav, cursor, draft, sheet, plan, assessment>>
      /\ pc' = [pc EXCEPT ![p] = "validating"]
      /\ job' = [job EXCEPT ![p] = assessment[r].plan]
      /\ Approved(r)
  BY DEF Execute, Exec!Submit, Exec!Goto, Exec!ledgerVars
<1>2. \A q \in Procs : /\ job'[q] = IF q = p THEN assessment[r].plan ELSE job[q]
                       /\ pc'[q] = IF q = p THEN "validating" ELSE pc[q]
  BY <1>1 DEF PlansInv, Types, ExecutorOK, On
<1>3. IsApproved(assessment[r].plan)
  BY <1>1, ApprovedFacts DEF IsApproved, FilesInv
<1>4. \A x : IsApproved(x) => IsApproved(x)'
  BY <1>1 DEF IsApproved, Approved
<1>5. JobsOK'
  BY <1>2, <1>3, <1>4 DEF FilesInv, JobsOK
<1>6. LotsOK' /\ PlansOK' /\ VerdictsOK' /\ SheetInv'
  BY <1>1 DEF FilesInv, LotsOK, PlansOK, VerdictsOK, SheetInv
<1>7. RowsOK' /\ SessionsOK'
  BY <1>1, <1>4 DEF FilesInv, RowsOK, SessionsOK, On
<1>8. NavOK'
  BY <1>1, <1>2 DEF FilesInv, NavOK, On, Exec!Days
<1>9. QED  BY <1>5, <1>6, <1>7, <1>8 DEF FilesInv

-----------------------------------------------------------------------------
(* The executor's steps. *)
LEMMA TradeOrder ==
  ASSUME PlansInv, FilesInv, NEW p \in Procs, Exec!Trade(p)
  PROVE  LET o == Exec!NextOrder(p)
             r == job[p].run
         IN  /\ o = job[p].orders[cursor[p]] /\ cursor[p] \in DOMAIN job[p].orders
             /\ IsApproved(job[p]) /\ r \in Runs /\ o \in RunOrders(r)
             /\ job[p].date = RunDate[r] /\ job[p].date \in Dates
             /\ Exec!ExecuteOrder(job[p], o)
<1>1. IsList(job[p].orders) /\ IsApproved(job[p])
  BY DEF Exec!Trade, PlansInv, Types, ExecutorOK, FilesInv, JobsOK
<1>2. cursor[p] \in DOMAIN job[p].orders
  BY <1>1, ListElements DEF Exec!Trade, PlansInv, Types, ExecutorOK
<1>3. job[p].orders[cursor[p]] \in RunOrders(job[p].run) /\ job[p].date = RunDate[job[p].run]
      /\ job[p].date \in Dates
  BY <1>1, <1>2, ApprovedOrder DEF FilesInv
<1>4. QED  BY <1>1, <1>2, <1>3 DEF Exec!NextOrder, Exec!Trade, IsApproved

LEMMA TradeLots ==
  ASSUME PlansInv, FilesInv, NEW p \in Procs, Exec!Trade(p)
  PROVE  LotsOK'
<1> DEFINE o == Exec!NextOrder(p)
<1>1. /\ job[p].date \in Dates /\ o.symbol \in Symbols /\ o.volume \in Nat \ {0}
      /\ Board(o.volume) /\ Exec!ExecuteOrder(job[p], o)
  BY TradeOrder, RunOrderIs
<1>2. LotsOK
  BY DEF FilesInv
<1> HIDE DEF o
<1>3. CASE lots' = lots
  BY <1>2, <1>3 DEF LotsOK
<1>4. CASE Exec!FillBuy(job[p], o)
  BY <1>1, <1>2, <1>4, BuyEffect
<1>5. CASE Exec!FillSell(job[p], o)
  BY <1>1, <1>2, <1>5, SellEffect
<1>6. QED
  BY <1>1, <1>3, <1>4, <1>5 DEF Exec!ExecuteOrder, Exec!AnswerDuplicate, Exec!RecordUnfilled,
     Exec!ledgerVars

(* What a step does to the lots, the sessions and the NAV it is about to store. *)
LEMMA WorkParts ==
  ASSUME PlansInv, FilesInv, NEW p \in Procs, Work(p)
  PROVE  LotsOK' /\ SessionsOK' /\ NavOK'
<1>1. ExecutorOK /\ ExecutorOK' /\ LotsOK /\ SessionsOK /\ NavOK /\ JobsOK
      /\ UNCHANGED <<plan, assessment>>
      /\ \A q \in Procs : pc'[q] # "idle" => Kept(q)
  BY ExecutorStep DEF PlansInv, Types, FilesInv, Work
<1>2. UNCHANGED lots => LotsOK'
  BY <1>1 DEF LotsOK
<1>3. UNCHANGED sessions => SessionsOK'
  BY <1>1 DEF SessionsOK, On, IsApproved, Approved
<1>4. ASSUME Exec!Leave(p)
      PROVE  UNCHANGED nav => NavOK'
  <2>1. /\ pc' = [pc EXCEPT ![p] = "idle"] /\ draft' = [draft EXCEPT ![p] = Absent]
        /\ job' = [job EXCEPT ![p] = Absent]
    BY <1>4 DEF Exec!Leave
  <2>2. \A q \in Procs : pc'[q] = "inserting" => q # p /\ pc[q] = "inserting"
                                                  /\ draft'[q] = draft[q] /\ job'[q] = job[q]
    BY <1>1, <2>1 DEF ExecutorOK, On, NavOK
  <2>3. On(draft, Procs)'
    BY <1>1, <2>1 DEF NavOK, On
  <2>4. QED  BY <1>1, <2>2, <2>3 DEF NavOK, Exec!Days
<1>5. ASSUME NEW stage, Exec!Goto(p, stage), UNCHANGED <<job, nav>>,
             \A q \in Procs \ {p} : draft'[q] = draft[q], On(draft, Procs)',
             stage = "inserting" => draft'[p].date = job[p].date
      PROVE  NavOK'
  <2>1. pc' = [pc EXCEPT ![p] = stage]
    BY <1>5 DEF Exec!Goto
  <2>2. \A q \in Procs : pc'[q] = "inserting" => draft'[q].date = job'[q].date
    BY <1>1, <1>5, <2>1 DEF ExecutorOK, On, NavOK
  <2>3. QED  BY <1>1, <1>5, <2>2 DEF NavOK, Exec!Days
<1>6. UNCHANGED draft => On(draft, Procs)'
  BY <1>1 DEF NavOK, On
<1>7. CASE Exec!Validate(p)
  <2>1. UNCHANGED <<lots, sessions, nav, job, draft>> /\ Exec!Goto(p, "opening")
    BY <1>7 DEF Exec!Validate, Exec!ledgerVars
  <2>2. QED  BY <1>2, <1>3, <1>5, <1>6, <2>1
<1>8. CASE Exec!RefuseOvertaken(p) \/ Exec!RefuseSession(p) \/ Exec!RaiseInTrade(p)
             \/ Exec!RaiseUnpriced(p) \/ Exec!RefuseNav(p) \/ Exec!RaiseSecondNav(p)
             \/ Exec!Crash(p)
  <2>1. Exec!Leave(p) /\ UNCHANGED <<lots, sessions, nav>>
    BY <1>8 DEF Exec!RefuseOvertaken, Exec!RefuseSession, Exec!RaiseInTrade,
                Exec!RaiseUnpriced, Exec!RefuseNav, Exec!RaiseSecondNav, Exec!Crash,
                Exec!ledgerVars
  <2>2. QED  BY <1>2, <1>3, <1>4, <2>1
<1>9. CASE Exec!Begin(p)
  <2>1. /\ UNCHANGED <<lots, nav, job, draft>> /\ Exec!Goto(p, "trading") /\ pc[p] = "opening"
        /\ sessions' = IF sessions[job[p].date] = Absent
                       THEN [sessions EXCEPT ![job[p].date] = [plan |-> job[p], status |-> "STARTED"]]
                       ELSE sessions
    BY <1>9 DEF Exec!Begin, Exec!BeginSession
  <2>2. IsApproved(job[p])
    BY <1>1, <2>1 DEF JobsOK
  <2>3. \A x : IsApproved(x) => IsApproved(x)'
    BY <1>1 DEF IsApproved, Approved
  <2>4. On(sessions, Dates)'
    BY <1>1, <2>1 DEF SessionsOK, On
  <2>5. \A d \in Dates : \/ sessions'[d] = sessions[d]
                         \/ d = job[p].date /\ sessions'[d] = [plan |-> job[p], status |-> "STARTED"]
    BY <1>1, <2>1 DEF SessionsOK, On
  <2>6. SessionsOK'
    BY <1>1, <2>2, <2>3, <2>4, <2>5 DEF SessionsOK, SessionShape
  <2>7. QED  BY <1>2, <1>5, <1>6, <2>1, <2>6
<1>10. CASE Exec!Trade(p)
  <2>1. UNCHANGED <<pc, job, draft>>
    BY <1>10 DEF Exec!Trade
  <2>2. UNCHANGED <<sessions, nav>>
    BY <1>10 DEF Exec!Trade, Exec!ExecuteOrder, Exec!AnswerDuplicate, Exec!RecordUnfilled,
                 Exec!FillBuy, Exec!FillSell, Exec!ledgerVars
  <2>3. NavOK'
    BY <1>1, <2>1, <2>2 DEF NavOK, On, Exec!Days
  <2>4. QED  BY <1>3, <1>10, <2>2, <2>3, TradeLots
<1>11. CASE Exec!ReadCash(p) \/ Exec!ReadLots(p)
  <2>1. /\ UNCHANGED <<lots, sessions, nav, job>>
        /\ Exec!Goto(p, "pricing") \/ Exec!Goto(p, "recording")
        /\ \E x : draft' = [draft EXCEPT ![p] = x]
    BY <1>1, <1>11 DEF Exec!ReadCash, Exec!ReadLots, Exec!ledgerVars
  <2>2. (\A q \in Procs \ {p} : draft'[q] = draft[q]) /\ On(draft, Procs)'
    BY <1>1, <2>1 DEF NavOK, On
  <2>3. QED  BY <1>2, <1>3, <1>5, <2>1, <2>2
<1>12. CASE Exec!ComputeNav(p)
  <2>1. /\ UNCHANGED <<lots, sessions, nav, job>> /\ Exec!Goto(p, "inserting")
        /\ draft' = [draft EXCEPT ![p] = Exec!NavFor(job[p].date, @.cash, @.market)]
    BY <1>12 DEF Exec!ComputeNav, Exec!ledgerVars
  <2>2. (\A q \in Procs \ {p} : draft'[q] = draft[q]) /\ On(draft, Procs)'
    BY <1>1, <2>1 DEF NavOK, On
  <2>3. draft'[p].date = job[p].date
    BY <1>1, <2>1 DEF NavOK, On, Exec!NavFor
  <2>4. QED  BY <1>2, <1>3, <1>5, <2>1, <2>2, <2>3
<1>13. CASE Exec!KeepNav(p)
  <2>1. UNCHANGED <<lots, sessions, nav, job, draft>> /\ Exec!Goto(p, "closing")
    BY <1>13 DEF Exec!KeepNav, Exec!ledgerVars
  <2>2. QED  BY <1>2, <1>3, <1>5, <1>6, <2>1
<1>14. CASE Exec!StoreNav(p)
  <2>1. /\ UNCHANGED <<lots, sessions, job, draft>> /\ Exec!Goto(p, "closing")
        /\ pc[p] = "inserting" /\ nav' = nav \cup {draft[p]}
    BY <1>14 DEF Exec!StoreNav, Exec!InsertNav
  <2>2. draft[p].date \in Dates
    <3>1. draft[p].date = job[p].date /\ IsApproved(job[p])
      BY <1>1, <2>1 DEF NavOK, JobsOK
    <3>2. QED  BY <3>1, ApprovedFacts, CloseType DEF IsApproved, FilesInv
  <2>3. Exec!Days' \subseteq Dates
    BY <1>1, <2>1, <2>2 DEF NavOK, Exec!Days
  <2>4. pc' = [pc EXCEPT ![p] = "closing"]
    BY <2>1 DEF Exec!Goto
  <2>5. \A q \in Procs : pc'[q] = "inserting" => draft'[q].date = job'[q].date
    BY <1>1, <2>1, <2>4 DEF ExecutorOK, On, NavOK
  <2>6. QED  BY <1>2, <1>3, <1>6, <2>1, <2>3, <2>5 DEF NavOK
<1>15. CASE Exec!Finish(p)
  <2>1. /\ UNCHANGED <<lots, nav>> /\ Exec!Leave(p) /\ pc[p] = "closing"
        /\ sessions[job[p].date] # Absent /\ sessions[job[p].date].plan = job[p]
        /\ sessions' = [sessions EXCEPT ![job[p].date].status = "COMPLETED"]
    BY <1>15 DEF Exec!Finish, Exec!CompleteSession
  <2>2. \A x : IsApproved(x) => IsApproved(x)'
    BY <1>1 DEF IsApproved, Approved
  <2>3. On(sessions, Dates)'
    BY <1>1, <2>1 DEF SessionsOK, On
  <2>4. ASSUME NEW d \in Dates, sessions'[d] # sessions[d]
        PROVE  /\ d = job[p].date
               /\ sessions'[d] = [plan |-> job[p], status |-> "COMPLETED"]
    <3>1. d = job[p].date /\ sessions'[d] = [sessions[d] EXCEPT !.status = "COMPLETED"]
      BY <1>1, <2>1, <2>4 DEF SessionsOK, On
    <3>2. sessions[d] = [plan |-> sessions[d].plan, status |-> sessions[d].status]
      BY <1>1, <2>1, <3>1 DEF SessionsOK, SessionShape
    <3>3. QED  BY <2>1, <3>1, <3>2
  <2>5. IsApproved(job[p])
    BY <1>1, <2>1 DEF JobsOK
  <2>6. ASSUME NEW d \in Dates, sessions'[d] # Absent
        PROVE  IsApproved(sessions[d].plan)' /\ SessionShape(d, sessions'[d])
    <3>1. CASE sessions'[d] = sessions[d]
      BY <1>1, <2>2, <2>6, <3>1 DEF SessionsOK
    <3>2. CASE sessions'[d] # sessions[d]
      BY <2>2, <2>4, <2>5, <3>2 DEF SessionShape
    <3>3. QED  BY <3>1, <3>2
  <2>7. SessionsOK'
    BY <2>3, <2>6 DEF SessionsOK
  <2>8. QED  BY <1>2, <1>4, <2>1, <2>7
<1>16. QED
  BY <1>7, <1>8, <1>9, <1>10, <1>11, <1>12, <1>13, <1>14, <1>15 DEF Work, Exec!Step

LEMMA WorkFiles ==
  ASSUME PlansInv, FilesInv, NEW p \in Procs, Work(p)
  PROVE  FilesInv'
<1>1. /\ UNCHANGED <<sheet, plan, assessment>>
      /\ \A q \in Procs : pc'[q] # "idle" => Kept(q)
      /\ \/ orders' = orders
         \/ \E i \in DOMAIN job[p].orders, status \in {"FILLED", "UNFILLED"} :
              LET o == job[p].orders[i]
              IN  orders' = [orders EXCEPT ![o.id] =
                               [plan |-> job[p], order |-> o, status |-> status]]
      /\ pc[p] # "idle"
  BY ExecutorStep DEF Work, PlansInv, Types
<1>2. LotsOK' /\ SessionsOK' /\ NavOK'
  BY WorkParts
<1>3. SheetInv' /\ PlansOK' /\ VerdictsOK'
  BY <1>1 DEF FilesInv, SheetInv, PlansOK, VerdictsOK
<1>4. \A x : IsApproved(x) => IsApproved(x)'
  BY <1>1 DEF IsApproved, Approved
<1>5. JobsOK'
  BY <1>1, <1>4 DEF FilesInv, JobsOK, Kept
<1>6. RowsOK'
  <2>1. CASE orders' = orders
    BY <1>4, <2>1 DEF FilesInv, RowsOK
  <2>2. ASSUME NEW i \in DOMAIN job[p].orders, NEW status \in {"FILLED", "UNFILLED"},
               orders' = [orders EXCEPT ![job[p].orders[i].id] =
                            [plan |-> job[p], order |-> job[p].orders[i], status |-> status]]
        PROVE  RowsOK'
    <3> DEFINE row == [plan |-> job[p], order |-> job[p].orders[i], status |-> status]
    <3>1. IsApproved(job[p])
      BY <1>1 DEF FilesInv, JobsOK
    <3>2. \A id \in OrderIds : \/ orders'[id] = orders[id]
                               \/ orders'[id] = row /\ id = job[p].orders[i].id
      BY <2>2 DEF PlansInv, Types, ExecutorOK, On
    <3>3. RowShape(row) /\ row.plan = job[p] /\ row.order.id = job[p].orders[i].id
      BY DEF RowShape
    <3> HIDE DEF row
    <3>4. ASSUME NEW id \in OrderIds, orders'[id] # Absent
          PROVE  IsApproved(orders[id].plan)' /\ RowShape(orders'[id]) /\ orders'[id].order.id = id
      <4>1. CASE orders'[id] = orders[id]
        BY <1>4, <3>4, <4>1 DEF FilesInv, RowsOK
      <4>2. CASE orders'[id] = row /\ id = job[p].orders[i].id
        BY <1>4, <3>1, <3>3, <4>2
      <4>3. QED  BY <3>2, <4>1, <4>2
    <3>5. QED  BY <3>4 DEF RowsOK
  <2>3. QED  BY <1>1, <2>1, <2>2
<1>7. QED  BY <1>2, <1>3, <1>5, <1>6 DEF FilesInv

LEMMA FilesInvariant == Spec => []FilesInv
<1>1. Init => FilesInv
  <2> SUFFICES ASSUME Init PROVE FilesInv
    OBVIOUS
  <2>1. /\ orders = [id \in OrderIds |-> Absent]
        /\ pc = [p \in Procs |-> "idle"] /\ draft = [p \in Procs |-> Absent]
        /\ sheet = Absent /\ plan = [r \in Runs |-> Absent] /\ nav = {}
        /\ assessment = [r \in Runs |-> Absent]
        /\ lots = << >> /\ sessions = [d \in Dates |-> Absent]
    BY DEF Init, Exec!Init, Exec!LedgerInit
  <2>2. LotsOK
    <3>1. lots \in Seq(Exec!Lot) /\ DOMAIN lots = {}
      BY <2>1
    <3>2. QED  BY <3>1 DEF LotsOK
  <2>3. QED
    BY <2>1, <2>2 DEF FilesInv, SheetInv, PlansOK, VerdictsOK, JobsOK, RowsOK, SessionsOK,
                      NavOK, Exec!Days, On
<1>2. PlansInv /\ DrawdownInv /\ FilesInv /\ [Next]_vars => FilesInv'
  <2> SUFFICES ASSUME PlansInv, DrawdownInv, FilesInv, [Next]_vars
               PROVE  FilesInv'
    OBVIOUS
  <2>1. ASSUME NEW r \in Runs, NEW picks \in Picks[r], BeginPlan(r, picks)
        PROVE  FilesInv'
    BY <2>1, BeginPlanFiles
  <2>2. ASSUME NEW r \in Runs, NEW picks, RaiseInPlan(r, picks)
        PROVE  FilesInv'
    BY <2>2, FilesSame DEF RaiseInPlan, Exec!EnsureAccount, FilesInv, SheetInv
  <2>3. ASSUME NEW r \in Runs, Approve(r) \/ Adjust(r) \/ Reject(r)
        PROVE  FilesInv'
    BY <2>3, VerdictFiles
  <2>4. ASSUME NEW r \in Runs, NEW p \in Procs, Execute(p, r)
        PROVE  FilesInv'
    BY <2>4, ExecuteFiles
  <2>5. CASE PlanSell
    BY <2>5, SellKeepsShape, FilesSame DEF PlanSell, execVars
  <2>6. CASE PlanBuy
    BY <2>6, BuyKeepsShape, FilesSame DEF PlanBuy, execVars
  <2>7. CASE StorePlan
    BY <2>7, StoreFiles
  <2>8. CASE LosePlan
    BY <2>8, FilesSame DEF LosePlan, SheetInv
  <2>9. ASSUME NEW p \in Procs, Work(p)
        PROVE  FilesInv'
    BY <2>9, WorkFiles
  <2>10. CASE UNCHANGED vars
    BY <2>10, FilesSame DEF vars, execVars, FilesInv, SheetInv
  <2>11. QED
    BY <2>1, <2>2, <2>3, <2>4, <2>5, <2>6, <2>7, <2>8, <2>9, <2>10 DEF Next
<1>3. QED  BY <1>1, <1>2, PlansInvariant, DrawdownInvariant, PTL DEF Spec

(* The account only ever holds and trades whole lots: sizing a position, cutting *)
(* an order, paying for a purchase and drawing a sale on the oldest lots never   *)
(* leave a part of one, for any lot size, prices, limits, runs and deaths.       *)
THEOREM BoardLotsHolds == Spec => []BoardLots
<1>1. FilesInv => BoardLots
  <2> SUFFICES ASSUME FilesInv PROVE BoardLots
    OBVIOUS
  <2>1. ASSUME NEW i \in DOMAIN lots
        PROVE  lots[i].remaining % LotSize = 0
    <3>1. lots[i].remaining \in Nat /\ Board(lots[i].remaining)
      BY LotFacts DEF FilesInv, LotsOK
    <3>2. QED  BY <3>1, BoardIs
  <2>2. ASSUME NEW id \in OrderIds, orders[id] # Absent
        PROVE  orders[id].order.volume % LotSize = 0
    <3> DEFINE row == orders[id]
    <3>1. IsApproved(row.plan) /\ RowShape(row)
      BY <2>2 DEF FilesInv, RowsOK
    <3>2. PICK i \in DOMAIN row.plan.orders : row.order = row.plan.orders[i]
      BY <3>1 DEF RowShape
    <3>3. row.order \in RunOrders(row.plan.run) /\ row.plan.run \in Runs
      BY <3>1, <3>2, ApprovedOrder DEF FilesInv, IsApproved
    <3>4. row.order.volume \in Nat /\ Board(row.order.volume)
      BY <3>3, RunOrderIs
    <3>5. QED  BY <3>4, BoardIs
  <2>3. QED  BY <2>1, <2>2 DEF BoardLots
<1>2. QED  BY <1>1, FilesInvariant, PTL

-----------------------------------------------------------------------------
(* An id names a run and what it orders: client_order_id is the run id followed *)
(* by a hash of the order's content.                                            *)
OrderIdsDiffer ==
  \A r, q \in Runs : \A o \in RunOrders(r), u \in RunOrders(q) :
    o.id \in OrderIds /\ (o.id = u.id => r = q /\ o = u)

LEMMA OrderType ==
  ASSUME OrderIdsDiffer, NEW r \in Runs, NEW o \in RunOrders(r)
  PROVE  o \in Order
<1>1. o.id \in OrderIds
  BY DEF OrderIdsDiffer
<1>2. o = PlannedOrder(r, o.symbol, o.side, o.price, o.volume) /\ o.symbol \in Symbols
      /\ o.side \in Sides /\ o.price \in Nat \ {0} /\ o.volume \in Nat \ {0}
      /\ o.id = OrderId(r, o.symbol, o.side, o.price, o.volume)
  BY RunOrderIs
<1>3. QED  BY <1>1, <1>2 DEF PlannedOrder, Order

LEMMA PlanFileType ==
  ASSUME OrderIdsDiffer, NEW r \in Runs, NEW list \in Seq(RunOrders(r))
  PROVE  list \in Seq(Order) /\ WithOrders(r, list) \in AllPlans
<1>1. Len(list) \in Nat /\ DOMAIN list = 1..Len(list)
  BY RunListFacts
<1>2. \A i \in DOMAIN list :
        /\ list[i] \in Order /\ list[i].id \in OrderIds
        /\ list[i] = PlannedOrder(r, list[i].symbol, list[i].side, list[i].price, list[i].volume)
  BY RunListFacts, OrderType, RunOrderIs DEF OrderIdsDiffer
<1>3. list \in Seq(Order)
  <2>1. list \in [1..Len(list) -> Order]
    BY <1>1, <1>2
  <2>2. QED  BY <1>1, <2>1, SeqDef
<1> DEFINE ids == [i \in DOMAIN list |-> list[i].id]
<1>4. ids \in Seq(OrderIds)
  <2>1. ids \in [1..Len(list) -> OrderIds]
    BY <1>1, <1>2
  <2>2. QED  BY <1>1, <2>1, SeqDef
<1>5. WithOrders(r, list) = [run |-> r, checksum |-> ids, date |-> RunDate[r], orders |-> list]
  BY DEF WithOrders
<1>6. RunDate[r] \in Dates
  BY CloseType
<1> HIDE DEF ids
<1>7. WithOrders(r, list) \in [run: Runs, checksum: Seq(OrderIds), date: Dates, orders: Seq(Order)]
  BY <1>3, <1>4, <1>5, <1>6
<1>8. WithOrders(r, list).orders = list /\ WithOrders(r, list).run = r
  BY <1>5
<1>9. QED  BY <1>2, <1>3, <1>7, <1>8 DEF AllPlans

(* Every file has its type and belongs to its run: the sheet, each plan with the *)
(* account it was built on, each assessment with the plan it binds.              *)
THEOREM TypeOKHolds == ASSUME OrderIdsDiffer PROVE Spec => []TypeOK
<1>1. PlansInv /\ FilesInv => TypeOK
  <2> SUFFICES ASSUME PlansInv, FilesInv PROVE TypeOK
    OBVIOUS
  <2>1. ASSUME sheet # Absent
        PROVE  sheet \in Sheet
    <3>1. SheetOK /\ SheetShape(sheet) /\ sheet.run \in Runs
      BY <2>1 DEF PlansInv, Types, SheetOK, FilesInv, SheetInv
    <3>2. sheet.sells \subseteq Symbols /\ sheet.buys \subseteq Symbols
      BY <3>1, LoopSymbols
    <3>3. sheet.orders \in Seq(Order)
      BY <3>1, PlanFileType DEF SheetShape, OrdersOf
    <3>4. sheet.account \in Account /\ sheet.seen \in Seen /\ sheet.picks \subseteq Symbols
      BY <3>1 DEF SheetShape, AccountOK, PicksOK
    <3>5. QED  BY <3>1, <3>2, <3>3, <3>4 DEF SheetOK, Sheet
  <2>2. ASSUME NEW r \in Runs, plan[r] # Absent
        PROVE  plan[r] \in OrderPlan /\ plan[r].order = WithOrders(r, plan[r].order.orders)
    <3> DEFINE f == plan[r]
    <3>1. PlanShape(r, f) /\ f.cash \in Int
      BY <2>2 DEF PlansInv, Types, FilesOK, FilesInv, PlansOK
    <3>2. f.order.orders \in Seq(RunOrders(r)) /\ f.account \in Account /\ f.seen \in Seen
      BY <3>1 DEF PlanShape, OrdersOf, AccountOK
    <3>3. f = [order |-> WithOrders(r, f.order.orders), account |-> f.account,
               seen |-> f.seen, cash |-> f.cash]
      BY <3>1 DEF PlanShape
    <3> HIDE DEF f
    <3>4. WithOrders(r, f.order.orders) \in AllPlans /\ f.order = WithOrders(r, f.order.orders)
      BY <3>2, <3>3, PlanFileType
    <3>5. f \in OrderPlan
      BY <3>1, <3>2, <3>3, <3>4 DEF OrderPlan
    <3>6. QED  BY <3>4, <3>5 DEF f
  <2>3. ASSUME NEW r \in Runs, assessment[r] # Absent
        PROVE  /\ assessment[r] \in Assessment
               /\ assessment[r].plan = WithOrders(r, assessment[r].plan.orders)
    <3> DEFINE f == plan[r]
               v == assessment[r]
    <3>1. PlanShape(r, f) /\ VerdictShape(r, f, v)
      BY <2>3 DEF FilesInv, PlansOK, VerdictsOK
    <3>2. f.order = WithOrders(r, f.order.orders) /\ f.order.orders \in Seq(RunOrders(r))
      BY <3>1 DEF PlanShape, OrdersOf
    <3>3. ASSUME v.decision # "REJECT"
          PROVE  v.plan.orders \in Seq(RunOrders(r)) /\ v.plan = WithOrders(r, v.plan.orders)
      BY <3>3, <2>3, ApprovedFacts DEF Approved, OrdersOf, FilesInv
    <3> HIDE DEF f, v
    <3>4. v.plan.orders \in Seq(RunOrders(r)) /\ v.plan = WithOrders(r, v.plan.orders)
      BY <3>1, <3>2, <3>3 DEF VerdictShape
    <3>5. v.plan \in AllPlans /\ v.decision \in {"APPROVE", "ADJUST", "REJECT"}
          /\ v = [decision |-> v.decision, plan |-> v.plan]
      BY <3>1, <3>4, PlanFileType DEF VerdictShape
    <3>6. v \in Assessment
      BY <3>5 DEF Assessment
    <3>7. QED  BY <3>4, <3>6 DEF v
  <2>4. QED  BY <2>1, <2>2, <2>3 DEF TypeOK
<1>2. QED  BY <1>1, PlansInvariant, FilesInvariant, PTL

-----------------------------------------------------------------------------
(* What the specification of the risk approval says of an adjustment holds when  *)
(* the limit cut purchases only: the adjusted plan passes the rules of its       *)
(* original.                                                                     *)
CutPurchasesPass ==
  \A r \in Runs : Approved(r) /\ SalesKept(r) =>
    BookRules(plan[r].account, MarketOf(r), assessment[r].plan.orders)

(* An approved plan whose sales were all kept passes the rules of its original. *)
LEMMA ApprovedPasses ==
  ASSUME FilesInv, NEW r \in Runs, Approved(r), SalesKept(r)
  PROVE  BookRules(plan[r].account, MarketOf(r), assessment[r].plan.orders)
<1> DEFINE f == plan[r]
           list == f.order.orders
<1>1. /\ AccountOK(f.account, r) /\ OrdersOf(r, f.account, list)
      /\ BookRules(f.account, MarketOf(r), list) /\ OrderValueRule(list)
      /\ assessment[r].plan.orders = list \/ assessment[r].plan.orders = CutOf(r, list)
  BY ApprovedFacts DEF FilesInv, PlanShape, Judged
<1>2. KeepsSales(list)
  BY DEF SalesKept, KeepsSales
<1> HIDE DEF f, list
<1>3. BookRules(f.account, MarketOf(r), CutOf(r, list))
  BY <1>1, <1>2, CutPasses
<1>4. QED  BY <1>1, <1>3 DEF f

(* An assessment that only cut purchases leaves a plan that passes the exposure, *)
(* weight, turnover and cash rules: the exception AdjustedPlansPass finds is the *)
(* only one there is.                                                            *)
THEOREM CutPurchasesPassHolds == Spec => []CutPurchasesPass
<1>1. FilesInv => CutPurchasesPass
  BY ApprovedPasses DEF CutPurchasesPass
<1>2. QED  BY <1>1, FilesInvariant, PTL

=============================================================================
