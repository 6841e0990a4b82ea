------------------------ MODULE PaperExecution_proofs ------------------------
(***************************************************************************)
(* Machine-checked proofs about PaperExecution, for any number of           *)
(* processes, plans, dates and deaths.                                      *)
(***************************************************************************)
EXTENDS PaperExecution, SequenceTheorems, SumTheorems, TLAPS

(* The part of TypeOK that does not rest on sums over finite sets; of the NAV    *)
(* drafts, that each process has its own.                                        *)
CoreTypeOK ==
  /\ BooksTypeOK
  /\ ProcsTypeOK
  /\ draft = [p \in Procs |-> draft[p]]

Working == {"trading", "pricing", "recording", "inserting", "closing"}

LEMMA FeeTypes ==
  ASSUME NEW o \in Order
  PROVE  Required(o) \in Nat /\ Proceeds(o) \in Int
<1>1. ASSUME NEW v \in Nat, NEW b \in Nat
      PROVE  PerBps(v, b) \in Nat
  BY <1>1, FeesAssumption DEF PerBps
<1>2. Price(o) \in Nat
  BY FeesAssumption DEF Price, ExecutionPrice, Order
<1>3. TradeValue(o) \in Nat
  BY <1>2 DEF TradeValue, Order
<1>4. \A v \in Nat : Commission(v) \in Nat
  BY <1>1, FeesAssumption DEF Commission
<1>5. PerBps(TradeValue(o), TransferBps) \in Nat /\ PerBps(TradeValue(o), StampDutyBps) \in Nat
  BY <1>1, <1>3, FeesAssumption
<1>6. Fee(o) \in Nat
  BY <1>3, <1>4, <1>5 DEF Fee, EstimateFee
<1>7. QED  BY <1>3, <1>6 DEF Required, Proceeds

LEMMA JobOrder ==
  ASSUME NEW plan \in Plans, NEW k \in Nat, 1 <= k, k <= Len(plan.orders)
  PROVE  plan.orders[k] \in Order /\ k \in DOMAIN plan.orders
BY PlansAssumption

-----------------------------------------------------------------------------
(* A process past begin_execution_session knows the account row exists. *)
AccountOpen == \A p \in Procs : pc[p] \in Working => cash # Absent

CoreInv == CoreTypeOK /\ AccountOpen

(* The tables keep their column types and CHECK constraints - in particular   *)
(* cash never becomes negative and no lot is overdrawn - and the processes    *)
(* their locals, in every execution.                                          *)
THEOREM CoreTypeCorrect == Spec => []CoreInv
<1> USE DEF CoreInv, CoreTypeOK, AccountOpen, Working
<1>1. Init => CoreInv
  BY AccountAssumption, MaxCrashesAssumption
  DEF Init, LedgerInit, BooksTypeOK, ProcsTypeOK, Stages
<1>2. CoreInv /\ [Next]_vars => CoreInv'
  <2> SUFFICES ASSUME CoreInv, [Next]_vars
               PROVE  CoreInv'
    OBVIOUS
  <2>1. ASSUME NEW p \in Procs, Leave(p),
               crashes' \in 0..MaxCrashes
        PROVE  /\ ProcsTypeOK' /\ draft' = [q \in Procs |-> draft'[q]]
               /\ cash' = cash => AccountOpen'
    BY <2>1 DEF Leave, ProcsTypeOK, Stages
  <2>2. CASE OpenAccount
    BY <2>2, AccountAssumption, AbsentAssumption
    DEF OpenAccount, EnsureAccount, procVars, BooksTypeOK, ProcsTypeOK
  <2>3. ASSUME NEW p \in Procs, NEW plan \in Plans, Submit(p, plan)
        PROVE  CoreInv'
    BY <2>3 DEF Submit, Goto, ledgerVars, BooksTypeOK, ProcsTypeOK, Stages
  <2>4. ASSUME NEW p \in Procs, Validate(p)
        PROVE  CoreInv'
    BY <2>4 DEF Validate, Goto, ledgerVars, BooksTypeOK, ProcsTypeOK, Stages
  <2>5. ASSUME NEW p \in Procs, Leave(p), UNCHANGED ledgerVars,
               crashes' \in 0..MaxCrashes
        PROVE  CoreInv'
    BY <2>1, <2>5 DEF ledgerVars, BooksTypeOK
  <2>6. ASSUME NEW p \in Procs, Begin(p)
        PROVE  CoreInv'
    <3>1. BooksTypeOK'
      BY <2>6 DEF Begin, BeginSession, Session, BooksTypeOK, ProcsTypeOK
    <3>2. ProcsTypeOK' /\ AccountOpen'
      BY <2>6 DEF Begin, BeginSession, SessionRefused, Goto, ProcsTypeOK, Stages
    <3>3. QED  BY <2>6, <3>1, <3>2 DEF Begin
  <2>7. ASSUME NEW p \in Procs, Trade(p)
        PROVE  CoreInv'
    <3> DEFINE o == NextOrder(p)
               plan == job[p]
    <3>1. plan \in Plans /\ plan.date \in Dates /\ plan.date \in Nat
      BY <2>7, PlansAssumption, DatesAssumption DEF Trade, ProcsTypeOK
    <3>2. o \in Order /\ o.id \in OrderIds
      <4>1. cursor[p] \in Nat /\ 1 <= cursor[p] /\ cursor[p] <= Len(plan.orders)
        BY <2>7 DEF Trade, ProcsTypeOK
      <4>2. o \in Order
        BY <3>1, <4>1, JobOrder DEF NextOrder
      <4>3. QED  BY <4>2 DEF Order
    <3>3. ProcsTypeOK' /\ UNCHANGED draft /\ (cash' # Absent => AccountOpen')
      BY <2>7 DEF Trade, ProcsTypeOK
    <3>4. cash \in Nat
      BY <2>7 DEF Trade, BooksTypeOK
    <3>5. ASSUME NEW status \in {"FILLED", "UNFILLED"}, Write(plan, o, status)
          PROVE  orders' \in [OrderIds -> OrderRow \cup {Absent}]
      BY <3>1, <3>2, <3>5 DEF Write, OrderRow, BooksTypeOK
    <3>6. CASE AnswerDuplicate(o)
      BY <3>3, <3>4, <3>6, AbsentAssumption DEF AnswerDuplicate, ledgerVars, BooksTypeOK
    <3>7. CASE RecordUnfilled(plan, o)
      BY <3>3, <3>4, <3>5, <3>7, AbsentAssumption DEF RecordUnfilled, BooksTypeOK
    <3>8. CASE FillBuy(plan, o)
      <4>1. cash' \in Nat
        BY <3>2, <3>4, <3>8, FeeTypes DEF FillBuy, Covered
      <4>2. lots' \in Seq(Lot)
        BY <3>1, <3>2, <3>8 DEF FillBuy, Lot, Order, BooksTypeOK
      <4>3. orders' \in [OrderIds -> OrderRow \cup {Absent}] /\ UNCHANGED sessions
        BY <3>5, <3>8 DEF FillBuy
      <4>4. QED  BY <3>3, <4>1, <4>2, <4>3, AbsentAssumption DEF BooksTypeOK
    <3>9. CASE FillSell(plan, o)
      <4>1. cash' \in Nat
        BY <3>2, <3>4, <3>9, FeeTypes DEF FillSell
      <4>2. lots' \in Seq(Lot)
        <5>1. PICK taken \in [DOMAIN lots -> 0..o.volume] :
                /\ \A i \in DOMAIN lots : taken[i] <= lots[i].remaining
                /\ lots' = [i \in DOMAIN lots |->
                             [lots[i] EXCEPT !.remaining = @ - taken[i]]]
          BY <3>9 DEF FillSell, DrawnFIFO
        <5>2. ASSUME NEW i \in DOMAIN lots
              PROVE  [lots[i] EXCEPT !.remaining = @ - taken[i]] \in Lot
          <6>1. lots[i] \in Lot
            BY DEF BooksTypeOK
          <6>2. taken[i] \in Nat /\ taken[i] <= lots[i].remaining
            BY <3>2, <5>1 DEF Order
          <6>3. QED  BY <6>1, <6>2 DEF Lot
        <5>3. DOMAIN lots = 1..Len(lots) /\ Len(lots) \in Nat
          BY DEF BooksTypeOK
        <5>4. lots' \in [1..Len(lots) -> Lot]
          BY <5>1, <5>2, <5>3
        <5>5. QED  BY <5>3, <5>4, IsASeq
      <4>3. orders' \in [OrderIds -> OrderRow \cup {Absent}] /\ UNCHANGED sessions
        BY <3>5, <3>9 DEF FillSell
      <4>4. QED  BY <3>3, <4>1, <4>2, <4>3, AbsentAssumption DEF BooksTypeOK
    <3>10. QED  BY <2>7, <3>6, <3>7, <3>8, <3>9 DEF Trade, ExecuteOrder
  <2>8. ASSUME NEW p \in Procs, ReadCash(p)
        PROVE  CoreInv'
    BY <2>8 DEF ReadCash, Goto, ledgerVars, BooksTypeOK, ProcsTypeOK, Stages
  <2>9. ASSUME NEW p \in Procs, ReadLots(p)
        PROVE  CoreInv'
    BY <2>9 DEF ReadLots, Goto, ledgerVars, BooksTypeOK, ProcsTypeOK, Stages
  <2>10. ASSUME NEW p \in Procs, ComputeNav(p) \/ KeepNav(p) \/ StoreNav(p)
        PROVE  CoreInv'
    <3>1. UNCHANGED <<cash, lots, orders, sessions, job, cursor, crashes>>
      BY <2>10 DEF ComputeNav, KeepNav, StoreNav, InsertNav, ledgerVars
    <3>2. PICK stage \in {"inserting", "closing"} : pc' = [pc EXCEPT ![p] = stage]
      BY <2>10 DEF ComputeNav, KeepNav, StoreNav, Goto
    <3>3. draft' = [q \in Procs |-> draft'[q]]
      BY <2>10 DEF ComputeNav, KeepNav, StoreNav
    <3>4. pc[p] \in {"recording", "inserting"}
      BY <2>10 DEF ComputeNav, KeepNav, StoreNav
    <3>5. QED  BY <3>1, <3>2, <3>3, <3>4 DEF BooksTypeOK, ProcsTypeOK, Stages
  <2>11. ASSUME NEW p \in Procs, Finish(p)
        PROVE  CoreInv'
    <3>1. BooksTypeOK' /\ cash' = cash
      BY <2>11 DEF Finish, CompleteSession, Session, BooksTypeOK
    <3>2. crashes' \in 0..MaxCrashes
      BY <2>11 DEF Finish, ProcsTypeOK
    <3>3. QED  BY <2>1, <2>11, <3>1, <3>2 DEF Finish
  <2>12. ASSUME NEW p \in Procs,
                \/ RefuseOvertaken(p) \/ RefuseSession(p) \/ RaiseInTrade(p)
                \/ RaiseUnpriced(p) \/ RefuseNav(p) \/ RaiseSecondNav(p) \/ Crash(p)
         PROVE  CoreInv'
    <3>1. Leave(p) /\ UNCHANGED ledgerVars /\ crashes' \in 0..MaxCrashes
      BY <2>12, MaxCrashesAssumption
      DEF RefuseOvertaken, RefuseSession, RaiseInTrade, RaiseUnpriced, RefuseNav,
          RaiseSecondNav, Crash, ledgerVars, ProcsTypeOK
    <3>2. QED  BY <2>5, <3>1
  <2>13. CASE UNCHANGED vars
    BY <2>13 DEF vars, ledgerVars, procVars, BooksTypeOK, ProcsTypeOK
  <2>14. QED
    BY <2>2, <2>3, <2>4, <2>6, <2>7, <2>8, <2>9, <2>10, <2>11, <2>12, <2>13
    DEF Next, Step
<1>3. QED  BY <1>1, <1>2, PTL DEF Spec

-----------------------------------------------------------------------------
(* The invariant behind the settlement: who owns a date, how far each process *)
(* got, and what a completed session implies.                                 *)
IdsKnown(plan) == \A k \in 1..Len(plan.orders) : orders[plan.orders[k].id] # Absent

SessionsDated ==
  \A d \in Dates : sessions[d] # Absent => sessions[d].plan.date = d

OneSessionPerRun ==
  \A d, e \in Dates :
    sessions[d] # Absent /\ sessions[e] # Absent
      /\ sessions[d].plan.run = sessions[e].plan.run => d = e

WorkerOwns ==
  \A p \in Procs : pc[p] \in Working =>
    /\ sessions[job[p].date] # Absent
    /\ sessions[job[p].date].plan = job[p]

WorkerProgress ==
  \A p \in Procs :
    /\ pc[p] \notin Working => cursor[p] = 1
    /\ pc[p] = "trading" =>
         \A k \in 1..Len(job[p].orders) :
           k < cursor[p] => orders[job[p].orders[k].id] # Absent
    /\ pc[p] \in {"pricing", "recording", "inserting", "closing"} => IdsKnown(job[p])
    /\ pc[p] = "inserting" => draft[p].date = job[p].date
    /\ pc[p] = "closing" => job[p].date \in Days

CompletedIsSettled ==
  \A d \in Dates : sessions[d] # Absent /\ sessions[d].status = "COMPLETED" =>
    /\ IdsKnown(sessions[d].plan)
    /\ d \in Days

SettlementInv ==
  /\ OnePlanPerDay
  /\ SessionsDated
  /\ OneSessionPerRun
  /\ WorkerOwns
  /\ WorkerProgress
  /\ CompletedIsSettled

(* No step rewrites or removes a row: orders, session owners and NAV dates stay. *)
RowsStay ==
  /\ \A id \in OrderIds : orders[id] # Absent => orders'[id] = orders[id]
  /\ \A d \in Dates : sessions[d] # Absent =>
       sessions'[d] # Absent /\ sessions'[d].plan = sessions[d].plan
  /\ Days \subseteq Days'

LEMMA WriteKeepsRows ==
  ASSUME BooksTypeOK, NEW plan, NEW o, NEW status, ~Recorded(o), Write(plan, o, status)
  PROVE  \A id \in OrderIds : orders[id] # Absent => orders'[id] = orders[id]
BY DEF Write, Recorded, BooksTypeOK

LEMMA StepKeepsRows ==
  ASSUME CoreInv, [Next]_vars
  PROVE  RowsStay
<1> USE DEF CoreInv, CoreTypeOK, RowsStay, Days
<1>1. CASE UNCHANGED <<orders, sessions, nav>>
  BY <1>1
<1>2. ASSUME NEW p \in Procs, Begin(p)
      PROVE  RowsStay
  BY <1>2, AbsentAssumption DEF Begin, BeginSession, BooksTypeOK, ProcsTypeOK, Session
<1>3. ASSUME NEW p \in Procs, Trade(p)
      PROVE  RowsStay
  <2>1. UNCHANGED <<sessions, nav>>
    BY <1>3 DEF Trade, ExecuteOrder, AnswerDuplicate, RecordUnfilled, FillBuy, FillSell, ledgerVars
  <2>2. \/ UNCHANGED orders
        \/ \E status : ~Recorded(NextOrder(p)) /\ Write(job[p], NextOrder(p), status)
    BY <1>3 DEF Trade, ExecuteOrder, AnswerDuplicate, RecordUnfilled, FillBuy, FillSell, ledgerVars
  <2>3. QED  BY <2>1, <2>2, WriteKeepsRows
<1>4. ASSUME NEW p \in Procs, StoreNav(p)
      PROVE  RowsStay
  BY <1>4 DEF StoreNav, InsertNav
<1>5. ASSUME NEW p \in Procs, Finish(p)
      PROVE  RowsStay
  BY <1>5, AbsentAssumption DEF Finish, CompleteSession, BooksTypeOK, Session
<1>6. QED
  BY <1>1, <1>2, <1>3, <1>4, <1>5
  DEF Next, Step, vars, ledgerVars, OpenAccount, EnsureAccount, Submit, Validate,
      RefuseOvertaken, RefuseSession, RaiseInTrade, ReadCash, ReadLots, RaiseUnpriced,
      ComputeNav, KeepNav, RefuseNav, RaiseSecondNav, Crash

(* IdsKnown in the next state, of a plan named in this one. *)
IdsKnownAfter(plan) == \A k \in 1..Len(plan.orders) : orders'[plan.orders[k].id] # Absent

LEMMA IdsStayKnown ==
  ASSUME RowsStay, NEW plan \in Plans, IdsKnown(plan)
  PROVE  IdsKnownAfter(plan)
<1>1. ASSUME NEW k \in 1..Len(plan.orders)
      PROVE  orders'[plan.orders[k].id] # Absent
  <2>1. plan.orders[k].id \in OrderIds
    <3>1. k \in Nat /\ 1 <= k /\ k <= Len(plan.orders)
      BY PlansAssumption
    <3>2. QED  BY <3>1, JobOrder DEF Order
  <2>2. QED  BY <2>1 DEF RowsStay, IdsKnown
<1>2. QED  BY <1>1 DEF IdsKnownAfter

(* Only opening and closing a session touch the sessions table. *)
LEMMA SessionsChange ==
  ASSUME [Next]_vars
  PROVE  UNCHANGED sessions \/ \E p \in Procs : Begin(p) \/ Finish(p)
BY DEF Next, Step, vars, ledgerVars, OpenAccount, EnsureAccount, Submit, Validate,
       RefuseOvertaken, RefuseSession, Trade, ExecuteOrder, AnswerDuplicate,
       RecordUnfilled, FillBuy, FillSell, RaiseInTrade, ReadCash, ReadLots,
       RaiseUnpriced, ComputeNav, KeepNav, RefuseNav, StoreNav, InsertNav,
       RaiseSecondNav, Crash

LEMMA OrdersChange ==
  ASSUME [Next]_vars
  PROVE  \/ UNCHANGED orders
         \/ \E p \in Procs, status \in {"FILLED", "UNFILLED"} :
              Trade(p) /\ Write(job[p], NextOrder(p), status) /\ UNCHANGED sessions
<1>1. ASSUME NEW p \in Procs, Trade(p)
      PROVE  \/ UNCHANGED orders
             \/ \E status \in {"FILLED", "UNFILLED"} :
                  Write(job[p], NextOrder(p), status) /\ UNCHANGED sessions
  BY <1>1
  DEF Trade, ExecuteOrder, AnswerDuplicate, RecordUnfilled, FillBuy, FillSell, ledgerVars
<1>2. CASE ~\E p \in Procs : Trade(p)
  <2>1. UNCHANGED orders
    BY <1>2
    DEF Next, Step, vars, ledgerVars, OpenAccount, EnsureAccount, Submit, Validate,
        RefuseOvertaken, Begin, BeginSession, RefuseSession, RaiseInTrade, ReadCash,
        ReadLots, RaiseUnpriced, ComputeNav, KeepNav, RefuseNav, StoreNav, InsertNav,
        RaiseSecondNav, Finish, CompleteSession, Crash
  <2>2. QED  BY <2>1
<1>3. QED  BY <1>1, <1>2

LEMMA SessionsDatedStep ==
  ASSUME CoreInv, SettlementInv, [Next]_vars
  PROVE  SessionsDated' /\ OneSessionPerRun'
<1> USE DEF CoreInv, CoreTypeOK, SettlementInv
<1>1. CASE UNCHANGED sessions
  BY <1>1 DEF SessionsDated, OneSessionPerRun
<1>2. ASSUME NEW p \in Procs, Begin(p)
      PROVE  SessionsDated' /\ OneSessionPerRun'
  <2>1. job[p] \in Plans /\ job[p].date \in Dates
    BY <1>2, PlansAssumption DEF Begin, ProcsTypeOK
  <2>2. CASE sessions' = sessions
    BY <2>2, <1>1
  <2>3. CASE sessions' # sessions
    <3>1. /\ sessions[job[p].date] = Absent
          /\ sessions' = [sessions EXCEPT ![job[p].date] =
                             [plan |-> job[p], status |-> "STARTED"]]
          /\ \A d \in Dates : sessions[d] # Absent => sessions[d].plan.run # job[p].run
      BY <1>2, <2>3 DEF Begin, BeginSession, SessionRefused
    <3>2. QED
      BY <2>1, <3>1, AbsentAssumption DEF SessionsDated, OneSessionPerRun, BooksTypeOK
  <2>4. QED  BY <2>2, <2>3
<1>3. ASSUME NEW p \in Procs, Finish(p)
      PROVE  SessionsDated' /\ OneSessionPerRun'
  <2>1. \A d \in Dates : /\ sessions'[d] # Absent => sessions[d] # Absent
                         /\ sessions[d] # Absent => sessions'[d].plan = sessions[d].plan
    BY <1>3 DEF Finish, CompleteSession, BooksTypeOK, Session
  <2>2. QED  BY <2>1 DEF SessionsDated, OneSessionPerRun
<1>4. QED  BY <1>1, <1>2, <1>3, SessionsChange

LEMMA OnePlanStep ==
  ASSUME CoreInv, SettlementInv, [Next]_vars
  PROVE  OnePlanPerDay'
<1> USE DEF CoreInv, CoreTypeOK, SettlementInv
<1>1. RowsStay
  BY StepKeepsRows
<1>2. CASE UNCHANGED orders
  <2>1. ASSUME NEW id \in OrderIds, orders[id] # Absent
        PROVE  /\ sessions'[orders[id].plan.date] # Absent
               /\ sessions'[orders[id].plan.date].plan = orders[id].plan
    <3>1. orders[id].plan.date \in Dates
      BY <2>1, PlansAssumption DEF BooksTypeOK, OrderRow
    <3>2. QED  BY <1>1, <2>1, <3>1 DEF RowsStay, OnePlanPerDay
  <2>2. QED  BY <1>2, <2>1 DEF OnePlanPerDay
<1>3. ASSUME NEW p \in Procs, NEW status \in {"FILLED", "UNFILLED"},
             Trade(p), Write(job[p], NextOrder(p), status), UNCHANGED sessions
      PROVE  OnePlanPerDay'
  <2>1. ASSUME NEW id \in OrderIds, orders'[id] # Absent
        PROVE  /\ sessions[orders'[id].plan.date] # Absent
               /\ sessions[orders'[id].plan.date].plan = orders'[id].plan
    <3>1. CASE orders'[id] = orders[id]
      BY <2>1, <3>1 DEF OnePlanPerDay
    <3>2. CASE orders'[id] # orders[id]
      <4>1. orders'[id].plan = job[p]
        BY <1>3, <3>2 DEF Write, BooksTypeOK
      <4>2. pc[p] \in Working
        BY <1>3 DEF Trade, Working
      <4>3. QED  BY <4>1, <4>2 DEF WorkerOwns
    <3>3. QED  BY <3>1, <3>2
  <2>2. QED  BY <1>3, <2>1 DEF OnePlanPerDay
<1>4. QED  BY <1>2, <1>3, OrdersChange

(* How a step moves one process q: it stays where it is, leaves, or takes one of *)
(* the transitions between stages.                                               *)
Moves(q) ==
  \/ UNCHANGED <<pc[q], job[q], cursor[q], draft[q]>>
  \/ pc'[q] = "idle" /\ cursor'[q] = 1
  \/ pc[q] = "idle" /\ pc'[q] = "validating" /\ cursor'[q] = cursor[q]
  \/ /\ pc[q] = "validating" /\ pc'[q] = "opening"
     /\ UNCHANGED <<job[q], cursor[q]>>
  \/ /\ pc[q] = "opening" /\ pc'[q] = "trading" /\ Begin(q)
     /\ UNCHANGED <<job[q], cursor[q]>>
  \/ /\ pc[q] = "trading" /\ pc'[q] = "trading" /\ Trade(q)
     /\ cursor'[q] = cursor[q] + 1 /\ UNCHANGED job[q]
  \/ /\ pc[q] = "trading" /\ pc'[q] = "pricing" /\ cursor[q] > Len(job[q].orders)
     /\ UNCHANGED <<job[q], cursor[q]>>
  \/ /\ pc[q] = "pricing" /\ pc'[q] = "recording"
     /\ UNCHANGED <<job[q], cursor[q]>>
  \/ /\ pc[q] = "recording" /\ pc'[q] = "inserting"
     /\ draft'[q].date = job[q].date
     /\ UNCHANGED <<job[q], cursor[q]>>
  \/ /\ pc[q] = "recording" /\ pc'[q] = "closing" /\ KeepNav(q)
     /\ UNCHANGED <<job[q], cursor[q]>>
  \/ /\ pc[q] = "inserting" /\ pc'[q] = "closing" /\ StoreNav(q)
     /\ UNCHANGED <<job[q], cursor[q]>>

LEMMA StepMoves ==
  ASSUME CoreInv, [Next]_vars, NEW q \in Procs
  PROVE  Moves(q)
<1> USE DEF CoreInv, CoreTypeOK, ProcsTypeOK, Moves
<1>1. CASE UNCHANGED <<pc, job, cursor, draft>>
  BY <1>1
<1>2. ASSUME NEW p \in Procs, Leave(p)
      PROVE  Moves(q)
  BY <1>2 DEF Leave
<1>3. ASSUME NEW p \in Procs, NEW plan \in Plans, Submit(p, plan)
      PROVE  Moves(q)
  BY <1>3 DEF Submit, Goto
<1>4. ASSUME NEW p \in Procs, Validate(p)
      PROVE  Moves(q)
  BY <1>4 DEF Validate, Goto
<1>5. ASSUME NEW p \in Procs, Begin(p)
      PROVE  Moves(q)
  <2>1. /\ pc[p] = "opening" /\ pc' = [pc EXCEPT ![p] = "trading"]
        /\ UNCHANGED <<job, cursor, draft>>
    BY <1>5 DEF Begin, Goto
  <2>2. QED  BY <1>5, <2>1
<1>6. ASSUME NEW p \in Procs, Trade(p)
      PROVE  Moves(q)
  <2>1. /\ pc[p] = "trading" /\ UNCHANGED <<pc, job, draft>>
        /\ cursor' = [cursor EXCEPT ![p] = cursor[p] + 1]
    BY <1>6 DEF Trade
  <2>2. QED  BY <1>6, <2>1
<1>7. ASSUME NEW p \in Procs, ReadCash(p)
      PROVE  Moves(q)
  <2>1. /\ pc[p] = "trading" /\ pc' = [pc EXCEPT ![p] = "pricing"]
        /\ cursor[p] > Len(job[p].orders) /\ UNCHANGED <<job, cursor>>
        /\ p # q => draft'[q] = draft[q]
    BY <1>7 DEF ReadCash, Goto
  <2>2. QED  BY <2>1
<1>8. ASSUME NEW p \in Procs, ReadLots(p)
      PROVE  Moves(q)
  <2>1. /\ pc[p] = "pricing" /\ pc' = [pc EXCEPT ![p] = "recording"]
        /\ UNCHANGED <<job, cursor>>
        /\ p # q => draft'[q] = draft[q]
    BY <1>8 DEF ReadLots, Goto
  <2>2. QED  BY <2>1
<1>9. ASSUME NEW p \in Procs, ComputeNav(p)
      PROVE  Moves(q)
  <2> DEFINE row == NavFor(job[p].date, draft[p].cash, draft[p].market)
  <2>1. row.date = job[p].date
    BY DEF NavFor
  <2>2. /\ pc[p] = "recording" /\ pc' = [pc EXCEPT ![p] = "inserting"]
        /\ UNCHANGED <<job, cursor>>
        /\ draft' = [draft EXCEPT ![p] = row]
    BY <1>9 DEF ComputeNav, Goto
  <2> HIDE DEF row
  <2>3. QED  BY <2>1, <2>2
<1>10. ASSUME NEW p \in Procs, KeepNav(p)
      PROVE  Moves(q)
  <2>1. /\ pc[p] = "recording" /\ pc' = [pc EXCEPT ![p] = "closing"]
        /\ UNCHANGED <<job, cursor, draft>>
    BY <1>10 DEF KeepNav, Goto
  <2>2. QED  BY <1>10, <2>1
<1>11. ASSUME NEW p \in Procs, StoreNav(p)
      PROVE  Moves(q)
  <2>1. /\ pc[p] = "inserting" /\ pc' = [pc EXCEPT ![p] = "closing"]
        /\ UNCHANGED <<job, cursor, draft>>
    BY <1>11 DEF StoreNav, Goto
  <2>2. QED  BY <1>11, <2>1
<1>12. QED
  BY <1>1, <1>2, <1>3, <1>4, <1>5, <1>6, <1>7, <1>8, <1>9, <1>10, <1>11
  DEF Next, Step, vars, procVars, OpenAccount, RefuseOvertaken, RefuseSession,
      RaiseInTrade, RaiseUnpriced, RefuseNav, RaiseSecondNav, Finish, Crash

LEMMA WorkersStep ==
  ASSUME CoreInv, SettlementInv, [Next]_vars
  PROVE  WorkerOwns' /\ WorkerProgress'
<1> USE DEF CoreInv, CoreTypeOK, SettlementInv
<1>1. RowsStay
  BY StepKeepsRows
<1> SUFFICES ASSUME NEW q \in Procs
             PROVE  /\ pc'[q] \in Working =>
                         /\ sessions'[job'[q].date] # Absent
                         /\ sessions'[job'[q].date].plan = job'[q]
                    /\ pc'[q] \notin Working => cursor'[q] = 1
                    /\ pc'[q] = "trading" =>
                         \A k \in 1..Len(job'[q].orders) :
                           k < cursor'[q] => orders'[job'[q].orders[k].id] # Absent
                    /\ pc'[q] = "inserting" => draft'[q].date = job'[q].date
                    /\ pc'[q] \in {"pricing", "recording", "inserting", "closing"} =>
                         \A k \in 1..Len(job'[q].orders) :
                           orders'[job'[q].orders[k].id] # Absent
                    /\ pc'[q] = "closing" => job'[q].date \in Days'
  BY DEF WorkerOwns, WorkerProgress, IdsKnown
<1>2. Moves(q)
  BY StepMoves
<1>3. pc[q] # "idle" => job[q] \in Plans /\ job[q].date \in Dates
  BY PlansAssumption DEF ProcsTypeOK
<1>4. ASSUME pc[q] # "idle", NEW k \in 1..Len(job[q].orders)
      PROVE  /\ job[q].orders[k].id \in OrderIds
             /\ orders[job[q].orders[k].id] # Absent =>
                  orders'[job[q].orders[k].id] # Absent
  <2>1. k \in Nat /\ 1 <= k /\ k <= Len(job[q].orders)
    BY <1>3, <1>4, PlansAssumption
  <2>2. job[q].orders[k].id \in OrderIds
    BY <1>3, <1>4, <2>1, JobOrder DEF Order
  <2>3. QED  BY <1>1, <2>2 DEF RowsStay
<1>5. CASE UNCHANGED <<pc[q], job[q], cursor[q], draft[q]>>
  BY <1>1, <1>3, <1>4, <1>5 DEF RowsStay, WorkerOwns, WorkerProgress, IdsKnown, Working
<1>6. CASE pc'[q] \in {"idle", "validating", "opening"} /\ cursor'[q] = 1
  BY <1>6 DEF Working
<1>7. CASE /\ pc[q] = "opening" /\ pc'[q] = "trading" /\ Begin(q)
           /\ UNCHANGED <<job[q], cursor[q]>>
  <2>1. sessions'[job[q].date] # Absent /\ sessions'[job[q].date].plan = job[q]
    BY <1>3, <1>7, AbsentAssumption
    DEF Begin, BeginSession, SessionRefused, BooksTypeOK, Session
  <2>2. cursor'[q] = 1
    BY <1>7 DEF WorkerProgress, Working
  <2>3. QED  BY <1>7, <2>1, <2>2 DEF Working
<1>8. CASE /\ pc[q] = "trading" /\ pc'[q] = "trading" /\ Trade(q)
           /\ cursor'[q] = cursor[q] + 1 /\ UNCHANGED job[q]
  <2>1. sessions'[job[q].date] # Absent /\ sessions'[job[q].date].plan = job[q]
    BY <1>1, <1>3, <1>8 DEF RowsStay, WorkerOwns, Working
  <2>2. orders'[NextOrder(q).id] # Absent
    <3>1. NextOrder(q).id \in OrderIds
      BY <1>4, <1>8 DEF Trade, NextOrder, ProcsTypeOK
    <3>2. CASE Recorded(NextOrder(q))
      BY <1>1, <3>1, <3>2 DEF RowsStay, Recorded
    <3>3. CASE ~Recorded(NextOrder(q))
      <4>1. PICK status \in {"FILLED", "UNFILLED"} : Write(job[q], NextOrder(q), status)
        BY <1>8, <3>3
        DEF Trade, ExecuteOrder, AnswerDuplicate, RecordUnfilled, FillBuy, FillSell
      <4>2. orders'[NextOrder(q).id] =
              [plan |-> job[q], order |-> NextOrder(q), status |-> status]
        BY <3>1, <4>1 DEF Write, BooksTypeOK
      <4>3. NextOrder(q) \in Order
        BY <1>3, <1>8, JobOrder DEF Trade, NextOrder, ProcsTypeOK
      <4>4. [plan |-> job[q], order |-> NextOrder(q), status |-> status] \in OrderRow
        BY <1>3, <1>8, <4>3 DEF OrderRow
      <4>5. QED  BY <4>2, <4>4, AbsentAssumption
    <3>4. QED  BY <3>2, <3>3
  <2>3. ASSUME NEW k \in 1..Len(job[q].orders), k < cursor[q] + 1
        PROVE  orders'[job[q].orders[k].id] # Absent
    <3>1. CASE k < cursor[q]
      BY <1>4, <1>8, <2>3, <3>1 DEF WorkerProgress
    <3>2. CASE k = cursor[q]
      BY <2>2, <3>2 DEF NextOrder
    <3>3. QED
      BY <2>3, <3>1, <3>2 DEF ProcsTypeOK
  <2>4. QED  BY <1>8, <2>1, <2>3 DEF Working
<1>9. CASE /\ pc[q] = "trading" /\ pc'[q] = "pricing" /\ cursor[q] > Len(job[q].orders)
           /\ UNCHANGED <<job[q], cursor[q]>>
  <2>1. sessions'[job[q].date] # Absent /\ sessions'[job[q].date].plan = job[q]
    BY <1>1, <1>3, <1>9 DEF RowsStay, WorkerOwns, Working
  <2>2. ASSUME NEW k \in 1..Len(job[q].orders)
        PROVE  orders'[job[q].orders[k].id] # Absent
    <3>1. k < cursor[q]
      BY <1>3, <1>9, PlansAssumption DEF ProcsTypeOK
    <3>2. QED  BY <1>4, <1>9, <3>1 DEF WorkerProgress
  <2>3. QED  BY <1>9, <2>1, <2>2 DEF Working
<1>10. CASE /\ pc[q] = "pricing" /\ pc'[q] = "recording"
            /\ UNCHANGED <<job[q], cursor[q]>>
  BY <1>1, <1>3, <1>4, <1>10 DEF RowsStay, WorkerOwns, WorkerProgress, IdsKnown, Working
<1>11. CASE /\ pc[q] = "recording" /\ pc'[q] = "inserting"
            /\ draft'[q].date = job[q].date
            /\ UNCHANGED <<job[q], cursor[q]>>
  BY <1>1, <1>3, <1>4, <1>11 DEF RowsStay, WorkerOwns, WorkerProgress, IdsKnown, Working
<1>12. CASE /\ pc[q] = "recording" /\ pc'[q] = "closing" /\ KeepNav(q)
            /\ UNCHANGED <<job[q], cursor[q]>>
  <2>1. job[q].date \in Days
    BY <1>12 DEF KeepNav, NavKept, NavFor, Days
  <2>2. job[q].date \in Days'
    BY <1>1, <2>1 DEF RowsStay
  <2>3. QED
    BY <1>1, <1>3, <1>4, <1>12, <2>2
    DEF RowsStay, WorkerOwns, WorkerProgress, IdsKnown, Working
<1>13. CASE /\ pc[q] = "inserting" /\ pc'[q] = "closing" /\ StoreNav(q)
            /\ UNCHANGED <<job[q], cursor[q]>>
  <2>1. job[q].date \in Days'
    BY <1>13 DEF StoreNav, InsertNav, Days, WorkerProgress
  <2>2. QED
    BY <1>1, <1>3, <1>4, <1>13, <2>1
    DEF RowsStay, WorkerOwns, WorkerProgress, IdsKnown, Working
<1>14. QED
  BY <1>2, <1>5, <1>6, <1>7, <1>8, <1>9, <1>10, <1>11, <1>12, <1>13
  DEF Moves, WorkerProgress, Working

LEMMA CompletedStep ==
  ASSUME CoreInv, SettlementInv, [Next]_vars
  PROVE  CompletedIsSettled'
<1> USE DEF CoreInv, CoreTypeOK, SettlementInv
<1>1. RowsStay
  BY StepKeepsRows
<1> SUFFICES ASSUME NEW d \in Dates, sessions'[d] # Absent, sessions'[d].status = "COMPLETED"
             PROVE  IdsKnownAfter(sessions'[d].plan) /\ d \in Days'
  BY DEF CompletedIsSettled, IdsKnown, IdsKnownAfter
<1>2. CASE /\ sessions[d] # Absent /\ sessions[d].status = "COMPLETED"
           /\ sessions'[d].plan = sessions[d].plan
  <2>1. sessions[d].plan \in Plans /\ IdsKnown(sessions[d].plan) /\ d \in Days
    BY <1>2 DEF CompletedIsSettled, BooksTypeOK, Session
  <2>2. IdsKnownAfter(sessions[d].plan)
    BY <1>1, <2>1, IdsStayKnown
  <2>3. QED  BY <1>1, <1>2, <2>1, <2>2 DEF RowsStay
<1>3. CASE UNCHANGED sessions
  BY <1>2, <1>3
<1>4. ASSUME NEW p \in Procs, Begin(p)
      PROVE  IdsKnownAfter(sessions'[d].plan) /\ d \in Days'
  <2>1. sessions[d] = sessions'[d]
    BY <1>4, PlansAssumption DEF Begin, BeginSession, BooksTypeOK, ProcsTypeOK
  <2>2. QED  BY <1>2, <2>1
<1>5. ASSUME NEW p \in Procs, Finish(p)
      PROVE  IdsKnownAfter(sessions'[d].plan) /\ d \in Days'
  <2>1. CASE d = job[p].date
    <3>1. /\ sessions[d] # Absent /\ sessions[d].plan = job[p]
          /\ sessions'[d].plan = job[p]
      BY <1>5, <2>1 DEF Finish, CompleteSession, BooksTypeOK, Session
    <3>2. job[p] \in Plans /\ IdsKnown(job[p]) /\ d \in Days
      BY <1>5, <2>1 DEF Finish, ProcsTypeOK, WorkerProgress
    <3>3. IdsKnownAfter(job[p])
      BY <1>1, <3>2, IdsStayKnown
    <3>4. QED  BY <1>1, <3>1, <3>2, <3>3 DEF RowsStay
  <2>2. CASE d # job[p].date
    <3>1. sessions'[d] = sessions[d]
      BY <1>5, <2>2 DEF Finish, CompleteSession, BooksTypeOK
    <3>2. QED  BY <1>2, <3>1
  <2>3. QED  BY <2>1, <2>2
<1>6. QED  BY <1>3, <1>4, <1>5, SessionsChange

LEMMA SettlementInvariant == Spec => []SettlementInv
<1>1. Init => SettlementInv
  BY DEF Init, LedgerInit, SettlementInv, OnePlanPerDay, SessionsDated, OneSessionPerRun,
         WorkerOwns, WorkerProgress, CompletedIsSettled, Working
<1>2. CoreInv /\ SettlementInv /\ [Next]_vars => SettlementInv'
  BY SessionsDatedStep, OnePlanStep, WorkersStep, CompletedStep DEF SettlementInv
<1>3. QED  BY <1>1, <1>2, CoreTypeCorrect, PTL DEF Spec

(* No trade date is ever worked by two plans, however many processes compete for *)
(* it and wherever they die (begin_execution_session against execute_order).     *)
THEOREM OnePlanPerDayHolds == Spec => []OnePlanPerDay
<1>1. SettlementInv => OnePlanPerDay
  BY DEF SettlementInv
<1>2. QED  BY <1>1, SettlementInvariant, PTL
-----------------------------------------------------------------------------
(* The refinement: the abstract state the four variables are mapped to.        *)
Owner == [d \in Dates |-> IF sessions[d] = Absent THEN Absent ELSE sessions[d].plan]
Applied == {id \in OrderIds : orders[id] # Absent}
Closed == {d \in Dates : sessions[d] # Absent /\ sessions[d].status = "COMPLETED"}

AbstractStep ==
  \/ Settles!SettlementNext
  \/ UNCHANGED <<Owner, Applied, Days, Closed>>

LEMMA IdsOfPlan ==
  ASSUME NEW plan \in Plans
  PROVE  /\ \A k \in 1..Len(plan.orders) : plan.orders[k].id \in Settles!IdsOf(plan)
         /\ IdsKnown(plan) <=> Settles!IdsOf(plan) \subseteq Applied
<1>1. DOMAIN plan.orders = 1..Len(plan.orders)
  BY PlansAssumption
<1>2. \A k \in 1..Len(plan.orders) : plan.orders[k].id \in OrderIds
  <2>1. ASSUME NEW k \in 1..Len(plan.orders)
        PROVE  plan.orders[k].id \in OrderIds
    <3>1. k \in Nat /\ 1 <= k /\ k <= Len(plan.orders)
      BY PlansAssumption
    <3>2. QED  BY <3>1, JobOrder DEF Order
  <2>2. QED  BY <2>1
<1>3. QED  BY <1>1, <1>2 DEF Settles!IdsOf, IdsKnown, Applied

(* A session row names its plan, so an owned date is one with a session. *)
LEMMA OwnedDates ==
  ASSUME BooksTypeOK, NEW d \in Dates
  PROVE  /\ Owner[d] = Absent <=> sessions[d] = Absent
         /\ sessions[d] # Absent => Owner[d] = sessions[d].plan
BY AbsentAssumption DEF Owner, BooksTypeOK, Session

(* begin_execution_session opens the date, or finds it opened for this plan. *)
LEMMA BeginOpens ==
  ASSUME CoreInv, SettlementInv, NEW p \in Procs, Begin(p)
  PROVE  AbstractStep
<1> USE DEF CoreInv, CoreTypeOK
<1>1. PICK plan \in Plans : plan = job[p] /\ plan.date \in Dates
  BY PlansAssumption DEF Begin, ProcsTypeOK
<1>2. UNCHANGED <<Applied, Days>>
  BY DEF Begin, BeginSession, Applied, Days
<1>3. CASE sessions' = sessions
  BY <1>2, <1>3 DEF AbstractStep, Owner, Closed
<1>4. CASE sessions' # sessions
  <2>1. /\ sessions[plan.date] = Absent
        /\ sessions' = [sessions EXCEPT ![plan.date] = [plan |-> plan, status |-> "STARTED"]]
        /\ \A d \in Dates : sessions[d] # Absent => sessions[d].plan.run # plan.run
    BY <1>1, <1>4 DEF Begin, BeginSession, SessionRefused
  <2>2. Owner[plan.date] = Absent
    BY <1>1, <2>1, OwnedDates
  <2>3. \A d \in Dates : Owner[d] # Absent => Owner[d].run # plan.run
    BY <2>1, OwnedDates
  <2>4. [plan |-> plan, status |-> "STARTED"] # Absent
    BY <1>1, AbsentAssumption DEF Session
  <2>5. Owner' = [Owner EXCEPT ![plan.date] = plan]
    BY <1>1, <2>1, <2>4 DEF Owner, BooksTypeOK
  <2>6. Closed' = Closed
    BY <1>1, <2>1, <2>4 DEF Closed, BooksTypeOK
  <2>7. Settles!Open(plan)
    BY <1>2, <2>2, <2>3, <2>5, <2>6 DEF Settles!Open, Owner, Applied, Days, Closed
  <2>8. QED  BY <1>1, <2>7 DEF AbstractStep, Settles!SettlementNext
<1>5. QED  BY <1>3, <1>4

(* execute_order applies an order its plan still lacks: the date is not closed. *)
LEMMA TradeApplies ==
  ASSUME CoreInv, SettlementInv, NEW p \in Procs, Trade(p)
  PROVE  AbstractStep
<1> USE DEF CoreInv, CoreTypeOK, SettlementInv
<1> DEFINE o == NextOrder(p)
<1>1. PICK plan \in Plans : plan = job[p] /\ plan.date \in Dates
  BY PlansAssumption DEF Trade, ProcsTypeOK
<1>2. UNCHANGED <<sessions, nav>>
  BY DEF Trade, ExecuteOrder, AnswerDuplicate, RecordUnfilled, FillBuy, FillSell, ledgerVars
<1>3. UNCHANGED <<Owner, Days, Closed>>
  BY <1>2 DEF Owner, Days, Closed
<1>4. CASE orders' = orders
  BY <1>3, <1>4 DEF AbstractStep, Applied
<1>5. CASE orders' # orders
  <2>1. PICK status \in {"FILLED", "UNFILLED"} :
          ~Recorded(o) /\ Write(plan, o, status)
    BY <1>1, <1>5
    DEF Trade, ExecuteOrder, AnswerDuplicate, RecordUnfilled, FillBuy, FillSell, ledgerVars
  <2>2. /\ o \in Order
        /\ o.id \in OrderIds
        /\ o.id \in Settles!IdsOf(plan)
    <3>1. cursor[p] \in Nat /\ 1 <= cursor[p] /\ cursor[p] <= Len(plan.orders)
      BY <1>1 DEF Trade, ProcsTypeOK
    <3>2. o \in Order /\ o.id \in OrderIds
      BY <1>1, <3>1, JobOrder DEF NextOrder, Order
    <3>3. cursor[p] \in 1..Len(plan.orders)
      BY <1>1, <3>1, PlansAssumption
    <3>4. QED  BY <1>1, <3>2, <3>3, IdsOfPlan DEF NextOrder
  <2>3. [plan |-> plan, order |-> o, status |-> status] # Absent
    BY <1>1, <2>2, AbsentAssumption DEF OrderRow
  <2>4. o.id \notin Applied /\ Applied' = Applied \cup {o.id}
    BY <2>1, <2>2, <2>3 DEF Applied, Write, Recorded, BooksTypeOK
  <2>5. sessions[plan.date] # Absent /\ sessions[plan.date].plan = plan
    BY <1>1 DEF Trade, WorkerOwns, Working
  <2>6. Owner[plan.date] = plan
    BY <1>1, <2>5, OwnedDates
  <2>7. plan.date \notin Closed
    BY <1>1, <2>2, <2>4, <2>5, IdsOfPlan DEF Closed, CompletedIsSettled
  <2>8. PICK id \in OrderIds : id = o.id
    BY <2>2
  <2>9. Settles!Apply(plan, id)
    BY <1>3, <2>2, <2>4, <2>6, <2>7, <2>8 DEF Settles!Apply, Owner, Applied, Days, Closed
  <2>10. QED  BY <2>8, <2>9 DEF AbstractStep, Settles!SettlementNext
<1>6. QED  BY <1>4, <1>5

(* record_nav stores the NAV of a date all of whose orders took effect. *)
LEMMA StoreNavValues ==
  ASSUME CoreInv, SettlementInv, NEW p \in Procs, StoreNav(p)
  PROVE  AbstractStep
<1> USE DEF CoreInv, CoreTypeOK, SettlementInv
<1>1. PICK plan \in Plans : plan = job[p] /\ plan.date \in Dates
  BY PlansAssumption DEF StoreNav, ProcsTypeOK
<1>2. UNCHANGED <<Owner, Applied, Closed>>
  BY DEF StoreNav, InsertNav, Owner, Applied, Closed
<1>3. draft[p].date = plan.date
  BY <1>1 DEF StoreNav, WorkerProgress
<1>4. plan.date \notin Days /\ Days' = Days \cup {plan.date}
  BY <1>3 DEF StoreNav, InsertNav, Days
<1>5. Owner[plan.date] = plan
  BY <1>1, OwnedDates DEF StoreNav, WorkerOwns, Working
<1>6. Settles!IdsOf(plan) \subseteq Applied
  BY <1>1, IdsOfPlan DEF StoreNav, WorkerProgress
<1>7. Settles!Value(plan)
  BY <1>2, <1>4, <1>5, <1>6 DEF Settles!Value, Owner, Applied, Days, Closed
<1>8. QED  BY <1>1, <1>7 DEF AbstractStep, Settles!SettlementNext

(* complete_execution_session closes the date, or closes it again. *)
LEMMA FinishCloses ==
  ASSUME CoreInv, SettlementInv, NEW p \in Procs, Finish(p)
  PROVE  AbstractStep
<1> USE DEF CoreInv, CoreTypeOK, SettlementInv
<1>1. PICK plan \in Plans : plan = job[p] /\ plan.date \in Dates
  BY PlansAssumption DEF Finish, ProcsTypeOK
<1>2. UNCHANGED <<Applied, Days>>
  BY DEF Finish, CompleteSession, Applied, Days
<1>3. /\ sessions[plan.date] # Absent /\ sessions[plan.date].plan = plan
      /\ sessions[plan.date] \in Session
  BY <1>1 DEF Finish, CompleteSession, BooksTypeOK
<1>4. /\ \A d \in Dates \ {plan.date} : sessions'[d] = sessions[d]
      /\ sessions'[plan.date] = [plan |-> plan, status |-> "COMPLETED"]
  BY <1>1, <1>3 DEF Finish, CompleteSession, BooksTypeOK, Session
<1>5. sessions'[plan.date] # Absent
  BY <1>1, <1>4, AbsentAssumption DEF Session
<1>6. Owner' = Owner
  BY <1>3, <1>4, <1>5 DEF Owner
<1>7. Closed' = Closed \cup {plan.date}
  BY <1>1, <1>4, <1>5 DEF Closed
<1>8. Owner[plan.date] = plan
  BY <1>1, <1>3, OwnedDates
<1>9. plan.date \in Days
  BY <1>1 DEF Finish, WorkerProgress
<1>10. CASE plan.date \in Closed
  BY <1>2, <1>6, <1>7, <1>10 DEF AbstractStep
<1>11. CASE plan.date \notin Closed
  <2>1. Settles!Close(plan)
    BY <1>2, <1>6, <1>7, <1>8, <1>9, <1>11 DEF Settles!Close, Owner, Applied, Days, Closed
  <2>2. QED  BY <1>1, <2>1 DEF AbstractStep, Settles!SettlementNext
<1>12. QED  BY <1>10, <1>11

(* The ledger and its executor keep the promise the workflow relies on, for any *)
(* number of processes, plans, dates and deaths.                                *)
THEOREM SettlesDailyHolds == Spec => SettlesDaily
<1>1. Init => Settles!SettlementInit
  BY DEF Init, LedgerInit, Settles!SettlementInit, Days
<1>2. CoreInv /\ SettlementInv /\ [Next]_vars
        => [Settles!SettlementNext]_(Settles!settlementVars)
  <2> SUFFICES ASSUME CoreInv, SettlementInv, [Next]_vars
               PROVE  AbstractStep
    BY DEF AbstractStep, Settles!settlementVars, Owner, Applied, Closed
  <2>1. CASE UNCHANGED <<sessions, orders, nav>>
    BY <2>1 DEF AbstractStep, Owner, Applied, Days, Closed
  <2>2. CASE \E p \in Procs : Begin(p) \/ Trade(p) \/ StoreNav(p) \/ Finish(p)
    BY <2>2, BeginOpens, TradeApplies, StoreNavValues, FinishCloses
  <2>3. QED
    BY <2>1, <2>2
    DEF Next, Step, vars, ledgerVars, OpenAccount, EnsureAccount, Submit, Validate,
        RefuseOvertaken, RefuseSession, RaiseInTrade, ReadCash, ReadLots, RaiseUnpriced,
        ComputeNav, KeepNav, RefuseNav, RaiseSecondNav, Crash
<1>3. QED
  BY <1>1, <1>2, CoreTypeCorrect, SettlementInvariant, PTL
  DEF Spec, SettlesDaily, Settles!Settlement
-----------------------------------------------------------------------------
(* The books: what the lots of a symbol acquired on the dates of D once held, and *)
(* what sales drew from them, against the filled orders.                          *)
LotsOf(s, D) == {i \in DOMAIN lots : lots[i].symbol = s /\ lots[i].acquired \in D}
Volumes == [i \in DOMAIN lots |-> lots[i].volume]
Draws == [i \in DOMAIN lots |-> lots[i].volume - lots[i].remaining]
Bought(s, D) == Sigma(Volumes, LotsOf(s, D))
Drawn(s, D) == Sigma(Draws, LotsOf(s, D))

OrdersOf(s, side, D) ==
  {id \in FilledOrders : /\ orders[id].order.symbol = s
                         /\ orders[id].order.side = side
                         /\ orders[id].plan.date \in D}
Shares == [id \in FilledOrders |-> orders[id].order.volume]

BooksInv ==
  /\ IsFiniteSet(FilledOrders)
  /\ cash = Absent => FilledOrders = {}
  /\ cash # Absent => cash = InitialCash + Sigma(CashMoved, FilledOrders)
  /\ \A s \in Symbols, D \in SUBSET Nat :
       Bought(s, D) = SeededShares(s, D) + FilledShares(s, "BUY", D)
  /\ \A s \in Symbols : Drawn(s, Nat) = FilledShares(s, "SELL", Nat)
  /\ \A s \in Symbols, d \in Nat : FilledShares(s, "SELL", 1..d) <= Drawn(s, 0..(d - 1))

LEMMA FilledIs ==
  ASSUME NEW s, NEW side, NEW D
  PROVE  /\ FilledShares(s, side, D) = Sigma(Shares, OrdersOf(s, side, D))
         /\ FilledShares(s, side, D)' = Sigma(Shares', OrdersOf(s, side, D)')
BY DEF FilledShares, Shares, OrdersOf, Sigma

LEMMA FilledTypes ==
  ASSUME CoreInv, BooksInv
  PROVE  /\ \A id \in FilledOrders : Shares[id] \in Nat /\ CashMoved[id] \in Int
         /\ \A s, side, D : /\ IsFiniteSet(OrdersOf(s, side, D))
                            /\ FilledShares(s, side, D) \in Nat
<1>1. ASSUME NEW id \in FilledOrders
      PROVE  Shares[id] \in Nat /\ CashMoved[id] \in Int
  <2>1. orders[id].order \in Order
    BY DEF CoreInv, CoreTypeOK, BooksTypeOK, FilledOrders, OrderRow
  <2>2. orders[id].order.volume \in Nat
    BY <2>1 DEF Order
  <2>3. QED  BY <2>1, <2>2, FeeTypes DEF Shares, CashMoved
<1>2. ASSUME NEW s, NEW side, NEW D
      PROVE  IsFiniteSet(OrdersOf(s, side, D)) /\ FilledShares(s, side, D) \in Nat
  <2>1. OrdersOf(s, side, D) \subseteq FilledOrders
    BY DEF OrdersOf
  <2>2. IsFiniteSet(OrdersOf(s, side, D))
    BY <2>1, FS_Subset DEF BooksInv
  <2>3. QED  BY <1>1, <2>1, <2>2, FilledIs, SigmaNat
<1>3. QED  BY <1>1, <1>2

LEMMA LotTypes ==
  ASSUME CoreInv
  PROVE  /\ DOMAIN lots = 1..Len(lots) /\ Len(lots) \in Nat
         /\ \A i \in DOMAIN lots : lots[i] \in Lot /\ Volumes[i] \in Nat /\ Draws[i] \in Int
         /\ \A s, D : IsFiniteSet(LotsOf(s, D)) /\ LotsOf(s, D) \subseteq DOMAIN lots
         /\ \A s, D : Bought(s, D) \in Nat /\ Drawn(s, D) \in Int
<1>1. lots \in Seq(Lot)
  BY DEF CoreInv, CoreTypeOK, BooksTypeOK
<1>2. DOMAIN lots = 1..Len(lots) /\ Len(lots) \in Nat /\ IsFiniteSet(DOMAIN lots)
  BY <1>1, FS_Interval
<1>3. ASSUME NEW i \in DOMAIN lots
      PROVE  lots[i] \in Lot /\ Volumes[i] \in Nat /\ Draws[i] \in Int
  <2>1. lots[i] \in Lot
    BY <1>1
  <2>2. lots[i].volume \in Nat /\ lots[i].remaining \in Nat
    BY <2>1 DEF Lot
  <2>3. QED  BY <2>1, <2>2 DEF Volumes, Draws
<1>4. ASSUME NEW s, NEW D
      PROVE  /\ IsFiniteSet(LotsOf(s, D)) /\ LotsOf(s, D) \subseteq DOMAIN lots
             /\ Bought(s, D) \in Nat /\ Drawn(s, D) \in Int
  <2>1. LotsOf(s, D) \subseteq DOMAIN lots
    BY DEF LotsOf
  <2>2. IsFiniteSet(LotsOf(s, D))
    BY <1>2, <2>1, FS_Subset
  <2>3. QED  BY <1>3, <2>1, <2>2, SigmaNat, SigmaInt DEF Bought, Drawn
<1>5. QED  BY <1>2, <1>3, <1>4

(* A new row is the order's own, and it adds to the filled orders if it is FILLED. *)
Records(p, status) ==
  /\ Trade(p)
  /\ ~Recorded(NextOrder(p))
  /\ Write(job[p], NextOrder(p), status)

LEMMA RecordsOrder ==
  ASSUME CoreInv, NEW p \in Procs, NEW status \in {"FILLED", "UNFILLED"}, Records(p, status)
  PROVE  /\ NextOrder(p) \in Order /\ NextOrder(p).id \in OrderIds
         /\ job[p] \in Plans /\ job[p].date \in Dates /\ job[p].date \in Nat \ {0}
         /\ orders'[NextOrder(p).id] =
              [plan |-> job[p], order |-> NextOrder(p), status |-> status]
         /\ NextOrder(p).id \notin FilledOrders
         /\ \A id \in OrderIds \ {NextOrder(p).id} : orders'[id] = orders[id]
         /\ FilledOrders' = IF status = "FILLED"
                            THEN FilledOrders \cup {NextOrder(p).id} ELSE FilledOrders
<1> USE DEF CoreInv, CoreTypeOK, Records
<1> DEFINE o == NextOrder(p)
<1>1. job[p] \in Plans /\ job[p].date \in Dates /\ job[p].date \in Nat \ {0}
  BY PlansAssumption, DatesAssumption DEF Trade, ProcsTypeOK
<1>2. cursor[p] \in Nat /\ 1 <= cursor[p] /\ cursor[p] <= Len(job[p].orders)
  BY DEF Trade, ProcsTypeOK
<1>3. o \in Order /\ o.id \in OrderIds
  BY <1>1, <1>2, JobOrder DEF NextOrder, Order
<1>4. /\ orders'[o.id] = [plan |-> job[p], order |-> o, status |-> status]
      /\ \A id \in OrderIds \ {o.id} : orders'[id] = orders[id]
  BY <1>3 DEF Write, BooksTypeOK
<1>5. o.id \notin FilledOrders
  BY DEF Recorded, FilledOrders
<1>6. orders'[o.id] # Absent
  BY <1>1, <1>3, <1>4, AbsentAssumption DEF OrderRow
<1>7. FilledOrders' = IF status = "FILLED" THEN FilledOrders \cup {o.id} ELSE FilledOrders
  BY <1>3, <1>4, <1>5, <1>6 DEF FilledOrders
<1>8. QED  BY <1>1, <1>3, <1>4, <1>5, <1>7

LEMMA FillAdds ==
  ASSUME CoreInv, BooksInv, NEW p \in Procs, Records(p, "FILLED")
  PROVE  /\ \A s, side, D :
              FilledShares(s, side, D)' = FilledShares(s, side, D)
                + (IF /\ NextOrder(p).symbol = s /\ NextOrder(p).side = side
                      /\ job[p].date \in D
                   THEN NextOrder(p).volume ELSE 0)
         /\ Sigma(CashMoved', FilledOrders') = Sigma(CashMoved, FilledOrders)
                + (IF NextOrder(p).side = "BUY"
                   THEN -Required(NextOrder(p)) ELSE Proceeds(NextOrder(p)))
         /\ IsFiniteSet(FilledOrders')
<1> DEFINE o == NextOrder(p)
           row == [plan |-> job[p], order |-> o, status |-> "FILLED"]
<1>1. /\ o \in Order /\ o.id \in OrderIds
      /\ orders'[o.id] = row
      /\ o.id \notin FilledOrders
      /\ \A id \in OrderIds \ {o.id} : orders'[id] = orders[id]
      /\ FilledOrders' = FilledOrders \cup {o.id}
  BY RecordsOrder
<1>2. \A id \in FilledOrders : id \in OrderIds /\ id # o.id /\ orders'[id] = orders[id]
  BY <1>1 DEF FilledOrders
<1>3. o.volume \in Nat /\ Required(o) \in Int /\ Proceeds(o) \in Int
  BY <1>1, FeeTypes DEF Order
<1>4. /\ Shares'[o.id] = o.volume
      /\ \A id \in FilledOrders : Shares'[id] = Shares[id] /\ Shares[id] \in Int
  BY <1>1, <1>2, FilledTypes DEF Shares
<1>5. /\ CashMoved'[o.id] = IF o.side = "BUY" THEN -Required(o) ELSE Proceeds(o)
      /\ \A id \in FilledOrders : CashMoved'[id] = CashMoved[id] /\ CashMoved[id] \in Int
  BY <1>1, <1>2, FilledTypes DEF CashMoved
<1>6. ASSUME NEW s, NEW side, NEW D
      PROVE  FilledShares(s, side, D)' = FilledShares(s, side, D)
               + (IF o.symbol = s /\ o.side = side /\ job[p].date \in D THEN o.volume ELSE 0)
  <2> DEFINE S == OrdersOf(s, side, D)
  <2>1. S \subseteq FilledOrders /\ IsFiniteSet(S) /\ o.id \notin S
    <3>1. S \subseteq FilledOrders
      BY DEF OrdersOf
    <3>2. IsFiniteSet(S)
      BY FilledTypes
    <3>3. QED  BY <1>1, <3>1, <3>2
  <2>2. FilledShares(s, side, D) = Sigma(Shares, S) /\ FilledShares(s, side, D)' = Sigma(Shares', S')
    BY FilledIs
  <2>3. S' = IF o.symbol = s /\ o.side = side /\ job[p].date \in D THEN S \cup {o.id} ELSE S
    <3>1. S' = {id \in FilledOrders' : /\ orders'[id].order.symbol = s
                                       /\ orders'[id].order.side = side
                                       /\ orders'[id].plan.date \in D}
      BY DEF OrdersOf
    <3>2. \A id \in FilledOrders : id \in S' <=> id \in S
      BY <1>1, <1>2, <3>1 DEF OrdersOf
    <3>3. o.id \in S' <=> o.symbol = s /\ o.side = side /\ job[p].date \in D
      BY <1>1, <3>1
    <3>4. S' \subseteq FilledOrders \cup {o.id}
      BY <1>1, <3>1
    <3> HIDE DEF S, o
    <3>5. QED  BY <2>1, <3>2, <3>3, <3>4
  <2>4. Sigma(Shares, S) \in Int
    BY <2>2, FilledTypes
  <2> HIDE DEF S, o
  <2>5. CASE o.symbol = s /\ o.side = side /\ job[p].date \in D
    <3>1. Sigma(Shares', S \cup {o.id}) = Shares'[o.id] + Sigma(Shares, S)
      BY <2>1, <1>3, <1>4, SigmaGrow
    <3>2. QED  BY <3>1, <2>2, <2>3, <2>4, <2>5, <1>3, <1>4
  <2>6. CASE ~(o.symbol = s /\ o.side = side /\ job[p].date \in D)
    <3>1. Sigma(Shares', S) = Sigma(Shares, S)
      BY <2>1, <1>4, SigmaSame
    <3>2. QED  BY <3>1, <2>2, <2>3, <2>4, <2>6
  <2>7. QED  BY <2>5, <2>6
<1>7. IsFiniteSet(FilledOrders)
  BY DEF BooksInv
<1>8. Sigma(CashMoved', FilledOrders') = CashMoved'[o.id] + Sigma(CashMoved, FilledOrders)
  BY <1>1, <1>3, <1>5, <1>7, SigmaGrow
<1>9. Sigma(CashMoved, FilledOrders) \in Int /\ CashMoved'[o.id] \in Int
  BY <1>3, <1>5, <1>7, SigmaInt
<1>10. IsFiniteSet(FilledOrders')
  BY <1>1, <1>7, FS_AddElement
<1>11. QED  BY <1>5, <1>6, <1>8, <1>9, <1>10

(* A purchase books a lot nothing was drawn from yet. *)
LEMMA BuyBooks ==
  ASSUME CoreInv, NEW p \in Procs, Trade(p), FillBuy(job[p], NextOrder(p)),
         NEW s, NEW D
  PROVE  /\ Bought(s, D)' = Bought(s, D)
              + (IF NextOrder(p).symbol = s /\ job[p].date \in D
                 THEN NextOrder(p).volume ELSE 0)
         /\ Drawn(s, D)' = Drawn(s, D)
<1> DEFINE o == NextOrder(p)
           n == Len(lots) + 1
           lot == [symbol |-> o.symbol, acquired |-> job[p].date,
                   volume |-> o.volume, remaining |-> o.volume]
           S == LotsOf(s, D)
           grows == o.symbol = s /\ job[p].date \in D
<1>1. Records(p, "FILLED")
  BY DEF Records, FillBuy
<1>2. o \in Order /\ o.volume \in Nat
  BY <1>1, RecordsOrder DEF Order
<1>3. lots \in Seq(Lot) /\ lots' = Append(lots, lot)
  BY DEF FillBuy, CoreInv, CoreTypeOK, BooksTypeOK
<1>4. DOMAIN lots = 1..Len(lots) /\ Len(lots) \in Nat
  BY LotTypes
<1>5. /\ DOMAIN lots' = DOMAIN lots \cup {n} /\ n \notin DOMAIN lots
      /\ lots'[n] = lot /\ \A i \in DOMAIN lots : lots'[i] = lots[i]
  <2> HIDE DEF lot
  <2>1. /\ Len(lots') = n /\ DOMAIN lots' = 1..n
        /\ lots'[n] = lot /\ \A i \in 1..Len(lots) : lots'[i] = lots[i]
    BY <1>3, <1>4
  <2>2. QED  BY <1>4, <2>1
<1>6. /\ S \subseteq DOMAIN lots /\ IsFiniteSet(S) /\ n \notin S
      /\ \A i \in S : Volumes[i] \in Int /\ Draws[i] \in Int
  <2>1. S \subseteq DOMAIN lots
    BY DEF LotsOf
  <2>2. IsFiniteSet(S)
    BY LotTypes
  <2>3. QED  BY <2>1, <2>2, <1>5, LotTypes
<1>7. /\ Volumes'[n] = o.volume /\ Draws'[n] = 0
      /\ \A i \in S : Volumes'[i] = Volumes[i] /\ Draws'[i] = Draws[i]
  BY <1>2, <1>5, <1>6 DEF Volumes, Draws
<1>8. S' = IF grows THEN S \cup {n} ELSE S
  <2>1. S' = {i \in DOMAIN lots' : lots'[i].symbol = s /\ lots'[i].acquired \in D}
    BY DEF LotsOf
  <2>2. \A i \in DOMAIN lots : i \in S' <=> i \in S
    BY <1>5, <2>1 DEF LotsOf
  <2>3. n \in S' <=> grows
    BY <1>5, <2>1
  <2>4. S' \subseteq DOMAIN lots \cup {n}
    BY <1>5, <2>1
  <2> HIDE DEF S, n, grows
  <2>5. QED  BY <1>6, <2>2, <2>3, <2>4
<1>9. /\ Bought(s, D)' = Sigma(Volumes', S') /\ Drawn(s, D)' = Sigma(Draws', S')
      /\ Bought(s, D) = Sigma(Volumes, S) /\ Drawn(s, D) = Sigma(Draws, S)
  BY DEF Bought, Drawn
<1>10. Bought(s, D) \in Int /\ Drawn(s, D) \in Int
  BY LotTypes
<1> HIDE DEF S, n, lot, o
<1>11. CASE grows
  <2>1. Sigma(Volumes', S \cup {n}) = Volumes'[n] + Sigma(Volumes, S)
    BY <1>2, <1>6, <1>7, SigmaGrow
  <2>2. Sigma(Draws', S \cup {n}) = Draws'[n] + Sigma(Draws, S)
    BY <1>6, <1>7, SigmaGrow
  <2>3. QED  BY <1>2, <1>7, <1>8, <1>9, <1>10, <1>11, <2>1, <2>2 DEF o
<1>12. CASE ~grows
  <2>1. Sigma(Volumes', S) = Sigma(Volumes, S) /\ Sigma(Draws', S) = Sigma(Draws, S)
    BY <1>6, <1>7, SigmaSame
  <2>2. QED  BY <1>8, <1>9, <1>10, <1>12, <2>1 DEF o
<1>13. QED  BY <1>11, <1>12

(* A sale draws its volume from the lots of its symbol acquired before its date. *)
LEMMA SellDraws ==
  ASSUME CoreInv, NEW p \in Procs, Trade(p), FillSell(job[p], NextOrder(p)),
         NEW s, NEW D
  PROVE  /\ Bought(s, D)' = Bought(s, D)
         /\ Drawn(s, D)' \in Int /\ Drawn(s, D)' >= Drawn(s, D)
         /\ (0..(job[p].date - 1)) \subseteq D =>
              Drawn(s, D)' = Drawn(s, D)
                + (IF NextOrder(p).symbol = s THEN NextOrder(p).volume ELSE 0)
<1> DEFINE o == NextOrder(p)
           S == LotsOf(s, D)
           avail == AvailableLots(o.symbol, job[p].date)
<1>1. Records(p, "FILLED")
  BY DEF Records, FillSell
<1>2. o \in Order /\ o.volume \in Nat /\ job[p].date \in Nat \ {0}
  BY <1>1, RecordsOrder DEF Order
<1>3. PICK taken \in [DOMAIN lots -> 0..o.volume] :
        /\ \A i \in DOMAIN lots : taken[i] <= lots[i].remaining
        /\ \A i \in DOMAIN lots \ avail : taken[i] = 0
        /\ Sigma(taken, avail) = o.volume
        /\ lots' = [i \in DOMAIN lots |-> [lots[i] EXCEPT !.remaining = @ - taken[i]]]
  BY DEF FillSell, DrawnFIFO, Sigma
<1>4. /\ S \subseteq DOMAIN lots /\ IsFiniteSet(S)
      /\ \A i \in DOMAIN lots : lots[i] \in Lot /\ Volumes[i] \in Int /\ Draws[i] \in Int
  <2>1. S \subseteq DOMAIN lots
    BY DEF LotsOf
  <2>2. IsFiniteSet(S)
    BY LotTypes
  <2>3. QED  BY <2>1, <2>2, LotTypes
<1>5. DOMAIN lots' = DOMAIN lots /\ S' = S
  <2>1. DOMAIN lots' = DOMAIN lots
    BY <1>3
  <2>2. \A i \in DOMAIN lots : lots'[i].symbol = lots[i].symbol /\ lots'[i].acquired = lots[i].acquired
    BY <1>3, <1>4 DEF Lot
  <2>3. QED  BY <2>1, <2>2 DEF LotsOf
<1>6. \A i \in DOMAIN lots : taken[i] \in Nat
  BY <1>2, <1>3
<1>7. ASSUME NEW i \in DOMAIN lots
      PROVE  Volumes'[i] = Volumes[i] /\ Draws'[i] = Draws[i] + taken[i]
  <2>1. lots'[i].volume = lots[i].volume /\ lots'[i].remaining = lots[i].remaining - taken[i]
    BY <1>3, <1>4 DEF Lot
  <2>2. lots[i].volume \in Int /\ lots[i].remaining \in Int /\ taken[i] \in Int
    BY <1>4, <1>6 DEF Lot
  <2>3. QED  BY <1>5, <2>1, <2>2 DEF Volumes, Draws
<1>8. /\ Bought(s, D)' = Sigma(Volumes', S) /\ Drawn(s, D)' = Sigma(Draws', S)
      /\ Bought(s, D) = Sigma(Volumes, S) /\ Drawn(s, D) = Sigma(Draws, S)
  BY <1>5 DEF Bought, Drawn
<1>9. Bought(s, D) \in Int /\ Drawn(s, D) \in Int
  BY LotTypes
<1>10. \A i \in S : /\ Volumes[i] \in Int /\ Draws[i] \in Int /\ taken[i] \in Nat
                    /\ Volumes'[i] = Volumes[i] /\ Draws'[i] = Draws[i] + taken[i]
  BY <1>4, <1>6, <1>7
<1>11. (0..(job[p].date - 1)) \subseteq D =>
          IF o.symbol = s THEN avail \subseteq S ELSE S \cap avail = {}
  <2>1. \A i \in avail : /\ i \in DOMAIN lots /\ lots[i].symbol = o.symbol
                         /\ lots[i].acquired \in Nat /\ lots[i].acquired < job[p].date
    BY <1>4 DEF AvailableLots, Lot
  <2>2. \A i \in avail : lots[i].acquired \in 0..(job[p].date - 1)
    BY <1>2, <2>1
  <2>3. QED  BY <2>1, <2>2 DEF LotsOf
<1> HIDE DEF S, avail, o
<1>12. Sigma(Volumes', S) = Sigma(Volumes, S)
  BY <1>4, <1>10, SigmaSame
<1>13. Sigma(Draws', S) = Sigma(Draws, S) + Sigma(taken, S)
  BY <1>4, <1>10, SigmaPlus
<1>14. Sigma(taken, S) \in Nat
  BY <1>4, <1>10, SigmaNat
<1>15. ASSUME (0..(job[p].date - 1)) \subseteq D
       PROVE  Sigma(taken, S) = IF o.symbol = s THEN o.volume ELSE 0
  <2>1. \A i \in S \ avail : taken[i] = 0
    BY <1>3, <1>4
  <2>2. CASE o.symbol = s
    BY <1>3, <1>4, <1>10, <1>11, <1>15, <2>1, <2>2, SigmaZeros
  <2>3. CASE o.symbol # s
    <3>1. \A i \in S \ {} : taken[i] = 0
      BY <1>11, <1>15, <2>1, <2>3
    <3>2. Sigma(taken, S) = Sigma(taken, {})
      BY <1>4, <1>10, <3>1, SigmaZeros
    <3>3. QED  BY <2>3, <3>2, SigmaEmpty
  <2>4. QED  BY <2>2, <2>3
<1>16. QED  BY <1>2, <1>8, <1>9, <1>12, <1>13, <1>14, <1>15 DEF o

LEMMA BooksChange ==
  ASSUME [Next]_vars
  PROVE  \/ UNCHANGED <<cash, lots, orders>>
         \/ EnsureAccount
         \/ \E p \in Procs : /\ Trade(p)
                             /\ \/ RecordUnfilled(job[p], NextOrder(p))
                                \/ FillBuy(job[p], NextOrder(p))
                                \/ FillSell(job[p], NextOrder(p))
<1>1. ASSUME NEW p \in Procs, Trade(p)
      PROVE  \/ UNCHANGED <<cash, lots, orders>>
             \/ RecordUnfilled(job[p], NextOrder(p))
             \/ FillBuy(job[p], NextOrder(p))
             \/ FillSell(job[p], NextOrder(p))
  BY <1>1 DEF Trade, ExecuteOrder, AnswerDuplicate, ledgerVars
<1>2. CASE ~\E p \in Procs : Trade(p)
  <2>1. UNCHANGED <<cash, lots, orders>> \/ EnsureAccount
    BY <1>2
    DEF Next, Step, vars, ledgerVars, OpenAccount, Submit, Validate, RefuseOvertaken,
        Begin, BeginSession, RefuseSession, RaiseInTrade, ReadCash, ReadLots,
        RaiseUnpriced, ComputeNav, KeepNav, RefuseNav, StoreNav, InsertNav,
        RaiseSecondNav, Finish, CompleteSession, Crash
  <2>2. QED  BY <2>1
<1>3. QED  BY <1>1, <1>2

(* What leaves the lots and the filled orders alone leaves their sums alone. *)
LEMMA SumsStay ==
  ASSUME lots' = lots, FilledOrders' = FilledOrders,
         \A id \in FilledOrders : orders'[id] = orders[id]
  PROVE  /\ \A s, D : Bought(s, D)' = Bought(s, D) /\ Drawn(s, D)' = Drawn(s, D)
         /\ \A s, side, D : FilledShares(s, side, D)' = FilledShares(s, side, D)
         /\ CashMoved' = CashMoved
<1>1. ASSUME NEW s, NEW D
      PROVE  Bought(s, D)' = Bought(s, D) /\ Drawn(s, D)' = Drawn(s, D)
  BY DEF Bought, Drawn, LotsOf, Volumes, Draws
<1>2. Shares' = Shares /\ CashMoved' = CashMoved
  BY DEF Shares, CashMoved
<1>3. ASSUME NEW s, NEW side, NEW D
      PROVE  FilledShares(s, side, D)' = FilledShares(s, side, D)
  <2>1. OrdersOf(s, side, D)' = OrdersOf(s, side, D)
    BY DEF OrdersOf
  <2>2. QED  BY <1>2, <2>1, FilledIs
<1>4. QED  BY <1>1, <1>2, <1>3

LEMMA BooksInit ==
  ASSUME Init
  PROVE  BooksInv
<1> USE DEF Init, LedgerInit
<1>1. FilledOrders = {} /\ cash = Absent
  BY DEF FilledOrders
<1>2. \A s, side, D : FilledShares(s, side, D) = 0
  <2>1. ASSUME NEW s, NEW side, NEW D PROVE OrdersOf(s, side, D) = {}
    BY <1>1 DEF OrdersOf
  <2>2. QED  BY <2>1, FilledIs, SigmaEmpty
<1>3. ASSUME NEW s, NEW D
      PROVE  Bought(s, D) = SeededShares(s, D) /\ Drawn(s, D) = 0 /\ SeededShares(s, D) \in Int
  <2>1. SeedLots \in Seq(Lot) /\ lots = SeedLots /\ DOMAIN lots = 1..Len(lots) /\ Len(lots) \in Nat
    BY AccountAssumption
  <2>2. IsFiniteSet(LotsOf(s, D)) /\ LotsOf(s, D) \subseteq DOMAIN lots
    <3>1. LotsOf(s, D) \subseteq DOMAIN lots
      BY DEF LotsOf
    <3>2. IsFiniteSet(DOMAIN lots)
      BY <2>1, FS_Interval
    <3>3. QED  BY <3>1, <3>2, FS_Subset
  <2>3. \A i \in DOMAIN lots : Draws[i] = 0 /\ Volumes[i] \in Int
    <3>1. \A i \in DOMAIN lots : lots[i].remaining = lots[i].volume /\ lots[i] \in Lot
      BY <2>1, AccountAssumption
    <3>2. QED  BY <3>1 DEF Draws, Volumes, Lot
  <2>4. Sigma(Draws, LotsOf(s, D)) = Sigma(Draws, {})
    BY <2>2, <2>3, SigmaZeros
  <2>5. Drawn(s, D) = 0
    BY <2>4, SigmaEmpty DEF Drawn
  <2>6. Bought(s, D) = SeededShares(s, D)
    BY <2>1 DEF Bought, Volumes, LotsOf, SeededShares, Sigma
  <2>7. Bought(s, D) \in Int
    BY <2>2, <2>3, SigmaInt DEF Bought
  <2>8. QED  BY <2>5, <2>6, <2>7
<1>4. QED  BY <1>1, <1>2, <1>3, FS_EmptySet DEF BooksInv

LEMMA SeededType ==
  ASSUME NEW s, NEW D
  PROVE  SeededShares(s, D) \in Int
<1> DEFINE S == {i \in DOMAIN SeedLots : SeedLots[i].symbol = s /\ SeedLots[i].acquired \in D}
           f == [i \in DOMAIN SeedLots |-> SeedLots[i].volume]
<1>1. SeedLots \in Seq(Lot) /\ IsFiniteSet(DOMAIN SeedLots)
  BY AccountAssumption, FS_Interval
<1>2. IsFiniteSet(S) /\ S \subseteq DOMAIN SeedLots
  BY <1>1, FS_Subset
<1>3. \A i \in DOMAIN SeedLots : f[i] \in Int
  <2>1. \A i \in DOMAIN SeedLots : SeedLots[i] \in Lot
    BY <1>1
  <2>2. QED  BY <2>1 DEF Lot
<1>4. SeededShares(s, D) = Sigma(f, S)
  BY DEF SeededShares, Sigma
<1> HIDE DEF S, f
<1>5. QED  BY <1>2, <1>3, <1>4, SigmaInt

LEMMA BooksStep ==
  ASSUME CoreInv, BooksInv, [Next]_vars
  PROVE  BooksInv'
<1>1. \A s, D : SeededShares(s, D)' = SeededShares(s, D)
  BY DEF SeededShares
<1>2. CASE UNCHANGED <<cash, lots, orders>>
  <2>1. FilledOrders' = FilledOrders
    BY <1>2 DEF FilledOrders
  <2>2. QED  BY <1>2, <2>1, SumsStay DEF BooksInv, SeededShares
<1>3. CASE EnsureAccount
  <2>1. FilledOrders' = FilledOrders /\ orders' = orders /\ lots' = lots
    BY <1>3 DEF EnsureAccount, FilledOrders
  <2>2. cash' = IF cash = Absent THEN InitialCash ELSE cash
    BY <1>3 DEF EnsureAccount
  <2>3. cash = Absent => Sigma(CashMoved, FilledOrders) = 0
    BY SigmaEmpty DEF BooksInv
  <2>4. InitialCash \in Nat /\ InitialCash # Absent
    BY AccountAssumption, AbsentAssumption
  <2>5. cash' # Absent /\ cash' = InitialCash + Sigma(CashMoved, FilledOrders)
    BY <2>2, <2>3, <2>4 DEF BooksInv
  <2>6. QED  BY <2>1, <2>5, SumsStay DEF BooksInv, SeededShares
<1>4. ASSUME NEW p \in Procs, Trade(p), RecordUnfilled(job[p], NextOrder(p))
      PROVE  BooksInv'
  <2>1. Records(p, "UNFILLED") /\ UNCHANGED <<cash, lots>>
    BY <1>4 DEF Records, RecordUnfilled
  <2>2. FilledOrders' = FilledOrders /\ \A id \in FilledOrders : orders'[id] = orders[id]
    <3>1. FilledOrders \subseteq OrderIds
      BY DEF FilledOrders
    <3>2. QED  BY <2>1, <3>1, RecordsOrder
  <2>3. QED  BY <2>1, <2>2, SumsStay DEF BooksInv, SeededShares
<1>5. ASSUME NEW p \in Procs, Trade(p), FillBuy(job[p], NextOrder(p)) \/ FillSell(job[p], NextOrder(p))
      PROVE  BooksInv'
  <2> DEFINE o == NextOrder(p)
             t == job[p].date
  <2>1. Records(p, "FILLED")
    BY <1>5 DEF Records, FillBuy, FillSell
  <2>2. o \in Order /\ o.volume \in Nat /\ Required(o) \in Int /\ Proceeds(o) \in Int /\ t \in Nat \ {0}
    <3>1. o \in Order /\ t \in Nat \ {0}
      BY <2>1, RecordsOrder
    <3> HIDE DEF o, t
    <3>2. o.volume \in Nat /\ Required(o) \in Int /\ Proceeds(o) \in Int
      BY <3>1, FeeTypes DEF Order
    <3>3. QED  BY <3>1, <3>2
  <2>3. cash \in Nat /\ cash # Absent
    BY <1>5, AbsentAssumption DEF Trade, CoreInv, CoreTypeOK, AccountOpen, Working, BooksTypeOK
  <2>4. /\ \A s, side, D : FilledShares(s, side, D)' = FilledShares(s, side, D)
             + (IF o.symbol = s /\ o.side = side /\ t \in D THEN o.volume ELSE 0)
        /\ Sigma(CashMoved', FilledOrders') = Sigma(CashMoved, FilledOrders)
             + (IF o.side = "BUY" THEN -Required(o) ELSE Proceeds(o))
        /\ IsFiniteSet(FilledOrders')
    BY <2>1, FillAdds
  <2>5. cash' = cash + (IF o.side = "BUY" THEN -Required(o) ELSE Proceeds(o))
    BY <1>5, <2>2, <2>3 DEF FillBuy, FillSell
  <2>6. Sigma(CashMoved, FilledOrders) \in Int /\ cash = InitialCash + Sigma(CashMoved, FilledOrders)
    BY <2>3, FilledTypes, SigmaInt DEF BooksInv
  <2>7. cash' # Absent /\ cash' = InitialCash + Sigma(CashMoved', FilledOrders')
    <3>1. cash' \in Int /\ cash' = InitialCash + Sigma(CashMoved', FilledOrders')
      BY <2>2, <2>3, <2>4, <2>5, <2>6, AccountAssumption
    <3>2. cash' # Absent
      BY <1>5, <2>2, <2>3, AbsentAssumption, FeeTypes
      DEF FillBuy, FillSell, Covered
    <3>3. QED  BY <3>1, <3>2
  <2>8. \A s, side, D : FilledShares(s, side, D) \in Int /\ Bought(s, D) \in Int /\ Drawn(s, D) \in Int
    BY FilledTypes, LotTypes
  <2> HIDE DEF o, t
  <2>9. CASE FillBuy(job[p], NextOrder(p))
    <3>1. o.side = "BUY"
      BY <2>9 DEF FillBuy, o
    <3>2. \A s, D : /\ Bought(s, D)' = Bought(s, D)
                         + (IF o.symbol = s /\ t \in D THEN o.volume ELSE 0)
                    /\ Drawn(s, D)' = Drawn(s, D)
      BY <1>5, <2>9, BuyBooks DEF o, t
    <3>3. \A s, D : /\ FilledShares(s, "SELL", D)' = FilledShares(s, "SELL", D)
                    /\ FilledShares(s, "BUY", D)' = FilledShares(s, "BUY", D)
                         + (IF o.symbol = s /\ t \in D THEN o.volume ELSE 0)
      BY <2>4, <2>8, <3>1
    <3>4. ASSUME NEW s \in Symbols, NEW D \in SUBSET Nat
          PROVE  Bought(s, D)' = SeededShares(s, D) + FilledShares(s, "BUY", D)'
      <4>1. Bought(s, D) = SeededShares(s, D) + FilledShares(s, "BUY", D)
        BY DEF BooksInv
      <4>2. SeededShares(s, D) \in Int
        BY SeededType
      <4>3. QED  BY <2>2, <2>8, <3>2, <3>3, <4>1, <4>2
    <3>5. QED  BY <1>1, <2>4, <2>7, <3>2, <3>3, <3>4 DEF BooksInv
  <2>10. CASE FillSell(job[p], NextOrder(p))
    <3>1. o.side = "SELL"
      BY <2>10 DEF FillSell, o
    <3>2. \A s, D : /\ Bought(s, D)' = Bought(s, D)
                    /\ Drawn(s, D)' \in Int /\ Drawn(s, D)' >= Drawn(s, D)
                    /\ (0..(t - 1)) \subseteq D =>
                         Drawn(s, D)' = Drawn(s, D) + (IF o.symbol = s THEN o.volume ELSE 0)
      BY <1>5, <2>10, SellDraws DEF o, t
    <3>3. \A s, D : /\ FilledShares(s, "BUY", D)' = FilledShares(s, "BUY", D)
                    /\ FilledShares(s, "SELL", D)' = FilledShares(s, "SELL", D)
                         + (IF o.symbol = s /\ t \in D THEN o.volume ELSE 0)
      BY <2>4, <2>8, <3>1
    <3>4. ASSUME NEW s \in Symbols
          PROVE  Drawn(s, Nat)' = FilledShares(s, "SELL", Nat)'
      <4>1. t \in Nat \ {0} /\ o.volume \in Nat
        BY <2>2 DEF t, o
      <4>2. t \in Nat /\ (0..(t - 1)) \subseteq Nat
        BY <4>1
      <4>3. /\ Drawn(s, Nat)' = Drawn(s, Nat) + (IF o.symbol = s THEN o.volume ELSE 0)
            /\ FilledShares(s, "SELL", Nat)' = FilledShares(s, "SELL", Nat)
                 + (IF o.symbol = s THEN o.volume ELSE 0)
        BY <4>2, <3>2, <3>3
      <4>4. Drawn(s, Nat) = FilledShares(s, "SELL", Nat)
        BY DEF BooksInv
      <4>5. QED  BY <4>3, <4>4
    <3>5. ASSUME NEW s \in Symbols, NEW d \in Nat
          PROVE  FilledShares(s, "SELL", 1..d)' <= Drawn(s, 0..(d - 1))'
      <4>1. FilledShares(s, "SELL", 1..d) <= Drawn(s, 0..(d - 1))
        BY DEF BooksInv
      <4>2. t \in Nat \ {0} /\ o.volume \in Nat
        BY <2>2 DEF t, o
      <4>3. Drawn(s, 0..(d - 1))' \in Int
        BY <3>2
      <4>4. CASE t <= d
        <5>1. t \in 1..d /\ (0..(t - 1)) \subseteq 0..(d - 1)
          BY <4>2, <4>4
        <5>2. /\ Drawn(s, 0..(d - 1))' = Drawn(s, 0..(d - 1))
                   + (IF o.symbol = s THEN o.volume ELSE 0)
              /\ FilledShares(s, "SELL", 1..d)' = FilledShares(s, "SELL", 1..d)
                   + (IF o.symbol = s THEN o.volume ELSE 0)
          BY <3>2, <3>3, <5>1
        <5>3. FilledShares(s, "SELL", 1..d) \in Int /\ Drawn(s, 0..(d - 1)) \in Int
          BY <2>8
        <5>4. QED  BY <4>1, <4>2, <5>2, <5>3
      <4>5. CASE ~(t <= d)
        <5>1. t \notin 1..d
          BY <4>2, <4>5
        <5>2. /\ Drawn(s, 0..(d - 1))' >= Drawn(s, 0..(d - 1))
              /\ FilledShares(s, "SELL", 1..d)' = FilledShares(s, "SELL", 1..d) + 0
          BY <3>2, <3>3, <5>1
        <5>3. FilledShares(s, "SELL", 1..d) \in Int /\ Drawn(s, 0..(d - 1)) \in Int
          BY <2>8
        <5>4. QED  BY <4>1, <4>3, <5>2, <5>3
      <4>6. QED  BY <4>4, <4>5
    <3>6. QED  BY <1>1, <2>4, <2>7, <3>2, <3>3, <3>4, <3>5 DEF BooksInv
  <2>11. QED  BY <1>5, <2>9, <2>10
<1>6. QED  BY <1>2, <1>3, <1>4, <1>5, BooksChange

LEMMA BooksInvariant == Spec => []BooksInv
<1>1. Init => BooksInv
  BY BooksInit
<1>2. CoreInv /\ BooksInv /\ [Next]_vars => BooksInv'
  BY BooksStep
<1>3. QED  BY <1>1, <1>2, CoreTypeCorrect, PTL DEF Spec

(* Cash is the initial cash and what every filled order moved, and each symbol's  *)
(* shares are the seeded and bought ones less those sold, whatever was retried,    *)
(* interrupted or raced (execute_order and its transaction).                       *)
THEOREM BooksBalanceHolds == Spec => []BooksBalance
<1>1. CoreInv /\ BooksInv => BooksBalance
  <2> SUFFICES ASSUME CoreInv, BooksInv PROVE BooksBalance
    OBVIOUS
  <2>1. cash # Absent => cash = InitialCash + SumFunctionOnSet(CashMoved, FilledOrders)
    BY DEF BooksInv, Sigma
  <2>2. ASSUME NEW s \in Symbols
        PROVE  SharesIn({i \in DOMAIN lots : lots[i].symbol = s})
                 = SeededShares(s, Nat) + FilledShares(s, "BUY", Nat)
                     - FilledShares(s, "SELL", Nat)
    <3> DEFINE S == LotsOf(s, Nat)
               left == [i \in DOMAIN lots |-> lots[i].remaining]
    <3>1. IsFiniteSet(S) /\ S \subseteq DOMAIN lots /\ Bought(s, Nat) \in Int /\ Drawn(s, Nat) \in Int
      BY LotTypes
    <3>2. \A i \in DOMAIN lots : lots[i] \in Lot
      BY LotTypes
    <3>3. S = {i \in DOMAIN lots : lots[i].symbol = s}
      BY <3>2 DEF LotsOf, Lot
    <3>4. SharesIn({i \in DOMAIN lots : lots[i].symbol = s}) = Sigma(left, S)
      BY <3>3 DEF SharesIn, Sigma
    <3>5. \A i \in S : left[i] \in Int /\ Draws[i] \in Int /\ Volumes[i] = left[i] + Draws[i]
      BY <3>1, <3>2 DEF Lot, Draws, Volumes
    <3> HIDE DEF S, left
    <3>6. Sigma(Volumes, S) = Sigma(left, S) + Sigma(Draws, S)
      BY <3>1, <3>5, SigmaPlus
    <3>7. Sigma(left, S) \in Int
      BY <3>1, <3>5, SigmaInt
    <3>8. Bought(s, Nat) = SeededShares(s, Nat) + FilledShares(s, "BUY", Nat)
      BY DEF BooksInv
    <3>9. Drawn(s, Nat) = FilledShares(s, "SELL", Nat)
      BY DEF BooksInv
    <3>10. Bought(s, Nat) = Sigma(left, S) + Drawn(s, Nat)
      BY <3>6 DEF Bought, Drawn, S
    <3>11. /\ SeededShares(s, Nat) \in Int /\ FilledShares(s, "BUY", Nat) \in Int
           /\ FilledShares(s, "SELL", Nat) \in Int
      BY FilledTypes, SeededType
    <3>12. QED  BY <3>1, <3>4, <3>7, <3>8, <3>9, <3>10, <3>11
  <2>3. QED  BY <2>1, <2>2 DEF BooksBalance
<1>2. QED  BY <1>1, CoreTypeCorrect, BooksInvariant, PTL

(* No share is sold on the day it was bought: by any date, a symbol's sales are     *)
(* covered by what had been acquired on earlier dates (_available_lots).            *)
THEOREM NoSameDaySaleHolds == Spec => []NoSameDaySale
<1>1. CoreInv /\ BooksInv => NoSameDaySale
  <2> SUFFICES ASSUME CoreInv, BooksInv, NEW s \in Symbols, NEW d \in Dates
               PROVE  FilledShares(s, "SELL", 1..d)
                        <= SeededShares(s, 0..(d - 1)) + FilledShares(s, "BUY", 0..(d - 1))
    BY DEF NoSameDaySale
  <2> DEFINE D == 0..(d - 1)
             S == LotsOf(s, D)
  <2>1. d \in Nat /\ D \in SUBSET Nat
    BY DatesAssumption
  <2>2. IsFiniteSet(S) /\ \A i \in S : i \in DOMAIN lots /\ lots[i] \in Lot
    BY LotTypes
  <2>3. \A i \in S : Draws[i] \in Int /\ Volumes[i] \in Int /\ Draws[i] <= Volumes[i]
    BY <2>2 DEF Lot, Draws, Volumes
  <2>4. Sigma(Draws, S) <= Sigma(Volumes, S)
    BY <2>2, <2>3, SigmaLeq
  <2>5. Drawn(s, D) <= Bought(s, D)
    BY <2>4 DEF Drawn, Bought
  <2>6. FilledShares(s, "SELL", 1..d) <= Drawn(s, D)
    BY <2>1 DEF BooksInv
  <2>7. Bought(s, D) = SeededShares(s, D) + FilledShares(s, "BUY", D)
    BY <2>1 DEF BooksInv
  <2>8. FilledShares(s, "SELL", 1..d) \in Int /\ Drawn(s, D) \in Int /\ Bought(s, D) \in Int
    BY FilledTypes, LotTypes
  <2>9. QED  BY <2>5, <2>6, <2>7, <2>8
<1>2. QED  BY <1>1, CoreTypeCorrect, BooksInvariant, PTL

-----------------------------------------------------------------------------
(* What is read for the NAV and what is stored of it are amounts. *)
Reading == [cash : Nat, market : Nat]

ValuesInv ==
  /\ IsFiniteSet(nav) /\ nav \subseteq NavRow
  /\ \A p \in Procs :
       /\ pc[p] \in {"pricing", "recording"} => draft[p] \in Reading
       /\ pc[p] = "inserting" => draft[p] \in NavRow

LEMMA MarketType ==
  ASSUME CoreInv, NEW d \in Dates, Priced(d)
  PROVE  MarketValue(d) \in Nat
<1> DEFINE f == [i \in Held |-> lots[i].remaining * Market[d].close[lots[i].symbol]]
<1>1. Held \subseteq DOMAIN lots /\ IsFiniteSet(DOMAIN lots)
  BY LotTypes, FS_Interval DEF Held
<1>2. \A i \in Held : f[i] \in Nat
  <2>1. ASSUME NEW i \in Held PROVE f[i] \in Nat
    <3>1. lots[i] \in Lot
      BY <1>1, LotTypes
    <3>2. lots[i].remaining \in Nat /\ Market[d].close[lots[i].symbol] \in Nat
      BY <3>1, MarketAssumption DEF Priced, Lot
    <3>3. QED  BY <3>2
  <2>2. QED  BY <2>1
<1>3. MarketValue(d) = Sigma(f, Held)
  BY DEF MarketValue, Sigma
<1> HIDE DEF f
<1>4. IsFiniteSet(Held)
  BY <1>1, FS_Subset
<1>5. QED  BY <1>2, <1>3, <1>4, SigmaNat

LEMMA NavType ==
  ASSUME IsFiniteSet(nav), nav \subseteq NavRow, NEW d \in Dates, NEW c \in Nat, NEW m \in Nat
  PROVE  NavFor(d, c, m) \in NavRow
<1>0. \A row \in nav : Equity(row) \in Nat /\ row.date \in Nat
  <2>1. ASSUME NEW row \in nav PROVE Equity(row) \in Nat /\ row.date \in Nat
    <3>1. row \in NavRow
      OBVIOUS
    <3>2. row.cash \in Nat /\ row.market \in Nat /\ row.date \in Nat
      BY <3>1, DatesAssumption DEF NavRow
    <3>3. QED  BY <3>2 DEF Equity
  <2>2. QED  BY <2>1
<1>1. (IF Earlier(d) = {} THEN 0 ELSE Equity(Latest(Earlier(d)))) \in Nat
  <2>1. CASE Earlier(d) # {}
    <3> DEFINE w == [row \in Earlier(d) |-> row.date]
    <3>1. Earlier(d) \subseteq nav /\ IsFiniteSet(Earlier(d))
      BY FS_Subset DEF Earlier
    <3>2. \A row \in Earlier(d) : w[row] = row.date /\ w[row] \in Int
      BY <1>0, <3>1
    <3> HIDE DEF w
    <3>3. \E row \in Earlier(d) : \A other \in Earlier(d) : w[other] <= w[row]
      BY <2>1, <3>1, <3>2, GreatestExists
    <3>4. Latest(Earlier(d)) \in Earlier(d)
      BY <3>2, <3>3 DEF Latest
    <3>5. QED  BY <1>0, <2>1, <3>1, <3>4
  <2>2. QED  BY <2>1
<1>2. Max({c + m} \cup {Equity(row) : row \in nav}) \in Nat
  <2> DEFINE V == {c + m} \cup {Equity(row) : row \in nav}
             w == [x \in V |-> x]
  <2>1. V \subseteq Nat /\ V # {}
    BY <1>0
  <2>2. IsFiniteSet(V)
    <3>1. IsFiniteSet({Equity(row) : row \in nav})
      <4> DEFINE worth == [row \in nav |-> Equity(row)]
      <4>1. worth \in Surjection(nav, {Equity(row) : row \in nav})
        BY DEF Surjection
      <4>2. QED  BY <4>1, FS_Surjection
    <3>2. {c + m} \cup {Equity(row) : row \in nav} = {Equity(row) : row \in nav} \cup {c + m}
      OBVIOUS
    <3>3. QED  BY <3>1, <3>2, FS_AddElement
  <2>3. \A x \in V : w[x] = x /\ w[x] \in Int
    BY <2>1
  <2> HIDE DEF V, w
  <2>4. \E x \in V : \A y \in V : w[y] <= w[x]
    BY <2>1, <2>2, <2>3, GreatestExists
  <2>5. Max(V) \in V
    BY <2>1, <2>3, <2>4 DEF Max
  <2>6. QED  BY <2>1, <2>5 DEF V
<1>3. QED  BY <1>1, <1>2 DEF NavFor, NavRow

LEMMA ValuesStep ==
  ASSUME CoreInv, ValuesInv, [Next]_vars
  PROVE  ValuesInv'
<1> USE DEF CoreInv, CoreTypeOK, ValuesInv, ProcsTypeOK
<1>1. CASE UNCHANGED <<nav, pc, draft>>
  BY <1>1
<1>2. ASSUME NEW p \in Procs, Leave(p), UNCHANGED nav
      PROVE  ValuesInv'
  BY <1>2 DEF Leave
<1>3. ASSUME NEW p \in Procs, NEW stage \in {"validating", "opening", "trading", "closing"},
             Goto(p, stage), UNCHANGED <<nav, draft>>
      PROVE  ValuesInv'
  BY <1>3 DEF Goto
<1>4. ASSUME NEW p \in Procs, ReadCash(p)
      PROVE  ValuesInv'
  <2>1. cash \in Nat
    BY <1>4 DEF ReadCash, AccountOpen, Working, BooksTypeOK
  <2>2. [cash |-> cash, market |-> 0] \in Reading
    BY <2>1 DEF Reading
  <2>3. QED  BY <1>4, <2>2 DEF ReadCash, Goto, ledgerVars
<1>5. ASSUME NEW p \in Procs, ReadLots(p)
      PROVE  ValuesInv'
  <2>1. job[p].date \in Dates
    BY <1>5, PlansAssumption DEF ReadLots
  <2>2. MarketValue(job[p].date) \in Nat
    BY <1>5, <2>1, MarketType DEF ReadLots
  <2>3. draft[p] \in Reading
    BY <1>5 DEF ReadLots
  <2>4. [draft[p] EXCEPT !.market = MarketValue(job[p].date)] \in Reading
    BY <2>2, <2>3 DEF Reading
  <2>5. /\ draft' = [draft EXCEPT ![p] = [draft[p] EXCEPT !.market = MarketValue(job[p].date)]]
        /\ pc' = [pc EXCEPT ![p] = "recording"] /\ nav' = nav
    BY <1>5 DEF ReadLots, Goto, ledgerVars
  <2>6. QED  BY <2>4, <2>5
<1>6. ASSUME NEW p \in Procs, ComputeNav(p)
      PROVE  ValuesInv'
  <2> DEFINE row == NavFor(job[p].date, draft[p].cash, draft[p].market)
  <2>1. job[p].date \in Dates
    BY <1>6, PlansAssumption DEF ComputeNav
  <2>2. draft[p].cash \in Nat /\ draft[p].market \in Nat
    BY <1>6 DEF ComputeNav, Reading
  <2>3. row \in NavRow
    BY <2>1, <2>2, NavType
  <2>4. /\ draft' = [draft EXCEPT ![p] = row]
        /\ pc' = [pc EXCEPT ![p] = "inserting"] /\ nav' = nav
    BY <1>6 DEF ComputeNav, Goto, ledgerVars
  <2> HIDE DEF row
  <2>5. QED  BY <2>3, <2>4
<1>7. ASSUME NEW p \in Procs, KeepNav(p)
      PROVE  ValuesInv'
  <2>1. Goto(p, "closing") /\ UNCHANGED <<nav, draft>>
    BY <1>7 DEF KeepNav, ledgerVars
  <2>2. QED  BY <1>3, <2>1
<1>8. ASSUME NEW p \in Procs, StoreNav(p)
      PROVE  ValuesInv'
  <2>1. draft[p] \in NavRow /\ nav' = nav \cup {draft[p]} /\ Goto(p, "closing") /\ draft' = draft
    BY <1>8 DEF StoreNav, InsertNav
  <2>2. IsFiniteSet(nav') /\ nav' \subseteq NavRow
    BY <2>1, FS_AddElement
  <2>3. QED  BY <2>1, <2>2 DEF Goto
<1>9. ASSUME NEW p \in Procs, Finish(p)
      PROVE  ValuesInv'
  BY <1>2, <1>9 DEF Finish, CompleteSession
<1>10. ASSUME NEW p \in Procs,
              \/ \E plan \in Plans : Submit(p, plan)
              \/ Validate(p) \/ Begin(p)
       PROVE  ValuesInv'
  <2>1. PICK stage \in {"validating", "opening", "trading", "closing"} : Goto(p, stage)
    BY <1>10 DEF Submit, Validate, Begin
  <2>2. UNCHANGED <<nav, draft>>
    BY <1>10 DEF Submit, Validate, Begin, BeginSession, ledgerVars
  <2>3. QED  BY <1>3, <2>1, <2>2
<1>11. ASSUME NEW p \in Procs, Trade(p)
       PROVE  ValuesInv'
  BY <1>1, <1>11
  DEF Trade, ExecuteOrder, AnswerDuplicate, RecordUnfilled, FillBuy, FillSell, ledgerVars
<1>12. QED
  BY <1>1, <1>2, <1>4, <1>5, <1>6, <1>7, <1>8, <1>9, <1>10, <1>11
  DEF Next, Step, vars, ledgerVars, procVars, OpenAccount, EnsureAccount, RefuseOvertaken,
      RefuseSession, RaiseInTrade, RaiseUnpriced, RefuseNav, RaiseSecondNav, Crash

LEMMA ValuesInvariant == Spec => []ValuesInv
<1>1. Init => ValuesInv
  BY FS_EmptySet DEF Init, LedgerInit, ValuesInv
<1>2. CoreInv /\ ValuesInv /\ [Next]_vars => ValuesInv'
  BY ValuesStep
<1>3. QED  BY <1>1, <1>2, CoreTypeCorrect, PTL DEF Spec

(* Every table and every local has its type, the NAV rows too: a value, a previous *)
(* NAV and a peak are always there to be stored (record_nav).                      *)
THEOREM TypesHold == Spec => []TypeOK
<1>1. CoreInv /\ ValuesInv => TypeOK
  BY DEF CoreInv, CoreTypeOK, ValuesInv, TypeOK
<1>2. QED  BY <1>1, CoreTypeCorrect, ValuesInvariant, PTL

-----------------------------------------------------------------------------
(* What holds when executions do not overlap.  The invariant: the process works on *)
(* the latest opened date; a date with a NAV row has all its orders recorded; only  *)
(* lots acquired before an opened date were drawn on; what was read for the NAV, and *)
(* the NAV of the latest date, are the books as they stand.                          *)
OneAtATime == \A p, q \in Procs : p = q

WorksOnLatest ==
  \A p \in Procs : pc[p] \in {"opening"} \cup Working => ~Overtaken(job[p].date)

OpenedFirst == cash = Absent => \A d \in Dates : sessions[d] = Absent

RowsAreSettled ==
  /\ \A row \in nav : sessions[row.date] # Absent /\ IdsKnown(sessions[row.date].plan)
  /\ \A row, other \in nav : row.date = other.date => row = other

DrawnBefore ==
  \A i \in DOMAIN lots : lots[i].remaining # lots[i].volume =>
    \E d \in Dates : sessions[d] # Absent /\ lots[i].acquired < d

LatestIsCurrent ==
  \A row \in nav : ~Overtaken(row.date) =>
    row.cash = cash /\ row.market = MarketValue(row.date)

DraftsCurrent ==
  \A p \in Procs :
    /\ pc[p] \in {"pricing", "recording", "inserting"} => draft[p].cash = cash
    /\ pc[p] \in {"recording", "inserting"} => draft[p].market = MarketValue(job[p].date)
    /\ pc[p] = "inserting" =>
         draft[p] = NavFor(job[p].date, draft[p].cash, draft[p].market)

(* The part that only the ledger enters into. *)
LedgerSerial ==
  /\ OpenedFirst
  /\ RowsAreSettled
  /\ DrawnBefore
  /\ LatestIsCurrent
  /\ NavSeriesSound
  /\ OldestLotFirst

SerialInv == LedgerSerial /\ WorksOnLatest /\ DraftsCurrent

LEMMA LedgerStays ==
  ASSUME LedgerSerial, UNCHANGED ledgerVars
  PROVE  /\ LedgerSerial'
         /\ \A d : /\ Overtaken(d)' = Overtaken(d)
                   /\ MarketValue(d)' = MarketValue(d)
         /\ \A d, c, m : NavFor(d, c, m)' = NavFor(d, c, m)
<1> USE DEF ledgerVars
<1>1. ASSUME NEW d PROVE Overtaken(d)' = Overtaken(d)
  BY DEF Overtaken
<1>2. ASSUME NEW d PROVE MarketValue(d)' = MarketValue(d)
  BY DEF MarketValue, Held
<1>3. ASSUME NEW d PROVE Earlier(d)' = Earlier(d)
  BY DEF Earlier
<1>4. ASSUME NEW d, NEW c, NEW m PROVE NavFor(d, c, m)' = NavFor(d, c, m)
  BY DEF NavFor, Earlier
<1>5. OpenedFirst' /\ RowsAreSettled' /\ DrawnBefore' /\ OldestLotFirst'
  BY DEF LedgerSerial, OpenedFirst, RowsAreSettled, IdsKnown, DrawnBefore, OldestLotFirst
<1>6. LatestIsCurrent'
  BY <1>1, <1>2 DEF LedgerSerial, LatestIsCurrent
<1>7. NavSeriesSound'
  BY <1>3 DEF LedgerSerial, NavSeriesSound
<1>8. QED  BY <1>1, <1>2, <1>4, <1>5, <1>6, <1>7 DEF LedgerSerial

(* The process's own moves, as long as the ledger stays. *)
LEMMA SerialMoves ==
  ASSUME OneAtATime, CoreInv, ValuesInv, SerialInv, NEW p \in Procs, UNCHANGED ledgerVars,
         \/ \E plan \in Plans : Submit(p, plan)
         \/ Validate(p) \/ Trade(p) \/ ReadCash(p) \/ ReadLots(p) \/ ComputeNav(p)
         \/ KeepNav(p) \/ Leave(p)
  PROVE  SerialInv'
<1> USE DEF CoreInv, CoreTypeOK, ProcsTypeOK
<1>1. /\ LedgerSerial'
      /\ \A d : Overtaken(d)' = Overtaken(d) /\ MarketValue(d)' = MarketValue(d)
      /\ \A d, c, m : NavFor(d, c, m)' = NavFor(d, c, m)
      /\ cash' = cash
  BY LedgerStays DEF SerialInv, ledgerVars
<1>2. \A q \in Procs : q = p
  BY DEF OneAtATime
<1>3. ASSUME pc'[p] \in {"opening"} \cup Working => ~Overtaken(job'[p].date)
      PROVE  WorksOnLatest'
  BY <1>1, <1>2, <1>3 DEF WorksOnLatest
<1>4. ASSUME pc'[p] \in {"pricing", "recording", "inserting"} => draft'[p].cash = cash,
             pc'[p] \in {"recording", "inserting"} =>
               draft'[p].market = MarketValue(job'[p].date),
             pc'[p] = "inserting" =>
               draft'[p] = NavFor(job'[p].date, draft'[p].cash, draft'[p].market)
      PROVE  DraftsCurrent'
  <2>1. \A q \in Procs : q = p
    BY <1>2
  <2>2. MarketValue(job[p].date)' = MarketValue(job'[p].date)
    BY DEF MarketValue, Held, ledgerVars
  <2>3. NavFor(job[p].date, draft[p].cash, draft[p].market)'
          = NavFor(job'[p].date, draft'[p].cash, draft'[p].market)
    BY DEF NavFor, Earlier, ledgerVars
  <2>4. QED  BY <1>1, <1>4, <2>1, <2>2, <2>3 DEF DraftsCurrent
<1>5. CASE pc'[p] \in {"idle", "validating"}
  BY <1>1, <1>3, <1>4, <1>5 DEF Working, SerialInv
<1>6. CASE Validate(p)
  <2>1. pc'[p] = "opening" /\ job' = job /\ ~Overtaken(job[p].date)
    BY <1>6 DEF Validate, Goto
  <2>2. QED  BY <1>1, <1>3, <1>4, <2>1 DEF SerialInv
<1>7. CASE pc[p] \in Working /\ pc'[p] \in {"trading", "closing"} /\ job' = job
  <2>1. ~Overtaken(job'[p].date)
    BY <1>7 DEF SerialInv, WorksOnLatest
  <2>2. QED  BY <1>1, <1>3, <1>4, <1>7, <2>1 DEF SerialInv
<1>8. CASE ReadCash(p)
  <2>1. /\ pc[p] = "trading" /\ pc'[p] = "pricing" /\ job' = job
        /\ draft'[p] = [cash |-> cash, market |-> 0]
    BY <1>8 DEF ReadCash, Goto
  <2>2. ~Overtaken(job'[p].date)
    BY <2>1 DEF SerialInv, WorksOnLatest, Working
  <2>3. QED  BY <1>1, <1>3, <1>4, <2>1, <2>2 DEF SerialInv
<1>9. CASE ReadLots(p)
  <2>1. /\ pc[p] = "pricing" /\ pc'[p] = "recording" /\ job' = job
        /\ draft'[p] = [draft[p] EXCEPT !.market = MarketValue(job[p].date)]
    BY <1>9 DEF ReadLots, Goto
  <2>2. draft[p] \in Reading
    BY <2>1 DEF ValuesInv
  <2>3. draft'[p].cash = draft[p].cash /\ draft'[p].market = MarketValue(job[p].date)
    BY <2>1, <2>2 DEF Reading
  <2>4. ~Overtaken(job'[p].date) /\ draft[p].cash = cash
    BY <2>1 DEF SerialInv, WorksOnLatest, DraftsCurrent, Working
  <2>5. QED  BY <1>1, <1>3, <1>4, <2>1, <2>3, <2>4 DEF SerialInv
<1>10. CASE ComputeNav(p)
  <2> DEFINE row == NavFor(job[p].date, draft[p].cash, draft[p].market)
  <2>1. /\ pc[p] = "recording" /\ pc'[p] = "inserting" /\ job' = job
        /\ draft'[p] = row
    BY <1>10 DEF ComputeNav, Goto
  <2>2. row.cash = draft[p].cash /\ row.market = draft[p].market
    BY DEF NavFor
  <2>3. /\ ~Overtaken(job'[p].date) /\ draft[p].cash = cash
        /\ draft[p].market = MarketValue(job[p].date)
    BY <2>1 DEF SerialInv, WorksOnLatest, DraftsCurrent, Working
  <2>4. draft'[p] = NavFor(job'[p].date, draft'[p].cash, draft'[p].market)
    BY <2>1, <2>2
  <2>5. draft'[p].cash = cash /\ draft'[p].market = MarketValue(job'[p].date)
    BY <2>1, <2>2, <2>3
  <2> HIDE DEF row
  <2>6. QED  BY <1>1, <1>3, <1>4, <2>1, <2>3, <2>4, <2>5 DEF SerialInv
<1>11. CASE Leave(p)
  BY <1>5, <1>11 DEF Leave
<1>12. CASE \E plan \in Plans : Submit(p, plan)
  BY <1>5, <1>12 DEF Submit, Goto
<1>13. CASE Trade(p) \/ KeepNav(p)
  <2>1. pc[p] \in Working /\ pc'[p] \in {"trading", "closing"} /\ job' = job
    BY <1>13 DEF Trade, KeepNav, Goto, Working
  <2>2. QED  BY <1>7, <2>1
<1>14. QED  BY <1>6, <1>8, <1>9, <1>10, <1>11, <1>12, <1>13

(* Opening the account changes the cash only before there is anything else. *)
LEMMA SerialOpenAccount ==
  ASSUME CoreInv, ValuesInv, SerialInv, OpenAccount
  PROVE  SerialInv'
<1> USE DEF CoreInv, CoreTypeOK, ProcsTypeOK, OpenAccount, EnsureAccount, procVars
<1>1. UNCHANGED <<lots, orders, sessions, nav, pc, job, draft>>
  OBVIOUS
<1>2. cash' # Absent
  BY AccountAssumption, AbsentAssumption
<1>3. \A d : Overtaken(d)' = Overtaken(d) /\ MarketValue(d)' = MarketValue(d)
  BY <1>1 DEF Overtaken, MarketValue, Held
<1>4. \A row \in nav : cash' = cash
  <2>1. ASSUME NEW row \in nav, cash = Absent PROVE FALSE
    <3>1. sessions[row.date] # Absent /\ \A d \in Dates : sessions[d] = Absent
      BY <2>1 DEF SerialInv, LedgerSerial, OpenedFirst, RowsAreSettled
    <3>2. row.date \in Dates
      BY <2>1 DEF ValuesInv, NavRow
    <3>3. QED  BY <3>1, <3>2
  <2>2. QED  BY <2>1
<1>5. LedgerSerial'
  <2>1. OpenedFirst'
    BY <1>2 DEF OpenedFirst
  <2>2. RowsAreSettled' /\ DrawnBefore' /\ OldestLotFirst'
    BY <1>1 DEF SerialInv, LedgerSerial, RowsAreSettled, IdsKnown, DrawnBefore, OldestLotFirst
  <2>3. NavSeriesSound'
    BY <1>1 DEF SerialInv, LedgerSerial, NavSeriesSound, Earlier
  <2>4. LatestIsCurrent'
    BY <1>1, <1>3, <1>4 DEF SerialInv, LedgerSerial, LatestIsCurrent
  <2>5. QED  BY <2>1, <2>2, <2>3, <2>4 DEF LedgerSerial
<1>6. WorksOnLatest'
  BY <1>1 DEF SerialInv, WorksOnLatest, Overtaken
<1>7. DraftsCurrent'
  <2>1. \A p \in Procs : pc[p] \in {"pricing", "recording", "inserting"} => cash' = cash
    BY DEF AccountOpen, Working
  <2>2. DraftsCurrent
    BY DEF SerialInv
  <2>3. ASSUME NEW p \in Procs
        PROVE  /\ MarketValue(job[p].date)' = MarketValue(job[p].date)
               /\ NavFor(job[p].date, draft[p].cash, draft[p].market)'
                    = NavFor(job[p].date, draft[p].cash, draft[p].market)
    BY <1>1 DEF MarketValue, Held, NavFor, Earlier
  <2>4. QED  BY <1>1, <2>1, <2>2, <2>3 DEF DraftsCurrent
<1>8. QED  BY <1>5, <1>6, <1>7 DEF SerialInv

(* Opening or closing the session of the latest date overtakes nothing. *)
LEMMA SerialSession ==
  ASSUME OneAtATime, CoreInv, SettlementInv, ValuesInv, SerialInv, NEW p \in Procs,
         Begin(p) \/ Finish(p), RowsStay
  PROVE  SerialInv'
<1> USE DEF CoreInv, CoreTypeOK, ProcsTypeOK
<1>1. UNCHANGED <<cash, lots, orders, nav>> /\ job[p] \in Plans /\ job[p].date \in Dates
  BY PlansAssumption DEF Begin, BeginSession, Finish, CompleteSession
<1>2. \A q \in Procs : q = p
  BY DEF OneAtATime
<1>3. \A d \in Dates : /\ sessions[d] # Absent => sessions'[d] # Absent /\ sessions'[d].plan = sessions[d].plan
                       /\ sessions'[d] # Absent => sessions[d] # Absent \/ d = job[p].date
  BY <1>1 DEF RowsStay, Begin, BeginSession, Finish, CompleteSession, BooksTypeOK
<1>4. \A d : Overtaken(d) => Overtaken(d)'
  BY <1>3 DEF Overtaken
<1>5. /\ pc'[p] \in {"trading", "idle"}
      /\ pc'[p] = "trading" => /\ pc[p] = "opening" /\ job' = job
  BY DEF Begin, Finish, Goto, Leave
<1>6. \A row \in nav : row.date \in Dates
  BY DEF ValuesInv, NavRow
<1>7. cash # Absent
  BY DEF Begin, BeginSession, SessionRefused, Finish, AccountOpen, Working
<1>8. LedgerSerial'
  <2>1. OpenedFirst'
    BY <1>1, <1>7 DEF OpenedFirst
  <2>2. RowsAreSettled'
    <3>1. ASSUME NEW row \in nav
          PROVE  sessions'[row.date] # Absent /\ sessions'[row.date].plan = sessions[row.date].plan
                 /\ IdsKnown(sessions[row.date].plan)
      BY <1>3, <1>6 DEF SerialInv, LedgerSerial, RowsAreSettled
    <3>2. \A row, other \in nav : row.date = other.date => row = other
      BY DEF SerialInv, LedgerSerial, RowsAreSettled
    <3>3. nav' = nav /\ orders' = orders
      BY <1>1
    <3>4. ASSUME NEW row \in nav
          PROVE  sessions'[row.date] # Absent /\ IdsKnown(sessions[row.date].plan)'
      <4>1. PICK plan : plan = sessions[row.date].plan
        OBVIOUS
      <4>2. sessions'[row.date] # Absent /\ sessions'[row.date].plan = plan /\ IdsKnown(plan)
        BY <3>1, <4>1
      <4>3. QED  BY <3>3, <4>2 DEF IdsKnown
    <3>5. QED  BY <3>2, <3>3, <3>4 DEF RowsAreSettled
  <2>3. DrawnBefore' /\ OldestLotFirst'
    BY <1>1, <1>3 DEF SerialInv, LedgerSerial, DrawnBefore, OldestLotFirst
  <2>4. NavSeriesSound'
    BY <1>1 DEF SerialInv, LedgerSerial, NavSeriesSound, Earlier
  <2>5. LatestIsCurrent'
    <3>1. ASSUME NEW row \in nav, ~Overtaken(row.date)'
          PROVE  row.cash = cash /\ row.market = MarketValue(row.date)
      BY <1>4, <3>1 DEF SerialInv, LedgerSerial, LatestIsCurrent
    <3>2. \A d : MarketValue(d)' = MarketValue(d)
      BY <1>1 DEF MarketValue, Held
    <3>3. QED  BY <1>1, <3>1, <3>2 DEF LatestIsCurrent
  <2>6. QED  BY <2>1, <2>2, <2>3, <2>4, <2>5 DEF LedgerSerial
<1>9. WorksOnLatest'
  <2>1. ASSUME pc'[p] = "trading" PROVE ~Overtaken(job[p].date)'
    <3>1. ~Overtaken(job[p].date)
      BY <1>5, <2>1 DEF SerialInv, WorksOnLatest
    <3>2. \A e \in Dates : e > job[p].date => sessions'[e] = Absent
      BY <1>1, <1>3, <3>1, DatesAssumption DEF Overtaken
    <3>3. job' = job
      BY <1>5, <2>1
    <3>4. QED  BY <3>2, <3>3 DEF Overtaken
  <2>2. QED  BY <1>2, <1>5, <2>1 DEF WorksOnLatest, Working
<1>10. DraftsCurrent'
  BY <1>2, <1>5 DEF DraftsCurrent
<1>11. QED  BY <1>8, <1>9, <1>10 DEF SerialInv

(* An order that takes effect finds no NAV of its date or of a later one. *)
LEMMA NothingValuedYet ==
  ASSUME CoreInv, SettlementInv, ValuesInv, SerialInv, NEW p \in Procs, Trade(p),
         ~Recorded(NextOrder(p))
  PROVE  \A row \in nav : Overtaken(row.date)
<1> USE DEF CoreInv, CoreTypeOK, ProcsTypeOK
<1>1. /\ pc[p] = "trading" /\ job[p] \in Plans /\ job[p].date \in Dates /\ job[p].date \in Nat
      /\ cursor[p] \in 1..Len(job[p].orders)
  BY PlansAssumption, DatesAssumption DEF Trade
<1>2. ~Overtaken(job[p].date) /\ sessions[job[p].date] # Absent /\ sessions[job[p].date].plan = job[p]
  BY <1>1 DEF SerialInv, WorksOnLatest, SettlementInv, WorkerOwns, Working
<1>3. ~IdsKnown(job[p])
  BY <1>1 DEF IdsKnown, Recorded, NextOrder
<1>4. ASSUME NEW row \in nav PROVE Overtaken(row.date)
  <2>1. row.date \in Dates /\ row.date \in Nat
    BY DatesAssumption DEF ValuesInv, NavRow
  <2>2. sessions[row.date] # Absent /\ IdsKnown(sessions[row.date].plan)
    BY DEF SerialInv, LedgerSerial, RowsAreSettled
  <2>3. row.date # job[p].date
    BY <1>2, <1>3, <2>2
  <2>4. ~(row.date > job[p].date)
    BY <1>2, <2>1, <2>2 DEF Overtaken
  <2>5. job[p].date > row.date
    BY <1>1, <2>1, <2>3, <2>4
  <2>6. QED  BY <1>1, <1>2, <2>5 DEF Overtaken
<1>5. QED  BY <1>4

(* A purchase adds the youngest lot, a sale empties the older ones first. *)
LEMMA LotsInOrder ==
  ASSUME CoreInv, SettlementInv, SerialInv, NEW p \in Procs, Trade(p),
         FillBuy(job[p], NextOrder(p)) \/ FillSell(job[p], NextOrder(p))
  PROVE  DrawnBefore' /\ OldestLotFirst'
<1> USE DEF CoreInv, CoreTypeOK, ProcsTypeOK
<1> DEFINE o == NextOrder(p)
           t == job[p].date
<1>1. /\ pc[p] = "trading" /\ t \in Dates /\ t \in Nat
      /\ ~Overtaken(t) /\ sessions[t] # Absent
  BY PlansAssumption, DatesAssumption
  DEF Trade, SerialInv, WorksOnLatest, SettlementInv, WorkerOwns, Working
<1>2. o \in Order
  <2>1. Records(p, "FILLED")
    BY DEF Records, FillBuy, FillSell
  <2>2. QED  BY <2>1, RecordsOrder
<1>3. sessions' = sessions
  BY DEF FillBuy, FillSell
<1>4. DrawnBefore /\ OldestLotFirst
  BY DEF SerialInv, LedgerSerial
<1>5. /\ DOMAIN lots = 1..Len(lots) /\ Len(lots) \in Nat
      /\ \A i \in DOMAIN lots : /\ lots[i].acquired \in Nat
                                /\ lots[i].volume \in Nat /\ lots[i].remaining \in Nat
      /\ lots \in Seq(Lot)
  <2>1. \A i \in DOMAIN lots : lots[i] \in Lot
    BY LotTypes
  <2>2. QED  BY <2>1, LotTypes DEF Lot, BooksTypeOK
<1>6. \A e \in Dates : sessions[e] # Absent => e <= t
  BY <1>1, DatesAssumption DEF Overtaken
<1>7. CASE FillBuy(job[p], o)
  <2> DEFINE n == Len(lots) + 1
             lot == [symbol |-> o.symbol, acquired |-> t,
                     volume |-> o.volume, remaining |-> o.volume]
  <2>1. lots' = Append(lots, lot)
    BY <1>7 DEF FillBuy
  <2>2. /\ DOMAIN lots' = DOMAIN lots \cup {n} /\ n \notin DOMAIN lots
        /\ lots'[n] = lot /\ \A i \in DOMAIN lots : lots'[i] = lots[i] /\ i < n
    <3> HIDE DEF lot
    <3>1. /\ Len(lots') = n /\ DOMAIN lots' = 1..n
          /\ lots'[n] = lot /\ \A i \in 1..Len(lots) : lots'[i] = lots[i]
      BY <1>5, <2>1
    <3>2. QED  BY <1>5, <3>1
  <2>3. lots'[n].symbol = o.symbol /\ lots'[n].acquired = t /\ lots'[n].remaining = lots'[n].volume
    BY <2>2
  <2>4. n \in Nat
    BY <1>5
  <2> HIDE DEF n, lot, o, t
  <2>5. DrawnBefore'
    <3>1. ASSUME NEW i \in DOMAIN lots', lots'[i].remaining # lots'[i].volume
          PROVE  \E d \in Dates : sessions[d] # Absent /\ lots'[i].acquired < d
      <4>1. i \in DOMAIN lots /\ lots'[i] = lots[i]
        BY <2>2, <2>3, <3>1
      <4>2. QED  BY <1>4, <3>1, <4>1 DEF DrawnBefore
    <3>2. QED  BY <1>3, <3>1 DEF DrawnBefore
  <2>6. OldestLotFirst'
    <3>1. ASSUME NEW i \in DOMAIN lots', NEW j \in DOMAIN lots',
                 lots'[i].symbol = lots'[j].symbol, lots'[i].remaining > 0,
                 \/ lots'[i].acquired < lots'[j].acquired
                 \/ lots'[i].acquired = lots'[j].acquired /\ i < j
          PROVE  lots'[j].remaining = lots'[j].volume
      <4>1. CASE j = n
        BY <2>3, <4>1
      <4>2. CASE j \in DOMAIN lots /\ i \in DOMAIN lots
        BY <1>4, <2>2, <3>1, <4>2 DEF OldestLotFirst
      <4>3. CASE j \in DOMAIN lots /\ i = n
        <5>1. lots'[j] = lots[j] /\ j < n /\ lots[j].acquired \in Nat /\ j \in Nat
          BY <1>5, <2>2, <4>3
        <5>2. t < lots[j].acquired
          BY <2>3, <2>4, <3>1, <4>3, <5>1
        <5>3. ~\E d \in Dates : sessions[d] # Absent /\ lots[j].acquired < d
          BY <1>1, <1>6, <5>1, <5>2, DatesAssumption DEF t
        <5>4. QED  BY <1>4, <4>3, <5>1, <5>3 DEF DrawnBefore
      <4>4. QED  BY <2>2, <4>1, <4>2, <4>3
    <3>2. QED  BY <3>1 DEF OldestLotFirst
  <2>7. QED  BY <2>5, <2>6
<1>8. CASE FillSell(job[p], o)
  <2> DEFINE avail == AvailableLots(o.symbol, t)
  <2>1. PICK taken \in [DOMAIN lots -> 0..o.volume] :
          /\ \A i \in DOMAIN lots : taken[i] <= lots[i].remaining
          /\ \A i \in DOMAIN lots \ avail : taken[i] = 0
          /\ \A i, j \in avail : Ahead(i, j) /\ taken[j] > 0 => taken[i] = lots[i].remaining
          /\ lots' = [i \in DOMAIN lots |-> [lots[i] EXCEPT !.remaining = @ - taken[i]]]
    BY <1>8 DEF FillSell, DrawnFIFO
  <2>2. DOMAIN lots' = DOMAIN lots
    BY <2>1
  <2>3. ASSUME NEW i \in DOMAIN lots
        PROVE  /\ lots'[i].symbol = lots[i].symbol /\ lots'[i].acquired = lots[i].acquired
               /\ lots'[i].volume = lots[i].volume /\ taken[i] \in Nat
               /\ lots'[i].remaining = lots[i].remaining - taken[i]
    <3>1. lots[i] \in Lot
      BY <1>5
    <3>2. taken[i] \in Nat
      BY <1>2, <2>1 DEF Order
    <3>3. QED  BY <2>1, <3>1, <3>2 DEF Lot
  <2>4. \A i \in DOMAIN lots : i \in avail <=>
          lots[i].symbol = o.symbol /\ lots[i].acquired < t /\ lots[i].remaining > 0
    BY DEF AvailableLots
  <2> HIDE DEF avail, o, t
  <2>5. DrawnBefore'
    <3>1. ASSUME NEW i \in DOMAIN lots, lots'[i].remaining # lots'[i].volume
          PROVE  \E d \in Dates : sessions[d] # Absent /\ lots[i].acquired < d
      <4>1. CASE i \in avail
        BY <1>1, <2>4, <4>1 DEF t
      <4>2. CASE i \notin avail
        <5>1. taken[i] = 0
          BY <2>1, <4>2
        <5>2. lots[i].remaining # lots[i].volume
          BY <1>5, <2>3, <3>1, <5>1
        <5>3. QED  BY <1>4, <5>2 DEF DrawnBefore
      <4>3. QED  BY <4>1, <4>2
    <3>2. QED  BY <1>3, <2>2, <2>3, <3>1 DEF DrawnBefore
  <2>6. OldestLotFirst'
    <3>1. ASSUME NEW i \in DOMAIN lots, NEW j \in DOMAIN lots,
                 lots[i].symbol = lots[j].symbol, lots'[i].remaining > 0,
                 \/ lots[i].acquired < lots[j].acquired
                 \/ lots[i].acquired = lots[j].acquired /\ i < j
          PROVE  lots'[j].remaining = lots'[j].volume
      <4>1. lots[i].remaining > 0 /\ lots[i].remaining # taken[i]
        BY <1>5, <2>3, <3>1
      <4>2. lots[j].remaining = lots[j].volume
        BY <1>4, <3>1, <4>1 DEF OldestLotFirst
      <4>3. taken[j] = 0
        <5>1. SUFFICES ASSUME taken[j] # 0 PROVE FALSE
          OBVIOUS
        <5>2. j \in avail /\ taken[j] > 0
          BY <2>1, <2>3, <5>1
        <5>3. lots[i].acquired <= lots[j].acquired
          BY <1>5, <3>1
        <5>4. lots[i].acquired < t
          BY <1>1, <1>5, <2>4, <5>2, <5>3 DEF t
        <5>5. i \in avail
          BY <2>4, <3>1, <4>1, <5>2, <5>4
        <5>6. Ahead(i, j)
          BY <3>1 DEF Ahead
        <5>7. QED  BY <2>1, <4>1, <5>2, <5>5, <5>6
      <4>4. QED  BY <1>5, <2>3, <4>2, <4>3
    <3>2. QED  BY <2>2, <2>3, <3>1 DEF OldestLotFirst
  <2>7. QED  BY <2>5, <2>6
<1>9. QED  BY <1>7, <1>8

LEMMA SerialRecords ==
  ASSUME OneAtATime, CoreInv, SettlementInv, ValuesInv, SerialInv, NEW p \in Procs, Trade(p),
         \/ RecordUnfilled(job[p], NextOrder(p))
         \/ FillBuy(job[p], NextOrder(p))
         \/ FillSell(job[p], NextOrder(p)),
         RowsStay
  PROVE  SerialInv'
<1> USE DEF CoreInv, CoreTypeOK, ProcsTypeOK
<1>1. /\ UNCHANGED <<sessions, nav, pc, job, draft>> /\ ~Recorded(NextOrder(p))
      /\ pc[p] = "trading" /\ job[p] \in Plans
  BY DEF Trade, RecordUnfilled, FillBuy, FillSell
<1>2. \A q \in Procs : q = p
  BY DEF OneAtATime
<1>3. \A d : Overtaken(d)' = Overtaken(d)
  BY <1>1 DEF Overtaken
<1>4. OpenedFirst'
  <2>1. cash # Absent /\ cash \in Nat
    BY <1>1 DEF AccountOpen, Working, BooksTypeOK
  <2>2. cash' # Absent
    <3>1. CASE RecordUnfilled(job[p], NextOrder(p))
      BY <2>1, <3>1 DEF RecordUnfilled
    <3>2. CASE FillBuy(job[p], NextOrder(p)) \/ FillSell(job[p], NextOrder(p))
      <4>1. Records(p, "FILLED")
        BY <3>2 DEF Records, FillBuy, FillSell
      <4>2. Required(NextOrder(p)) \in Int /\ Proceeds(NextOrder(p)) \in Int
        <5>1. NextOrder(p) \in Order
          BY <4>1, RecordsOrder
        <5>2. QED  BY <5>1, FeeTypes
      <4>3. cash' \in Nat
        BY <2>1, <3>2, <4>2 DEF FillBuy, FillSell, Covered
      <4>4. QED  BY <4>3, AbsentAssumption
    <3>3. QED  BY <3>1, <3>2
  <2>3. QED  BY <2>2 DEF OpenedFirst
<1>5. RowsAreSettled'
  <2>1. ASSUME NEW row \in nav
        PROVE  sessions[row.date] # Absent /\ IdsKnownAfter(sessions[row.date].plan)
    <3>1. sessions[row.date] # Absent /\ IdsKnown(sessions[row.date].plan) /\ row.date \in Dates
      BY DEF SerialInv, LedgerSerial, RowsAreSettled, ValuesInv, NavRow
    <3>2. sessions[row.date].plan \in Plans
      BY <3>1 DEF BooksTypeOK, Session
    <3>3. QED  BY <3>1, <3>2, IdsStayKnown
  <2>2. \A row, other \in nav : row.date = other.date => row = other
    BY DEF SerialInv, LedgerSerial, RowsAreSettled
  <2>3. QED  BY <1>1, <2>1, <2>2 DEF RowsAreSettled, IdsKnown, IdsKnownAfter
<1>6. DrawnBefore' /\ OldestLotFirst'
  <2>1. CASE RecordUnfilled(job[p], NextOrder(p))
    <3>1. lots' = lots
      BY <2>1 DEF RecordUnfilled
    <3>2. QED  BY <1>1, <3>1 DEF SerialInv, LedgerSerial, DrawnBefore, OldestLotFirst
  <2>2. CASE FillBuy(job[p], NextOrder(p)) \/ FillSell(job[p], NextOrder(p))
    BY <2>2, LotsInOrder
  <2>3. QED  BY <2>1, <2>2
<1>7. NavSeriesSound'
  BY <1>1 DEF SerialInv, LedgerSerial, NavSeriesSound, Earlier
<1>8. LatestIsCurrent'
  <2>1. \A row \in nav : Overtaken(row.date)
    BY <1>1, NothingValuedYet
  <2>2. QED  BY <1>1, <1>3, <2>1 DEF LatestIsCurrent
<1>9. WorksOnLatest'
  BY <1>1 DEF SerialInv, WorksOnLatest, Overtaken
<1>10. DraftsCurrent'
  BY <1>1, <1>2 DEF DraftsCurrent
<1>11. QED  BY <1>4, <1>5, <1>6, <1>7, <1>8, <1>9, <1>10 DEF SerialInv, LedgerSerial

(* A NAV row is stored after all rows of earlier dates, at the books as they stand. *)
LEMMA SerialStoreNav ==
  ASSUME OneAtATime, CoreInv, SettlementInv, ValuesInv, SerialInv, NEW p \in Procs, StoreNav(p)
  PROVE  SerialInv'
<1> USE DEF CoreInv, CoreTypeOK, ProcsTypeOK
<1> DEFINE row == draft[p]
           t == job[p].date
<1>1. /\ UNCHANGED <<cash, lots, orders, sessions, job>> /\ pc[p] = "inserting"
      /\ pc'[p] = "closing" /\ nav' = nav \cup {row} /\ row.date \notin Days
      /\ t \in Dates /\ t \in Nat /\ job[p] \in Plans
  BY PlansAssumption, DatesAssumption DEF StoreNav, InsertNav, Goto
<1>2. \A q \in Procs : q = p
  BY DEF OneAtATime
<1>3. /\ row = NavFor(t, row.cash, row.market) /\ row.cash = cash
      /\ row.market = MarketValue(t) /\ row.date = t /\ ~Overtaken(t)
      /\ sessions[t] # Absent /\ sessions[t].plan = job[p] /\ IdsKnown(job[p])
  <2>1. /\ row.cash = cash /\ row.market = MarketValue(t)
        /\ row = NavFor(t, row.cash, row.market) /\ ~Overtaken(t)
    BY <1>1 DEF SerialInv, DraftsCurrent, WorksOnLatest, Working
  <2>2. NavFor(t, row.cash, row.market).date = t
    BY DEF NavFor
  <2>3. row.date = t
    BY <1>1 DEF SettlementInv, WorkerProgress
  <2>4. sessions[t] # Absent /\ sessions[t].plan = job[p] /\ IdsKnown(job[p])
    BY <1>1 DEF SettlementInv, WorkerOwns, WorkerProgress, Working
  <2>5. QED  BY <2>1, <2>3, <2>4
<1>4. \A d : Overtaken(d)' = Overtaken(d) /\ MarketValue(d)' = MarketValue(d)
  BY <1>1 DEF Overtaken, MarketValue, Held
<1>5. ASSUME NEW other \in nav PROVE other.date < t
  <2>1. other.date \in Dates /\ other.date \in Nat
    BY DatesAssumption DEF ValuesInv, NavRow
  <2>2. sessions[other.date] # Absent
    BY DEF SerialInv, LedgerSerial, RowsAreSettled
  <2>3. ~(other.date > t)
    BY <1>3, <2>1, <2>2 DEF Overtaken
  <2>4. other.date # t
    BY <1>1, <1>3 DEF Days
  <2>5. QED  BY <1>1, <2>1, <2>3, <2>4
<1>6. Earlier(t) = nav
  BY <1>5 DEF Earlier
<1>7. RowsAreSettled'
  <2>1. \A other \in nav' : sessions[other.date] # Absent /\ IdsKnown(sessions[other.date].plan)
    BY <1>1, <1>3 DEF SerialInv, LedgerSerial, RowsAreSettled
  <2>2. \A other, another \in nav' : other.date = another.date => other = another
    BY <1>1 DEF SerialInv, LedgerSerial, RowsAreSettled, Days
  <2>3. QED  BY <1>1, <2>1, <2>2 DEF RowsAreSettled, IdsKnown
<1>8. OpenedFirst' /\ DrawnBefore' /\ OldestLotFirst'
  BY <1>1 DEF SerialInv, LedgerSerial, OpenedFirst, DrawnBefore, OldestLotFirst
<1>9. LatestIsCurrent'
  <2>1. ASSUME NEW other \in nav', ~Overtaken(other.date)
        PROVE  other.cash = cash /\ other.market = MarketValue(other.date)
    BY <1>1, <1>3, <2>1 DEF SerialInv, LedgerSerial, LatestIsCurrent
  <2>2. QED  BY <1>1, <1>4, <2>1 DEF LatestIsCurrent
<1>10. NavSeriesSound'
  <2>1. ASSUME NEW d \in Nat, d <= t
        PROVE  Earlier(d)' = Earlier(d)
    <3>1. ~(t < d)
      BY <1>1, <2>1
    <3>2. QED  BY <1>1, <1>3, <3>1 DEF Earlier
  <2>2. ASSUME NEW other \in nav
        PROVE  /\ other.previous = IF Earlier(other.date)' = {} THEN 0
                                   ELSE Equity(Latest(Earlier(other.date)'))
               /\ other.peak = Max({Equity(x) : x \in Earlier(other.date)' \cup {other}})
    <3>1. other.date \in Nat /\ other.date <= t
      BY <1>1, <1>5, DatesAssumption DEF ValuesInv, NavRow
    <3>2. Earlier(other.date)' = Earlier(other.date)
      BY <2>1, <3>1
    <3>3. QED  BY <3>2 DEF SerialInv, LedgerSerial, NavSeriesSound
  <2>3. Earlier(t)' = nav
    <3>1. {other \in nav \cup {row} : other.date < t} = nav
      BY <1>1, <1>3, <1>5
    <3>2. QED  BY <1>1, <3>1 DEF Earlier
  <2>4. /\ row.previous = IF nav = {} THEN 0 ELSE Equity(Latest(nav))
        /\ row.peak = Max({row.cash + row.market} \cup {Equity(x) : x \in nav})
    BY <1>3, <1>6 DEF NavFor
  <2>5. {row.cash + row.market} \cup {Equity(x) : x \in nav} = {Equity(x) : x \in nav \cup {row}}
    BY DEF Equity
  <2>6. \A other \in nav' :
          /\ other.previous = IF Earlier(other.date)' = {} THEN 0
                              ELSE Equity(Latest(Earlier(other.date)'))
          /\ other.peak = Max({Equity(x) : x \in Earlier(other.date)' \cup {other}})
    <3>1. /\ row.previous = IF Earlier(t)' = {} THEN 0 ELSE Equity(Latest(Earlier(t)'))
          /\ row.peak = Max({Equity(x) : x \in Earlier(t)' \cup {row}})
      BY <2>3, <2>4, <2>5
    <3>2. QED  BY <1>1, <1>3, <2>2, <3>1
  <2>7. QED  BY <2>6 DEF NavSeriesSound
<1>11. WorksOnLatest'
  <2>1. ~Overtaken(job[p].date)'
    BY <1>1, <1>3 DEF Overtaken
  <2>2. QED  BY <1>1, <1>2, <2>1 DEF WorksOnLatest
<1>12. DraftsCurrent'
  BY <1>1, <1>2 DEF DraftsCurrent
<1>13. QED  BY <1>7, <1>8, <1>9, <1>10, <1>11, <1>12 DEF SerialInv, LedgerSerial

LEMMA SerialStep ==
  ASSUME OneAtATime, CoreInv, SettlementInv, ValuesInv, SerialInv, [Next]_vars
  PROVE  SerialInv'
<1>1. RowsStay
  BY StepKeepsRows
<1>2. CASE OpenAccount
  BY <1>2, SerialOpenAccount
<1>3. ASSUME NEW p \in Procs, Begin(p) \/ Finish(p)
      PROVE  SerialInv'
  BY <1>1, <1>3, SerialSession
<1>4. ASSUME NEW p \in Procs, Trade(p)
      PROVE  SerialInv'
  <2>1. CASE AnswerDuplicate(NextOrder(p))
    BY <1>4, <2>1, SerialMoves DEF AnswerDuplicate
  <2>2. CASE \/ RecordUnfilled(job[p], NextOrder(p))
             \/ FillBuy(job[p], NextOrder(p))
             \/ FillSell(job[p], NextOrder(p))
    BY <1>1, <1>4, <2>2, SerialRecords
  <2>3. QED  BY <1>4, <2>1, <2>2 DEF Trade, ExecuteOrder
<1>5. ASSUME NEW p \in Procs, StoreNav(p)
      PROVE  SerialInv'
  BY <1>5, SerialStoreNav
<1>6. ASSUME NEW p \in Procs,
             \/ \E plan \in Plans : Submit(p, plan)
             \/ Validate(p) \/ ReadCash(p) \/ ReadLots(p) \/ ComputeNav(p) \/ KeepNav(p)
      PROVE  SerialInv'
  <2>1. UNCHANGED ledgerVars
    BY <1>6 DEF Submit, Validate, ReadCash, ReadLots, ComputeNav, KeepNav
  <2>2. QED  BY <1>6, <2>1, SerialMoves
<1>7. ASSUME NEW p \in Procs,
             \/ RefuseOvertaken(p) \/ RefuseSession(p) \/ RaiseInTrade(p)
             \/ RaiseUnpriced(p) \/ RefuseNav(p) \/ RaiseSecondNav(p) \/ Crash(p)
      PROVE  SerialInv'
  <2>1. UNCHANGED ledgerVars /\ Leave(p)
    BY <1>7 DEF RefuseOvertaken, RefuseSession, RaiseInTrade, RaiseUnpriced, RefuseNav,
                RaiseSecondNav, Crash
  <2>2. QED  BY <2>1, SerialMoves
<1>8. CASE UNCHANGED vars
  <2>1. UNCHANGED ledgerVars /\ UNCHANGED <<pc, job, draft>>
    BY <1>8 DEF vars, procVars
  <2>2. LedgerSerial'
    BY <2>1, LedgerStays DEF SerialInv
  <2>3. WorksOnLatest'
    BY <2>1 DEF SerialInv, WorksOnLatest, Overtaken, ledgerVars
  <2>4. DraftsCurrent'
    <3>1. ASSUME NEW p \in Procs
          PROVE  /\ MarketValue(job[p].date)' = MarketValue(job[p].date)
                 /\ NavFor(job[p].date, draft[p].cash, draft[p].market)'
                      = NavFor(job[p].date, draft[p].cash, draft[p].market)
      BY <2>1 DEF MarketValue, Held, NavFor, Earlier, ledgerVars
    <3>2. cash' = cash
      BY <2>1 DEF ledgerVars
    <3>3. QED  BY <2>1, <3>1, <3>2 DEF SerialInv, DraftsCurrent
  <2>5. QED  BY <2>2, <2>3, <2>4 DEF SerialInv
<1>9. QED  BY <1>2, <1>3, <1>4, <1>5, <1>6, <1>7, <1>8 DEF Next, Step

LEMMA SerialInvariant ==
  ASSUME OneAtATime
  PROVE  Spec => []SerialInv
<1>1. Init => SerialInv
  <2> SUFFICES ASSUME Init PROVE SerialInv
    OBVIOUS
  <2> USE DEF Init, LedgerInit
  <2>1. OpenedFirst /\ RowsAreSettled /\ LatestIsCurrent /\ NavSeriesSound
    BY DEF OpenedFirst, RowsAreSettled, LatestIsCurrent, NavSeriesSound
  <2>2. DrawnBefore /\ OldestLotFirst
    BY AccountAssumption DEF DrawnBefore, OldestLotFirst
  <2>3. WorksOnLatest /\ DraftsCurrent
    BY DEF WorksOnLatest, DraftsCurrent, Working
  <2>4. QED  BY <2>1, <2>2, <2>3 DEF SerialInv, LedgerSerial
<1>2. CoreInv /\ SettlementInv /\ ValuesInv /\ SerialInv /\ [Next]_vars => SerialInv'
  BY SerialStep
<1>3. QED
  BY <1>1, <1>2, CoreTypeCorrect, SettlementInvariant, ValuesInvariant, PTL DEF Spec

(* Sales consume the oldest lots first, over the whole history (_available_lots). *)
THEOREM OldestLotFirstHolds ==
  ASSUME OneAtATime
  PROVE  Spec => []OldestLotFirst
<1>1. SerialInv => OldestLotFirst
  BY DEF SerialInv, LedgerSerial
<1>2. QED  BY <1>1, SerialInvariant, PTL

(* Every stored return and drawdown is measured against the rows of the earlier     *)
(* dates, all of them and no other: rows are stored in calendar order (record_nav).  *)
THEOREM NavSeriesSoundHolds ==
  ASSUME OneAtATime
  PROVE  Spec => []NavSeriesSound
<1>1. SerialInv => NavSeriesSound
  BY DEF SerialInv, LedgerSerial
<1>2. QED  BY <1>1, SerialInvariant, PTL

(* The NAV of the latest completed date is the value of the books (record_nav between *)
(* the last order and complete_execution_session).                                    *)
THEOREM NavIsClosingBalanceHolds ==
  ASSUME OneAtATime
  PROVE  Spec => []NavIsClosingBalance
<1>1. SettlementInv /\ SerialInv => NavIsClosingBalance
  <2> SUFFICES ASSUME SettlementInv, SerialInv, NEW d \in Dates, sessions[d] # Absent,
                      sessions[d].status = "COMPLETED", ~Overtaken(d)
               PROVE  \E row \in nav : /\ row.date = d /\ row.cash = cash
                                       /\ row.market = MarketValue(d)
    BY DEF NavIsClosingBalance
  <2>1. PICK row \in nav : row.date = d
    BY DEF SettlementInv, CompletedIsSettled, Days
  <2>2. row.cash = cash /\ row.market = MarketValue(d)
    BY <2>1 DEF SerialInv, LedgerSerial, LatestIsCurrent
  <2>3. QED  BY <2>1, <2>2
<1>2. QED  BY <1>1, SettlementInvariant, SerialInvariant, PTL

(* A repeated execution computes the NAV that is stored, whatever was interrupted   *)
(* before: record_nav never refuses it.                                             *)
THEOREM NavRetryAgreesHolds ==
  ASSUME OneAtATime
  PROVE  Spec => []NavRetryAgrees
<1>1. CoreInv /\ ValuesInv /\ SerialInv => NavRetryAgrees
  <2> SUFFICES ASSUME CoreInv, ValuesInv, SerialInv, NEW p \in Procs, pc[p] = "recording",
                      job[p].date \in Days
               PROVE  NavFor(job[p].date, draft[p].cash, draft[p].market) \in nav
    BY DEF NavRetryAgrees, NavRefused, NavKept
  <2> DEFINE t == job[p].date
             c == draft[p].cash
             m == draft[p].market
  <2>1. PICK row \in nav : row.date = t
    BY DEF Days
  <2>2. t \in Dates /\ t \in Nat /\ ~Overtaken(t) /\ c = cash /\ m = MarketValue(t)
    BY PlansAssumption, DatesAssumption
    DEF CoreInv, CoreTypeOK, ProcsTypeOK, SerialInv, WorksOnLatest, DraftsCurrent, Working
  <2>3. row.cash = c /\ row.market = m
    BY <2>1, <2>2 DEF SerialInv, LedgerSerial, LatestIsCurrent
  <2>4. nav = Earlier(t) \cup {row}
    <3>1. ASSUME NEW other \in nav PROVE other.date < t \/ other = row
      <4>1. other.date \in Dates /\ other.date \in Nat
        BY DatesAssumption DEF ValuesInv, NavRow
      <4>2. sessions[other.date] # Absent
        BY DEF SerialInv, LedgerSerial, RowsAreSettled
      <4>3. ~(other.date > t)
        BY <2>2, <4>1, <4>2 DEF Overtaken
      <4>4. other.date = t => other = row
        BY <2>1 DEF SerialInv, LedgerSerial, RowsAreSettled
      <4>5. QED  BY <2>2, <4>1, <4>3, <4>4
    <3>2. QED  BY <3>1 DEF Earlier
  <2>5. /\ row.previous = IF Earlier(t) = {} THEN 0 ELSE Equity(Latest(Earlier(t)))
        /\ row.peak = Max({Equity(other) : other \in Earlier(t) \cup {row}})
    BY <2>1 DEF SerialInv, LedgerSerial, NavSeriesSound
  <2>6. {c + m} \cup {Equity(other) : other \in nav}
          = {Equity(other) : other \in Earlier(t) \cup {row}}
    BY <2>3, <2>4 DEF Equity
  <2>7. row \in NavRow
    BY DEF ValuesInv
  <2>8. row = NavFor(t, c, m)
    <3>1. row = [date |-> row.date, cash |-> row.cash, market |-> row.market,
                 previous |-> row.previous, peak |-> row.peak]
      BY <2>7 DEF NavRow
    <3>2. QED  BY <2>1, <2>3, <2>5, <2>6, <3>1 DEF NavFor
  <2>9. QED  BY <2>8
<1>2. QED  BY <1>1, CoreTypeCorrect, ValuesInvariant, SerialInvariant, PTL

(* Once a later date is opened, no order of an earlier one is recorded any more     *)
(* (validate_trade_date_ordering).                                                  *)
THEOREM DaysInOrderHolds ==
  ASSUME OneAtATime
  PROVE  Spec => DaysInOrder
<1> DEFINE A == \A id \in OrderIds : orders[id] = Absent /\ orders'[id] # Absent =>
                  \A d \in Dates : sessions[d] # Absent => d <= orders'[id].plan.date
<1>1. CoreInv /\ SerialInv /\ [Next]_vars => [A]_vars
  <2> SUFFICES ASSUME CoreInv, SerialInv, [Next]_vars,
                      NEW id \in OrderIds, orders[id] = Absent, orders'[id] # Absent,
                      NEW d \in Dates, sessions[d] # Absent
               PROVE  d <= orders'[id].plan.date
    OBVIOUS
  <2>1. PICK p \in Procs, status \in {"FILLED", "UNFILLED"} :
          Trade(p) /\ Write(job[p], NextOrder(p), status)
    BY OrdersChange
  <2>2. orders'[id].plan = job[p]
    BY <2>1 DEF Write, CoreInv, CoreTypeOK, BooksTypeOK
  <2>3. job[p].date \in Nat /\ ~Overtaken(job[p].date)
    BY <2>1, PlansAssumption, DatesAssumption
    DEF Trade, CoreInv, CoreTypeOK, ProcsTypeOK, SerialInv, WorksOnLatest, Working
  <2>4. QED  BY <2>2, <2>3, DatesAssumption DEF Overtaken
<1>2. QED
  BY <1>1, CoreTypeCorrect, SerialInvariant, PTL DEF Spec, DaysInOrder
=============================================================================
