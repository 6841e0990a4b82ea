------------------------- MODULE TradingBooks_proofs -------------------------
(***************************************************************************)
(* Machine-checked proofs that the books follow the plans of TradingDays,   *)
(* for any account, market, limits, runs and selections: the course an      *)
(* execution keeps while it is at work, the books its orders make of the    *)
(* account the plan was judged on, the NAV the day closes with, and the     *)
(* settlement all of it implements.                                         *)
(***************************************************************************)
EXTENDS TradingDays_proofs

-----------------------------------------------------------------------------
(* The course of an execution: nothing else is at work, its date is not         *)
(* overtaken, the session is its own, the orders behind it are recorded, and     *)
(* what it read for the NAV is still so.                                         *)
Late == {"pricing", "recording", "inserting", "closing"}

AllDone(x) == \A i \in DOMAIN x.orders : orders[x.orders[i].id] # Absent

OwnsSession(x) == sessions[x.date] # Absent /\ sessions[x.date].plan = x

Solo ==
  /\ \A p, q \in Procs : pc[p] # "idle" /\ pc[q] # "idle" => p = q
  /\ sheet # Absent => \A p \in Procs : pc[p] = "idle"

OnCourse(p) ==
  /\ pc[p] \in Early => cursor[p] = 1
  /\ pc[p] \notin {"idle", "validating"} => ~Exec!Overtaken(job[p].date)
  /\ pc[p] \notin Early => OwnsSession(job[p])
  /\ pc[p] = "trading" =>
       \A i \in DOMAIN job[p].orders : i < cursor[p] => orders[job[p].orders[i].id] # Absent
  /\ pc[p] \in Late => AllDone(job[p])
  /\ pc[p] \in {"pricing", "recording", "inserting"} => draft[p].cash = cash
  /\ pc[p] \in {"recording", "inserting"} =>
       draft[p].market = Exec!MarketValue(job[p].date) /\ Exec!Priced(job[p].date)
  /\ pc[p] = "pricing" => draft[p] = [cash |-> cash, market |-> 0]

RowsInSession == \A id \in OrderIds : orders[id] # Absent => OwnsSession(orders[id].plan)

NavInSession ==
  \A row \in nav : sessions[row.date] # Absent /\ AllDone(sessions[row.date].plan)

Recordings == {id \in OrderIds : orders[id] # Absent}

SeenRecorded ==
  /\ sheet # Absent => sheet.seen.orders = Recordings
  /\ \A r \in Runs : plan[r] # Absent => plan[r].seen.orders \subseteq Recordings

CourseInv ==
  Solo /\ (\A p \in Procs : OnCourse(p)) /\ RowsInSession /\ NavInSession /\ SeenRecorded

(* What an executor's step does, when no other process is at work. *)
LEMMA Alone ==
  ASSUME PlansInv, CourseInv, NEW p \in Procs, Work(p)
  PROVE  /\ pc[p] # "idle" /\ sheet = Absent /\ sheet' = sheet
         /\ plan' = plan /\ assessment' = assessment
         /\ \A q \in Procs : q # p => pc'[q] = "idle" /\ cursor'[q] = 1
         /\ pc'[p] # "idle" => job'[p] = job[p]
<1>1. pc[p] # "idle" /\ \A q \in Procs : pc'[q] # "idle" => Kept(q)
  BY ExecutorStep DEF Work, PlansInv, Types
<1>2. cursor \in [Procs -> Nat \ {0}]
  BY DEF PlansInv, Types, ExecutorOK
<1>3. \/ cursor' = cursor
      \/ cursor' = [cursor EXCEPT ![p] = @ + 1]
      \/ cursor' = [cursor EXCEPT ![p] = 1]
  BY DEF Work, Exec!Step, Exec!Validate, Exec!RefuseOvertaken, Exec!Begin, Exec!RefuseSession,
         Exec!Trade, Exec!RaiseInTrade, Exec!ReadCash, Exec!ReadLots, Exec!RaiseUnpriced,
         Exec!ComputeNav, Exec!KeepNav, Exec!RefuseNav, Exec!StoreNav, Exec!RaiseSecondNav,
         Exec!Finish, Exec!Crash, Exec!Leave
<1>4. \A q \in Procs : q # p => cursor'[q] = cursor[q]
  BY <1>2, <1>3
<1>5. \A q \in Procs : q # p => pc[q] = "idle" /\ pc'[q] = "idle" /\ cursor[q] = 1
  BY <1>1 DEF CourseInv, Solo, Kept, OnCourse, Early
<1>6. QED  BY <1>1, <1>4, <1>5 DEF CourseInv, Solo, Kept, Work

LEMMA SoloWork ==
  ASSUME PlansInv, CourseInv, NEW p \in Procs, Work(p), OnCourse(p)',
         RowsInSession', NavInSession', Recordings \subseteq Recordings'
  PROVE  CourseInv'
<1>1. /\ sheet = Absent /\ sheet' = sheet /\ plan' = plan
      /\ \A q \in Procs : q # p => pc'[q] = "idle" /\ cursor'[q] = 1
  BY Alone
<1>2. Solo'
  BY <1>1 DEF Solo
<1>3. \A q \in Procs : OnCourse(q)'
  BY <1>1 DEF OnCourse, Early, Late
<1>4. SeenRecorded'
  BY <1>1 DEF CourseInv, SeenRecorded
<1>5. QED  BY <1>2, <1>3, <1>4 DEF CourseInv

(* An order the executor deals with has a row from then on. *)
LEMMA TradeRecords ==
  ASSUME OrderIdsDiffer, PlansInv, FilesInv, NEW p \in Procs, Exec!Trade(p)
  PROVE  LET o == Exec!NextOrder(p)
         IN  /\ o.id \in OrderIds
             /\ orders'[o.id] # Absent
             /\ \A id \in OrderIds : orders[id] # Absent => orders'[id] = orders[id]
             /\ \A id \in OrderIds : orders'[id] # orders[id] =>
                  /\ id = o.id /\ orders[id] = Absent
                  /\ orders'[id].plan = job[p] /\ orders'[id].order = o
                  /\ orders'[id].status \in {"FILLED", "UNFILLED"}
             /\ UNCHANGED <<sessions, nav, pc, job, draft, crashes>>
             /\ cursor'[p] = cursor[p] + 1
<1> DEFINE o == Exec!NextOrder(p)
<1>1. /\ Exec!ExecuteOrder(job[p], o) /\ o \in RunOrders(job[p].run) /\ job[p].run \in Runs
      /\ IsApproved(job[p]) /\ cursor[p] \in DOMAIN job[p].orders
      /\ o = job[p].orders[cursor[p]]
  BY TradeOrder
<1>2. o.id \in OrderIds
  BY <1>1 DEF OrderIdsDiffer
<1>3. UNCHANGED <<pc, job, draft, crashes>> /\ cursor' = [cursor EXCEPT ![p] = @ + 1]
  BY DEF Exec!Trade
<1>4. cursor'[p] = cursor[p] + 1
  BY <1>3 DEF PlansInv, Types, ExecutorOK
<1>5. On(orders, OrderIds)
  BY DEF PlansInv, Types, ExecutorOK
<1> HIDE DEF o
<1>6. UNCHANGED <<sessions, nav>>
  BY <1>1 DEF Exec!ExecuteOrder, Exec!AnswerDuplicate, Exec!RecordUnfilled,
                 Exec!FillBuy, Exec!FillSell, Exec!ledgerVars
<1>7. \/ orders[o.id] # Absent /\ orders' = orders
      \/ orders[o.id] = Absent /\ \E status \in {"FILLED", "UNFILLED"} :
           orders' = [orders EXCEPT ![o.id] = [plan |-> job[p], order |-> o, status |-> status]]
  BY <1>1 DEF Exec!ExecuteOrder, Exec!AnswerDuplicate, Exec!RecordUnfilled,
              Exec!FillBuy, Exec!FillSell, Exec!Write, Exec!ledgerVars, Exec!Recorded
<1>8. CASE orders[o.id] # Absent /\ orders' = orders
  BY <1>2, <1>3, <1>4, <1>6, <1>8 DEF o
<1>9. ASSUME NEW status \in {"FILLED", "UNFILLED"}, orders[o.id] = Absent,
             orders' = [orders EXCEPT ![o.id] = [plan |-> job[p], order |-> o, status |-> status]]
      PROVE  /\ orders'[o.id] = [plan |-> job[p], order |-> o, status |-> status]
             /\ \A id \in OrderIds : id # o.id => orders'[id] = orders[id]
  BY <1>2, <1>5, <1>9 DEF On
<1>10. CASE orders[o.id] = Absent /\ \E status \in {"FILLED", "UNFILLED"} :
           orders' = [orders EXCEPT ![o.id] = [plan |-> job[p], order |-> o, status |-> status]]
  <2>1. PICK status \in {"FILLED", "UNFILLED"} :
          orders' = [orders EXCEPT ![o.id] = [plan |-> job[p], order |-> o, status |-> status]]
    BY <1>10
  <2> DEFINE row == [plan |-> job[p], order |-> o, status |-> status]
  <2>2. orders'[o.id] = row /\ \A id \in OrderIds : id # o.id => orders'[id] = orders[id]
    BY <1>9, <1>10, <2>1
  <2>3. row # Absent
    <3>1. job[p] \in AllPlans
      BY <1>1, ApprovedFacts, PlanFileType DEF IsApproved, OrdersOf, FilesInv
    <3>2. o \in Order
      BY <1>1, OrderType
    <3>3. row \in Exec!OrderRow
      BY <3>1, <3>2 DEF Exec!OrderRow, Exec!Order, Order, Exec!Sides, Sides
    <3>4. QED  BY <3>3, AbsentAssumption
  <2>4. row.plan = job[p] /\ row.order = o /\ row.status = status
    OBVIOUS
  <2> HIDE DEF row
  <2>5. QED  BY <1>2, <1>3, <1>4, <1>6, <1>10, <2>2, <2>3, <2>4 DEF o
<1>11. QED  BY <1>7, <1>8, <1>10

-----------------------------------------------------------------------------
LEMMA OrderedDates ==
  ASSUME NEW d \in Dates, NEW e \in Dates
  PROVE  d \in Nat /\ e \in Nat /\ (e > d => e # d) /\ (~(e > d) => e <= d)
BY DatesAssumption

(* A step that moves no row keeps what is known of the rows. *)
LEMMA RowsStay ==
  ASSUME RowsInSession, NavInSession, UNCHANGED <<orders, nav>>,
         \A d : sessions[d] # Absent =>
           sessions'[d] # Absent /\ sessions'[d].plan = sessions[d].plan
  PROVE  RowsInSession' /\ NavInSession' /\ Recordings \subseteq Recordings'
BY DEF RowsInSession, NavInSession, OwnsSession, AllDone, Recordings

LEMMA LeaveKeepsCourse ==
  ASSUME PlansInv, CourseInv, NEW p \in Procs, Work(p), Exec!Leave(p),
         UNCHANGED <<orders, nav>>,
         \A d : sessions[d] # Absent =>
           sessions'[d] # Absent /\ sessions'[d].plan = sessions[d].plan
  PROVE  CourseInv'
<1>1. pc'[p] = "idle" /\ cursor'[p] = 1
  BY DEF Exec!Leave, PlansInv, Types, ExecutorOK, On
<1>2. OnCourse(p)'
  BY <1>1 DEF OnCourse, Early, Late
<1>3. QED  BY <1>2, RowsStay, SoloWork DEF CourseInv

LEMMA BeginKeepsCourse ==
  ASSUME OrderIdsDiffer, PlansInv, FilesInv, CourseInv, NEW p \in Procs, Work(p), Exec!Begin(p)
  PROVE  CourseInv'
<1> DEFINE d == job[p].date
           row == [plan |-> job[p], status |-> "STARTED"]
<1>1. /\ pc[p] = "opening" /\ UNCHANGED <<orders, nav, job, cursor>>
      /\ ~Exec!SessionRefused(job[p])
      /\ sessions' = IF sessions[d] = Absent THEN [sessions EXCEPT ![d] = row] ELSE sessions
      /\ pc' = [pc EXCEPT ![p] = "trading"]
  BY DEF Exec!Begin, Exec!BeginSession, Exec!Goto
<1>2. /\ IsApproved(job[p]) /\ ~Exec!Overtaken(d) /\ On(sessions, Dates)
      /\ pc'[p] = "trading" /\ cursor[p] = 1
  BY <1>1 DEF FilesInv, JobsOK, CourseInv, OnCourse, Early,
     SessionsOK, PlansInv, Types, ExecutorOK, On
<1>3. d \in Dates
  BY <1>2, ApprovedFacts, CloseType DEF IsApproved, FilesInv
<1>4. row # Absent /\ row.plan = job[p]
  <2>1. job[p] \in AllPlans
    BY <1>2, ApprovedFacts, PlanFileType DEF IsApproved, OrdersOf, FilesInv
  <2>2. row \in Exec!Session
    BY <2>1 DEF Exec!Session
  <2>3. QED  BY <2>2, AbsentAssumption
<1> HIDE DEF row, d
<1>5. \A e : sessions[e] # Absent => sessions'[e] # Absent /\ sessions'[e].plan = sessions[e].plan
  BY <1>1, <1>2, <1>3 DEF On
<1>6. \A e \in Dates : e # d => sessions'[e] = sessions[e]
  BY <1>1, <1>2, <1>3 DEF On
<1>7. \A e \in Dates : e > d => sessions'[e] = Absent
  BY <1>2, <1>3, <1>6, OrderedDates DEF Exec!Overtaken
<1>8. sessions'[d] # Absent /\ sessions'[d].plan = job[p]
  <2>1. CASE sessions[d] = Absent
    BY <1>1, <1>2, <1>3, <1>4, <2>1 DEF On
  <2>2. CASE sessions[d] # Absent
    BY <1>1, <2>2 DEF Exec!SessionRefused, d
  <2>3. QED  BY <2>1, <2>2
<1>9. OnCourse(p)'
  <2>1. job'[p].date = d /\ OwnsSession(job[p])'
    BY <1>1, <1>8 DEF OwnsSession, d
  <2>2. ~Exec!Overtaken(job[p].date)'
    BY <1>7, <2>1 DEF Exec!Overtaken, d
  <2>3. job'[p] = job[p] /\ cursor'[p] = 1
    BY <1>1, <1>2
  <2>4. \A i \in DOMAIN job[p].orders : ~(i < 1)
    BY <1>2, ApprovedFacts, RunListFacts DEF IsApproved, OrdersOf, FilesInv
  <2>5. QED  BY <1>2, <2>1, <2>2, <2>3, <2>4 DEF OnCourse, Early, Late
<1>10. QED  BY <1>1, <1>5, <1>9, RowsStay, SoloWork DEF CourseInv

LEMMA TradeKeepsCourse ==
  ASSUME OrderIdsDiffer, PlansInv, FilesInv, CourseInv, NEW p \in Procs, Work(p), Exec!Trade(p)
  PROVE  CourseInv'
<1> DEFINE o == Exec!NextOrder(p)
<1>1. /\ o.id \in OrderIds /\ orders'[o.id] # Absent
      /\ \A id \in OrderIds : orders[id] # Absent => orders'[id] = orders[id]
      /\ \A id \in OrderIds : orders'[id] # orders[id] => id = o.id /\ orders'[id].plan = job[p]
      /\ UNCHANGED <<sessions, nav, pc, job, draft>>
      /\ cursor'[p] = cursor[p] + 1
  BY TradeRecords
<1>2. o = job[p].orders[cursor[p]] /\ cursor[p] \in DOMAIN job[p].orders /\ IsApproved(job[p])
  BY TradeOrder
<1>3. pc[p] = "trading" /\ OnCourse(p)
  BY DEF Exec!Trade, CourseInv
<1>4. OwnsSession(job[p])
  BY <1>3 DEF OnCourse, Early
<1> HIDE DEF o
<1>5. RowsInSession'
  BY <1>1, <1>4 DEF CourseInv, RowsInSession, OwnsSession
<1>6. On(orders, OrderIds) /\ On(orders, OrderIds)'
  BY ExecutorStep DEF PlansInv, Types, ExecutorOK, Work
<1>7. \A x \in Runs : \A l \in Seq(RunOrders(x)) : \A i \in DOMAIN l :
        orders[l[i].id] # Absent => orders'[l[i].id] # Absent
  BY <1>1, RunListFacts DEF OrderIdsDiffer
<1>8. NavInSession'
  <2>1. SUFFICES ASSUME NEW row \in nav
                 PROVE  AllDone(sessions[row.date].plan)'
    BY <1>1 DEF CourseInv, NavInSession
  <2> DEFINE x == sessions[row.date].plan
  <2>2. sessions[row.date] # Absent /\ AllDone(x) /\ row.date \in Dates
    BY DEF CourseInv, NavInSession, FilesInv, NavOK, Exec!Days
  <2>3. IsApproved(x)
    BY <2>2 DEF FilesInv, SessionsOK
  <2>4. x.orders \in Seq(RunOrders(x.run)) /\ x.run \in Runs
    BY <2>3, ApprovedFacts DEF IsApproved, OrdersOf, FilesInv
  <2>5. sessions'[row.date].plan = x
    BY <1>1
  <2> HIDE DEF x
  <2>6. \A i \in DOMAIN x.orders : orders'[x.orders[i].id] # Absent
    BY <1>7, <2>2, <2>4 DEF AllDone
  <2>7. QED  BY <2>5, <2>6 DEF AllDone
<1>9. OnCourse(p)'
  <2>1. job[p].orders \in Seq(RunOrders(job[p].run)) /\ job[p].run \in Runs
    BY <1>2, ApprovedFacts DEF IsApproved, OrdersOf, FilesInv
  <2>2. ASSUME NEW i \in DOMAIN job[p].orders, i < cursor[p] + 1
        PROVE  orders'[job[p].orders[i].id] # Absent
    <3>1. i \in Nat /\ cursor[p] \in Nat
      BY <2>1, <1>2, RunListFacts
    <3>2. CASE i = cursor[p]
      BY <1>1, <1>2, <3>2
    <3>3. CASE i < cursor[p]
      BY <1>3, <1>7, <2>1, <3>3 DEF OnCourse
    <3>4. QED  BY <2>2, <3>1, <3>2, <3>3
  <2>3. ~Exec!Overtaken(job[p].date)' /\ OwnsSession(job[p])'
    BY <1>1, <1>3, <1>4 DEF OnCourse, Exec!Overtaken, OwnsSession
  <2>4. QED  BY <1>1, <1>3, <2>2, <2>3 DEF OnCourse, Early, Late
<1>10. Recordings \subseteq Recordings'
  BY <1>1 DEF Recordings
<1>11. QED  BY <1>5, <1>8, <1>9, <1>10, SoloWork

-----------------------------------------------------------------------------
(* The steps of an execution that write nothing, and the one that stores the NAV. *)
LEMMA ReadKeepsCourse ==
  ASSUME PlansInv, FilesInv, CourseInv, NEW p \in Procs, Work(p),
         \/ Exec!Validate(p) \/ Exec!ReadCash(p) \/ Exec!ReadLots(p)
         \/ Exec!ComputeNav(p) \/ Exec!KeepNav(p)
  PROVE  CourseInv'
<1>1. /\ UNCHANGED <<cash, lots, orders, sessions, nav, job, cursor>>
  BY DEF Exec!Validate, Exec!ReadCash, Exec!ReadLots, Exec!ComputeNav, Exec!KeepNav,
         Exec!ledgerVars
<1>2. OnCourse(p) /\ On(pc, Procs) /\ On(draft, Procs) /\ p \in Procs
  BY DEF CourseInv, PlansInv, Types, ExecutorOK, FilesInv, NavOK
<1>3. /\ (Exec!Overtaken(job[p].date))' <=> Exec!Overtaken(job[p].date)
      /\ OwnsSession(job[p])' <=> OwnsSession(job[p])
      /\ AllDone(job[p])' <=> AllDone(job[p])
      /\ (Exec!MarketValue(job[p].date))' = Exec!MarketValue(job[p].date)
      /\ (Exec!Priced(job[p].date))' <=> Exec!Priced(job[p].date)
  <2>1. Exec!Held' = Exec!Held
    BY <1>1 DEF Exec!Held
  <2>2. /\ (Exec!MarketValue(job[p].date))' = Exec!MarketValue(job[p].date)
        /\ (Exec!Priced(job[p].date))' <=> Exec!Priced(job[p].date)
    BY <1>1, <2>1 DEF Exec!MarketValue, Exec!Priced
  <2>3. QED  BY <1>1, <2>2 DEF Exec!Overtaken, OwnsSession, AllDone
<1>4. CASE Exec!Validate(p)
  <2>1. pc[p] = "validating" /\ pc'[p] = "opening" /\ ~Exec!Overtaken(job[p].date)
        /\ draft' = draft
    BY <1>2, <1>4 DEF Exec!Validate, Exec!Goto, On
  <2>2. OnCourse(p)'
    BY <1>1, <1>2, <1>3, <2>1 DEF OnCourse, Early, Late
  <2>3. QED  BY <1>1, <2>2, RowsStay, SoloWork DEF CourseInv
<1>5. CASE Exec!ReadCash(p)
  <2>1. pc[p] = "trading" /\ pc'[p] = "pricing" /\ cursor[p] > Len(job[p].orders)
        /\ draft'[p] = [cash |-> cash, market |-> 0]
    BY <1>2, <1>5 DEF Exec!ReadCash, Exec!Goto, On
  <2>2. IsApproved(job[p])
    BY <2>1 DEF FilesInv, JobsOK
  <2>3. job[p].orders \in Seq(RunOrders(job[p].run)) /\ job[p].run \in Runs
    BY <2>2, ApprovedFacts DEF IsApproved, OrdersOf, FilesInv
  <2>4. \A i \in DOMAIN job[p].orders : i < cursor[p]
    <3>1. cursor[p] \in Nat
      BY DEF PlansInv, Types, ExecutorOK
    <3>2. QED  BY <2>1, <2>3, <3>1, RunListFacts
  <2>5. AllDone(job[p])
    BY <1>2, <2>1, <2>4 DEF OnCourse, AllDone
  <2>6. draft'[p].cash = cash
    BY <2>1
  <2>7. OnCourse(p)'
    BY <1>1, <1>2, <1>3, <2>1, <2>5, <2>6 DEF OnCourse, Early, Late
  <2>8. QED  BY <1>1, <2>7, RowsStay, SoloWork DEF CourseInv
<1>6. CASE Exec!ReadLots(p)
  <2>1. pc[p] = "pricing" /\ pc'[p] = "recording" /\ Exec!Priced(job[p].date)
        /\ draft'[p] = [draft[p] EXCEPT !.market = Exec!MarketValue(job[p].date)]
    BY <1>2, <1>6 DEF Exec!ReadLots, Exec!Goto, On
  <2>2. draft[p] = [cash |-> cash, market |-> 0]
    BY <1>2, <2>1 DEF OnCourse
  <2>3. draft'[p].cash = cash /\ draft'[p].market = Exec!MarketValue(job[p].date)
    BY <2>1, <2>2
  <2>4. OnCourse(p)'
    BY <1>1, <1>2, <1>3, <2>1, <2>3 DEF OnCourse, Early, Late
  <2>5. QED  BY <1>1, <2>4, RowsStay, SoloWork DEF CourseInv
<1>7. CASE Exec!ComputeNav(p)
  <2>1. pc[p] = "recording" /\ pc'[p] = "inserting"
        /\ draft'[p] = Exec!NavFor(job[p].date, draft[p].cash, draft[p].market)
    BY <1>2, <1>7 DEF Exec!ComputeNav, Exec!Goto, On
  <2>2. draft'[p].cash = draft[p].cash /\ draft'[p].market = draft[p].market
    BY <2>1 DEF Exec!NavFor
  <2>3. OnCourse(p)'
    BY <1>1, <1>2, <1>3, <2>1, <2>2 DEF OnCourse, Early, Late
  <2>4. QED  BY <1>1, <2>3, RowsStay, SoloWork DEF CourseInv
<1>8. CASE Exec!KeepNav(p)
  <2>1. pc[p] = "recording" /\ pc'[p] = "closing" /\ draft' = draft
    BY <1>2, <1>8 DEF Exec!KeepNav, Exec!Goto, On
  <2>2. OnCourse(p)'
    BY <1>1, <1>2, <1>3, <2>1 DEF OnCourse, Early, Late
  <2>3. QED  BY <1>1, <2>2, RowsStay, SoloWork DEF CourseInv
<1>9. QED  BY <1>4, <1>5, <1>6, <1>7, <1>8

LEMMA StoreKeepsCourse ==
  ASSUME PlansInv, FilesInv, CourseInv, NEW p \in Procs, Work(p), Exec!StoreNav(p)
  PROVE  CourseInv'
<1>1. /\ UNCHANGED <<cash, lots, orders, sessions, job, cursor, draft>>
      /\ nav' = nav \cup {draft[p]} /\ pc[p] = "inserting"
      /\ pc' = [pc EXCEPT ![p] = "closing"]
  BY DEF Exec!StoreNav, Exec!InsertNav, Exec!Goto
<1>2. OnCourse(p) /\ pc'[p] = "closing" /\ draft[p].date = job[p].date
  BY <1>1 DEF CourseInv, PlansInv, Types, ExecutorOK, FilesInv, NavOK, On
<1>3. OwnsSession(job[p]) /\ AllDone(job[p]) /\ ~Exec!Overtaken(job[p].date)
  BY <1>1, <1>2 DEF OnCourse, Early, Late
<1>4. OwnsSession(job[p])' /\ AllDone(job[p])' /\ ~(Exec!Overtaken(job[p].date))'
  BY <1>1, <1>3 DEF OwnsSession, AllDone, Exec!Overtaken
<1>5. OnCourse(p)'
  BY <1>1, <1>2, <1>4 DEF OnCourse, Early, Late
<1>6. NavInSession'
  BY <1>1, <1>2, <1>4 DEF CourseInv, NavInSession, OwnsSession, AllDone
<1>7. RowsInSession' /\ Recordings' = Recordings
  BY <1>1 DEF CourseInv, RowsInSession, OwnsSession, Recordings
<1>8. QED  BY <1>5, <1>6, <1>7, SoloWork

LEMMA FinishKeepsCourse ==
  ASSUME OrderIdsDiffer, PlansInv, FilesInv, CourseInv, NEW p \in Procs, Work(p), Exec!Finish(p)
  PROVE  CourseInv'
<1> DEFINE d == job[p].date
<1>1. /\ UNCHANGED <<orders, nav>> /\ Exec!Leave(p) /\ pc[p] = "closing"
      /\ sessions[d] # Absent
      /\ sessions' = [sessions EXCEPT ![d].status = "COMPLETED"]
  BY DEF Exec!Finish, Exec!CompleteSession
<1>2. On(sessions, Dates) /\ IsApproved(job[p]) /\ d \in Dates
  <2>1. On(sessions, Dates) /\ IsApproved(job[p])
    BY <1>1 DEF FilesInv, SessionsOK, JobsOK
  <2>2. QED  BY <2>1, ApprovedFacts, CloseType DEF IsApproved, FilesInv
<1>3. /\ sessions[d] = [plan |-> sessions[d].plan, status |-> sessions[d].status]
      /\ IsApproved(sessions[d].plan)
  <2>1. SessionsOK
    BY DEF FilesInv
  <2>2. IsApproved(sessions[d].plan) /\ SessionShape(d, sessions[d])
    BY <1>1, <1>2, <2>1 DEF SessionsOK
  <2>3. QED  BY <2>2 DEF SessionShape
<1>4. sessions[d].plan \in AllPlans
  <2>1. PICK r \in Runs : Approved(r) /\ sessions[d].plan = assessment[r].plan
    BY <1>3 DEF IsApproved
  <2>2. PlansOK /\ VerdictsOK
    BY DEF FilesInv
  <2>3. /\ assessment[r].plan = WithOrders(r, assessment[r].plan.orders)
        /\ OrdersOf(r, plan[r].account, assessment[r].plan.orders)
    BY <2>1, <2>2, ApprovedFacts
  <2>4. assessment[r].plan.orders \in Seq(RunOrders(r))
    BY <2>3 DEF OrdersOf
  <2>5. WithOrders(r, assessment[r].plan.orders) \in AllPlans
    BY <2>4, PlanFileType
  <2>6. QED  BY <2>1, <2>3, <2>5
<1>5. sessions'[d] = [plan |-> sessions[d].plan, status |-> "COMPLETED"]
  BY <1>1, <1>2, <1>3 DEF On
<1>6. sessions'[d] # Absent /\ sessions'[d].plan = sessions[d].plan
  BY <1>4, <1>5, AbsentAssumption DEF Exec!Session
<1> HIDE DEF d
<1>7. \A e : e # d => sessions'[e] = sessions[e]
  BY <1>1, <1>2 DEF On
<1>8. QED  BY <1>1, <1>6, <1>7, LeaveKeepsCourse

LEMMA WorkKeepsCourse ==
  ASSUME OrderIdsDiffer, PlansInv, FilesInv, CourseInv, NEW p \in Procs, Work(p)
  PROVE  CourseInv'
<1>1. CASE \/ Exec!RefuseOvertaken(p) \/ Exec!RefuseSession(p) \/ Exec!RaiseInTrade(p)
           \/ Exec!RaiseUnpriced(p) \/ Exec!RefuseNav(p) \/ Exec!RaiseSecondNav(p) \/ Exec!Crash(p)
  <2>1. Exec!Leave(p) /\ UNCHANGED <<orders, nav, sessions>>
    BY <1>1 DEF Exec!RefuseOvertaken, Exec!RefuseSession, Exec!RaiseInTrade,
         Exec!RaiseUnpriced, Exec!RefuseNav, Exec!RaiseSecondNav, Exec!Crash, Exec!ledgerVars
  <2>2. QED  BY <2>1, LeaveKeepsCourse
<1>2. CASE \/ Exec!Validate(p) \/ Exec!ReadCash(p) \/ Exec!ReadLots(p)
           \/ Exec!ComputeNav(p) \/ Exec!KeepNav(p)
  BY <1>2, ReadKeepsCourse
<1>3. QED
  BY <1>1, <1>2, BeginKeepsCourse, TradeKeepsCourse, StoreKeepsCourse, FinishKeepsCourse
     DEF Work, Exec!Step

-----------------------------------------------------------------------------
(* The planner's and the risk engine's steps leave the executor's course. *)
LEMMA CourseStays ==
  ASSUME CourseInv, UNCHANGED <<lots, orders, sessions, nav, pc, job, cursor, draft>>,
         cash' = cash \/ \A p \in Procs : pc[p] = "idle",
         sheet' # Absent => \A p \in Procs : pc[p] = "idle",
         SeenRecorded'
  PROVE  CourseInv'
<1>1. Solo'
  BY DEF CourseInv, Solo
<1>2. RowsInSession' /\ NavInSession'
  BY DEF CourseInv, RowsInSession, NavInSession, OwnsSession, AllDone
<1>3. ASSUME NEW p \in Procs
      PROVE  OnCourse(p)'
  <2>1. OnCourse(p)
    BY DEF CourseInv
  <2>2. CASE pc[p] = "idle"
    BY <2>1, <2>2 DEF OnCourse, Early, Late
  <2>3. CASE cash' = cash
    <3>1. /\ (Exec!Overtaken(job[p].date))' <=> Exec!Overtaken(job[p].date)
          /\ OwnsSession(job[p])' <=> OwnsSession(job[p])
          /\ AllDone(job[p])' <=> AllDone(job[p])
      BY DEF Exec!Overtaken, OwnsSession, AllDone
    <3>2. Exec!Held' = Exec!Held
      BY DEF Exec!Held
    <3>3. /\ (Exec!MarketValue(job[p].date))' = Exec!MarketValue(job[p].date)
          /\ (Exec!Priced(job[p].date))' <=> Exec!Priced(job[p].date)
      BY <3>2 DEF Exec!MarketValue, Exec!Priced
    <3>4. QED  BY <2>1, <2>3, <3>1, <3>3 DEF OnCourse, Early, Late
  <2>4. QED  BY <2>2, <2>3
<1>4. QED  BY <1>1, <1>2, <1>3 DEF CourseInv

LEMMA CourseInvariant == ASSUME OrderIdsDiffer PROVE Spec => []CourseInv
<1>1. Init => CourseInv
  <2> SUFFICES ASSUME Init PROVE CourseInv
    OBVIOUS
  <2>1. /\ orders = [id \in OrderIds |-> Absent] /\ nav = {} /\ sheet = Absent
        /\ pc = [p \in Procs |-> "idle"] /\ cursor = [p \in Procs |-> 1]
        /\ plan = [r \in Runs |-> Absent]
    BY DEF Init, Exec!Init, Exec!LedgerInit
  <2>2. QED
    BY <2>1 DEF CourseInv, Solo, OnCourse, Early, Late, RowsInSession, NavInSession, SeenRecorded
<1>2. PlansInv /\ DrawdownInv /\ FilesInv /\ CourseInv /\ [Next]_vars => CourseInv'
  <2> SUFFICES ASSUME PlansInv, DrawdownInv, FilesInv, CourseInv, [Next]_vars
               PROVE  CourseInv'
    OBVIOUS
  <2>1. ASSUME NEW r \in Runs, NEW picks \in Picks[r], BeginPlan(r, picks)
        PROVE  CourseInv'
    <3>1. UNCHANGED <<lots, orders, sessions, nav, pc, job, cursor, draft, plan>> /\ Quiet
      BY <2>1 DEF BeginPlan, Exec!EnsureAccount
    <3>2. sheet'.seen.orders = Recordings
      BY <2>1 DEF BeginPlan, Recordings
    <3>3. SeenRecorded'
      BY <3>1, <3>2 DEF CourseInv, SeenRecorded, Recordings
    <3>4. QED  BY <3>1, <3>3, CourseStays DEF Quiet
  <2>2. ASSUME NEW r \in Runs, NEW picks, RaiseInPlan(r, picks)
        PROVE  CourseInv'
    <3>1. UNCHANGED <<lots, orders, sessions, nav, pc, job, cursor, draft, plan, sheet>> /\ Quiet
      BY <2>2 DEF RaiseInPlan, Exec!EnsureAccount
    <3>2. SeenRecorded'
      BY <3>1 DEF CourseInv, SeenRecorded, Recordings
    <3>3. QED  BY <3>1, <3>2, CourseStays DEF Quiet
  <2>3. ASSUME NEW r \in Runs, Approve(r) \/ Adjust(r) \/ Reject(r)
        PROVE  CourseInv'
    <3>1. UNCHANGED <<execVars, sheet, plan>> /\ Quiet
      BY <2>3 DEF Approve, Adjust, Reject, Decide
    <3>2. SeenRecorded'
      BY <3>1 DEF execVars, CourseInv, SeenRecorded, Recordings
    <3>3. QED  BY <3>1, <3>2, CourseStays DEF execVars, Quiet
  <2>4. ASSUME NEW r \in Runs, NEW p \in Procs, Execute(p, r)
        PROVE  CourseInv'
    <3>1. /\ UNCHANGED <<cash, lots, orders, sessions, nav, cursor, draft, sheet, plan>>
          /\ pc' = [pc EXCEPT ![p] = "validating"] /\ Quiet
      BY <2>4 DEF Execute, Exec!Submit, Exec!Goto, Exec!ledgerVars
    <3>2. /\ \A q \in Procs : pc'[q] = IF q = p THEN "validating" ELSE "idle"
          /\ \A q \in Procs : cursor'[q] = 1
      BY <3>1 DEF Quiet, PlansInv, Types, ExecutorOK, On, CourseInv, OnCourse, Early
    <3>3. Solo' /\ \A q \in Procs : OnCourse(q)'
      BY <3>1, <3>2 DEF Solo, OnCourse, Early, Late, Quiet
    <3>4. RowsInSession' /\ NavInSession' /\ SeenRecorded'
      BY <3>1 DEF CourseInv, RowsInSession, NavInSession, OwnsSession, AllDone,
                  SeenRecorded, Recordings
    <3>5. QED  BY <3>3, <3>4 DEF CourseInv
  <2>5. CASE PlanSell \/ PlanBuy
    <3>1. UNCHANGED <<execVars, plan>> /\ sheet # Absent
      BY <2>5 DEF PlanSell, PlanBuy
    <3>2. sheet'.seen = sheet.seen
      BY <2>5, <3>1 DEF PlanSell, PlanBuy, PlansInv, Types, SheetOK
    <3>3. SeenRecorded'
      BY <3>1, <3>2 DEF execVars, CourseInv, SeenRecorded, Recordings
    <3>4. QED  BY <3>1, <3>3, CourseStays DEF execVars, CourseInv, Solo
  <2>6. CASE StorePlan
    <3>1. /\ UNCHANGED execVars /\ sheet # Absent /\ sheet' = Absent /\ sheet.run \in Runs
      BY <2>6 DEF StorePlan, PlansInv, Types, SheetOK
    <3>2. /\ \A r \in Runs : r # sheet.run => plan'[r] = plan[r]
          /\ plan'[sheet.run].seen = sheet.seen
      BY <2>6, <3>1 DEF StorePlan, PlansInv, Types, FilesOK, On
    <3>3. SeenRecorded'
      BY <3>1, <3>2 DEF execVars, CourseInv, SeenRecorded, Recordings
    <3>4. QED  BY <3>1, <3>3, CourseStays DEF execVars
  <2>7. CASE LosePlan
    <3>1. /\ UNCHANGED <<cash, lots, orders, sessions, nav, pc, job, cursor, draft, plan>>
          /\ sheet' = Absent
      BY <2>7 DEF LosePlan
    <3>2. SeenRecorded'
      BY <3>1 DEF CourseInv, SeenRecorded, Recordings
    <3>3. QED  BY <3>1, <3>2, CourseStays
  <2>8. ASSUME NEW p \in Procs, Work(p)
        PROVE  CourseInv'
    BY <2>8, WorkKeepsCourse
  <2>9. CASE UNCHANGED vars
    <3>1. SeenRecorded'
      BY <2>9 DEF vars, execVars, CourseInv, SeenRecorded, Recordings
    <3>2. QED  BY <2>9, <3>1, CourseStays DEF vars, execVars, CourseInv, Solo
  <2>10. QED
    BY <2>1, <2>2, <2>3, <2>4, <2>5, <2>6, <2>7, <2>8, <2>9 DEF Next
<1>3. QED  BY <1>1, <1>2, PlansInvariant, DrawdownInvariant, FilesInvariant, PTL DEF Spec

-----------------------------------------------------------------------------
(* The books against the plans: what a plan's account says of the books until     *)
(* another run trades, and what its own orders make of them.                       *)
Untouched(r) ==
  \A id \in OrderIds : orders[id] # Absent =>
    id \in plan[r].seen.orders \/ orders[id].plan.run = r

HasBooks(r, a) ==
  /\ cash = a.cash
  /\ \A s \in Symbols :
       HeldNow(s) = a.held[s] /\ SellableNow(s, RunDate[r]) = a.available[s]

Done(list) == {i \in DOMAIN list : orders[list[i].id] # Absent}

TradedBooks(r, a, list) ==
  /\ cash = a.cash + Sigma(Deltas(list), Done(list))
  /\ \A s \in Symbols :
       /\ HeldNow(s) = a.held[s] + Sigma(Moved(list, s), Done(list))
       /\ SellableNow(s, RunDate[r]) = a.available[s] - Sigma(Sold(list, s), Done(list))

InOrder(list) == \A i, j \in DOMAIN list : i < j /\ j \in Done(list) => i \in Done(list)

Opened ==
  /\ sheet # Absent => cash # Absent
  /\ \A r \in Runs : plan[r] # Absent => cash # Absent

PlanBooks(r) ==
  plan[r] # Absent /\ Untouched(r) =>
    /\ ~Approved(r) => HasBooks(r, Account0(r))
    /\ Approved(r) /\ SalesKept(r) => TradedBooks(r, Account0(r), ApprovedOrders(r))

BooksInv ==
  /\ Opened
  /\ sheet # Absent => HasBooks(sheet.run, sheet.account)
  /\ \A r \in Runs : PlanBooks(r)
  /\ \A r \in Runs : Approved(r) => InOrder(ApprovedOrders(r))

LEMMA ApprovedList ==
  ASSUME FilesInv, NEW r \in Runs, Approved(r)
  PROVE  /\ OrdersOf(r, Account0(r), ApprovedOrders(r)) /\ AccountOK(Account0(r), r)
         /\ Account0(r) \in Account
         /\ ApprovedOrders(r) \in Seq(RunOrders(r)) /\ IsFiniteSet(DOMAIN ApprovedOrders(r))
         /\ TradabilityRule(MarketOf(r), ApprovedOrders(r))
         /\ plan[r] # Absent
<1> DEFINE f == plan[r]
           list == f.order.orders
           done == ApprovedOrders(r)
<1>1. /\ PlanShape(r, f) /\ Judged(r, f) /\ OrdersOf(r, f.account, done) /\ plan[r] # Absent
      /\ done = list \/ done = CutOf(r, list)
  BY ApprovedFacts DEF FilesInv, ApprovedOrders
<1> HIDE DEF f, done
<1>2. /\ AccountOK(f.account, r) /\ f.account \in Account /\ done \in Seq(RunOrders(r))
      /\ OrdersOf(r, f.account, list) /\ TradabilityRule(MarketOf(r), list) /\ OrderValueRule(list)
  BY <1>1 DEF PlanShape, AccountOK, OrdersOf, Judged
<1> HIDE DEF list
<1>3. IsFiniteSet(DOMAIN done)
  BY <1>2, RunListFacts
<1>4. TradabilityRule(MarketOf(r), done)
  <2>1. CASE done = list
    BY <1>2, <2>1
  <2>2. CASE done = CutOf(r, list)
    <3>1. DOMAIN done = DOMAIN list
      BY <2>2 DEF CutOf
    <3>2. ASSUME NEW i \in DOMAIN list
          PROVE  /\ done[i].symbol = list[i].symbol /\ done[i].side = list[i].side
                 /\ done[i].price = list[i].price
      <4>1. done[i] = Capped(r, list[i])
        BY <2>2 DEF CutOf
      <4>2. list[i] \in RunOrders(r) /\ (TooLarge(list[i]) => CappedVolume(list[i]) > 0)
        BY <1>2, RunListFacts DEF OrdersOf, OrderValueRule
      <4>3. QED  BY <4>1, <4>2, CappedOrder
    <3>3. QED  BY <1>2, <3>1, <3>2 DEF TradabilityRule
  <2>3. QED  BY <1>1, <2>1, <2>2
<1>5. QED  BY <1>1, <1>2, <1>3, <1>4 DEF f, done, Account0

(* Until it is approved, no order of a run is recorded. *)
LEMMA NothingDone ==
  ASSUME OrderIdsDiffer, FilesInv, NEW r \in Runs, ~Approved(r), NEW list \in Seq(RunOrders(r))
  PROVE  Done(list) = {}
<1>1. SUFFICES ASSUME NEW i \in DOMAIN list, orders[list[i].id] # Absent
               PROVE  FALSE
  BY DEF Done
<1> DEFINE id == list[i].id
           row == orders[id]
<1>2. list[i] \in RunOrders(r) /\ id \in OrderIds
  BY RunListFacts DEF OrderIdsDiffer
<1>3. IsApproved(row.plan) /\ RowShape(row) /\ row.order.id = id
  BY <1>1, <1>2 DEF FilesInv, RowsOK
<1>4. PICK j \in DOMAIN row.plan.orders : row.order = row.plan.orders[j]
  BY <1>3 DEF RowShape
<1>5. row.order \in RunOrders(row.plan.run) /\ row.plan.run \in Runs /\ Approved(row.plan.run)
  BY <1>3, <1>4, ApprovedOrder DEF FilesInv, IsApproved
<1>6. row.plan.run = r
  BY <1>2, <1>3, <1>5 DEF OrderIdsDiffer
<1>7. QED  BY <1>5, <1>6

(* While nothing of it is done, the traded books are the books it was planned on. *)
LEMMA StartBooks ==
  ASSUME NEW r, NEW a \in Account, NEW list, Done(list) = {}, HasBooks(r, a)
  PROVE  TradedBooks(r, a, list) /\ InOrder(list)
<1>1. a.cash \in Nat /\ \A s \in Symbols : a.held[s] \in Nat /\ a.available[s] \in Nat
  BY DEF Account
<1>2. /\ Sigma(Deltas(list), Done(list)) = 0
      /\ \A s \in Symbols : /\ Sigma(Moved(list, s), Done(list)) = 0
                            /\ Sigma(Sold(list, s), Done(list)) = 0
  BY SigmaEmpty
<1>3. QED  BY <1>1, <1>2 DEF TradedBooks, HasBooks, InOrder

-----------------------------------------------------------------------------
(* When no order after the one at hand brings cash in, what the plan closes with *)
(* is the least the cash gets to from here on.                                    *)
LEMMA CashCovers ==
  ASSUME NEW r \in Runs, NEW a \in Account, NEW list, OrdersOf(r, a, list),
         NEW c \in DOMAIN list, NEW D, D \subseteq DOMAIN list, c \notin D,
         \A i \in DOMAIN list \ D : i # c => CashDelta(list[i]) <= 0,
         CashAfter(a, list) >= 0
  PROVE  /\ a.cash + Sigma(Deltas(list), D) + CashDelta(list[c]) >= 0
         /\ Sigma(Deltas(list), D) \in Int
<1> DEFINE f == Deltas(list)
           S == DOMAIN list
           T == D \cup {c}
           zero == [i \in S |-> 0]
<1>1. /\ list \in Seq(RunOrders(r)) /\ IsFiniteSet(S)
      /\ \A i \in S : f[i] = CashDelta(list[i]) /\ f[i] \in Int /\ IsOrder(list[i])
  BY RunListFacts DEF OrdersOf
<1>2. IsFiniteSet(D) /\ IsFiniteSet(S \ T) /\ T \subseteq S
  BY <1>1, FS_Subset
<1>3. CashAfter(a, list) = a.cash + Sigma(f, S) /\ a.cash \in Int
  BY <1>1, AfterSums DEF Account
<1>4. \A i \in S \ T : f[i] <= zero[i] /\ zero[i] = 0
  BY <1>1
<1> HIDE DEF f, S
<1>5. Sigma(f, S) = Sigma(f, T) + Sigma(f, S \ T)
  BY <1>1, <1>2, SigmaRest
<1>6. Sigma(f, T) = f[c] + Sigma(f, D)
  BY <1>1, <1>2, SigmaGrow
<1>7. Sigma(zero, S \ T) = 0
  BY <1>2, <1>4, SigmaZeros, SigmaEmpty
<1>8. Sigma(f, S \ T) <= Sigma(zero, S \ T)
  BY <1>1, <1>2, <1>4, SigmaLeq
<1>9. Sigma(f, D) \in Int /\ Sigma(f, S \ T) \in Int /\ f[c] \in Int /\ f[c] = CashDelta(list[c])
  BY <1>1, <1>2, SigmaInt DEF S
<1>10. a.cash + Sigma(f, D) + f[c] >= 0
  BY <1>3, <1>5, <1>6, <1>7, <1>8, <1>9
<1>11. QED  BY <1>9, <1>10 DEF f

LEMMA SharesCover ==
  ASSUME NEW r \in Runs, NEW a \in Account, NEW list, OrdersOf(r, a, list),
         NEW c \in DOMAIN list, NEW D, D \subseteq DOMAIN list, c \notin D,
         list[c].side = "SELL"
  PROVE  a.available[list[c].symbol] - Sigma(Sold(list, list[c].symbol), D) >= list[c].volume
<1> DEFINE s == list[c].symbol
           f == Sold(list, s)
           T == D \cup {c}
<1>1. /\ list \in Seq(RunOrders(r)) /\ IsFiniteSet(DOMAIN list)
      /\ \A i \in DOMAIN list : f[i] \in Nat
      /\ s \in Symbols /\ list[c].volume \in Nat
  BY RunListFacts DEF OrdersOf
<1>2. f[c] = list[c].volume
  BY DEF Sold
<1>3. IsFiniteSet(D) /\ T \subseteq DOMAIN list
  BY <1>1, FS_Subset
<1>4. Sigma(f, T) <= a.available[s] /\ Sigma(f, T) \in Nat /\ Sigma(f, D) \in Nat
  BY <1>1, <1>3, SoldBound
<1>5. a.available[s] \in Nat
  BY <1>1 DEF Account
<1> HIDE DEF f, s
<1>6. Sigma(f, T) = f[c] + Sigma(f, D)
  BY <1>1, <1>3, SigmaGrow
<1>7. a.available[s] - Sigma(f, D) >= list[c].volume
  BY <1>1, <1>2, <1>4, <1>5, <1>6
<1>8. QED  BY <1>7 DEF f, s

(* What an order moves of a symbol, and what it sells of it. *)
MovedBy(o, s) ==
  IF o.symbol # s THEN 0 ELSE IF o.side = "BUY" THEN o.volume ELSE -o.volume

SoldBy(o, s) == IF o.symbol = s /\ o.side = "SELL" THEN o.volume ELSE 0

(* What one more order adds to the sums. *)
LEMMA OneMore ==
  ASSUME NEW r \in Runs, NEW list \in Seq(RunOrders(r)),
         NEW c \in DOMAIN list, NEW D, D \subseteq DOMAIN list, c \notin D
  PROVE  /\ Sigma(Deltas(list), D \cup {c}) = CashDelta(list[c]) + Sigma(Deltas(list), D)
         /\ CashDelta(list[c]) \in Int /\ Sigma(Deltas(list), D) \in Int
         /\ \A s : /\ Sigma(Moved(list, s), D) \in Int /\ Sigma(Sold(list, s), D) \in Int
                   /\ Sigma(Moved(list, s), D \cup {c}) =
                        MovedBy(list[c], s) + Sigma(Moved(list, s), D)
                   /\ Sigma(Sold(list, s), D \cup {c}) =
                        SoldBy(list[c], s) + Sigma(Sold(list, s), D)
<1> DEFINE o == list[c]
<1>1. IsFiniteSet(DOMAIN list) /\ IsFiniteSet(D)
  BY RunListFacts, FS_Subset
<1>2. \A i \in DOMAIN list : Deltas(list)[i] \in Int /\ Deltas(list)[i] = CashDelta(list[i])
  BY RunListFacts
<1>3. /\ Sigma(Deltas(list), D \cup {c}) = CashDelta(o) + Sigma(Deltas(list), D)
      /\ CashDelta(o) \in Int /\ Sigma(Deltas(list), D) \in Int
  <2> DEFINE f == Deltas(list)
  <2>1. \A i \in DOMAIN list : f[i] \in Int
    BY <1>2
  <2>2. f[c] = CashDelta(o) /\ f[c] \in Int
    BY <1>2
  <2> HIDE DEF f
  <2>3. Sigma(f, D \cup {c}) = f[c] + Sigma(f, D)
    BY <1>1, <2>1, SigmaGrow
  <2>4. Sigma(f, D) \in Int
    BY <1>1, <2>1, SigmaInt
  <2> HIDE DEF o
  <2>5. QED  BY <2>2, <2>3, <2>4 DEF f
<1>4. ASSUME NEW s
      PROVE  /\ Sigma(Moved(list, s), D) \in Int /\ Sigma(Sold(list, s), D) \in Int
             /\ Sigma(Moved(list, s), D \cup {c}) = MovedBy(o, s) + Sigma(Moved(list, s), D)
             /\ Sigma(Sold(list, s), D \cup {c}) = SoldBy(o, s) + Sigma(Sold(list, s), D)
  <2>1. \A i \in DOMAIN list : Moved(list, s)[i] \in Int /\ Sold(list, s)[i] \in Int
    BY RunListFacts
  <2>2. o.volume \in Int /\ o.side \in Sides
    BY RunListFacts
  <2>3. /\ Sigma(Moved(list, s), D \cup {c}) = Moved(list, s)[c] + Sigma(Moved(list, s), D)
        /\ Sigma(Sold(list, s), D \cup {c}) = Sold(list, s)[c] + Sigma(Sold(list, s), D)
    BY <1>1, <2>1, SigmaGrow
  <2>4. Sold(list, s)[c] = SoldBy(o, s)
    BY DEF Sold, SoldBy
  <2>5. Moved(list, s)[c] = MovedBy(o, s)
    BY <2>2 DEF Moved, Bought, Sold, Sides, MovedBy
  <2>6. Sigma(Moved(list, s), D) \in Int /\ Sigma(Sold(list, s), D) \in Int
    BY <1>1, <2>1, SigmaInt
  <2>7. QED  BY <2>3, <2>4, <2>5, <2>6
<1>5. QED  BY <1>3, <1>4

-----------------------------------------------------------------------------
(* The order an executor is at: what is behind it is recorded, nothing after it is. *)
LEMMA NextDone ==
  ASSUME OrderIdsDiffer, PlansInv, FilesInv, CourseInv, BooksInv,
         NEW p \in Procs, pc[p] = "trading", cursor[p] <= Len(job[p].orders),
         orders[Exec!NextOrder(p).id] = Absent
  PROVE  LET r == job[p].run
             list == ApprovedOrders(r)
             c == cursor[p]
         IN  /\ r \in Runs /\ Approved(r) /\ job[p].orders = list
             /\ list \in Seq(RunOrders(r)) /\ c \in DOMAIN list /\ c \notin Done(list)
             /\ Exec!NextOrder(p) = list[c]
             /\ \A i \in DOMAIN list : i < c => i \in Done(list)
             /\ \A i \in Done(list) : i < c
<1> DEFINE r == job[p].run
           list == ApprovedOrders(r)
           c == cursor[p]
<1>1. /\ r \in Runs /\ Approved(r) /\ job[p].orders = list /\ c \in DOMAIN list
      /\ Exec!NextOrder(p) = list[c]
  <2>1. IsApproved(job[p]) /\ cursor[p] \in Nat \ {0}
    BY DEF FilesInv, JobsOK, PlansInv, Types, ExecutorOK
  <2>2. r \in Runs /\ Approved(r) /\ job[p].orders = list
    BY <2>1 DEF IsApproved, ApprovedOrders
  <2>3. list \in Seq(RunOrders(r))
    BY <2>2, ApprovedList
  <2>4. c \in DOMAIN list
    BY <2>1, <2>2, <2>3, RunListFacts
  <2>5. QED  BY <2>2, <2>4 DEF Exec!NextOrder
<1>2. list \in Seq(RunOrders(r))
  BY <1>1, ApprovedList
<1>3. pc[p] = "trading" /\ OnCourse(p)
  BY DEF CourseInv
<1>4. \A i \in DOMAIN list : i < c => i \in Done(list)
  BY <1>1, <1>3 DEF OnCourse, Done
<1>5. c \notin Done(list)
  BY <1>1 DEF Done
<1>6. InOrder(list)
  BY <1>1 DEF BooksInv
<1>7. c \in Nat /\ \A i \in DOMAIN list : i \in Nat
  BY <1>1, <1>2, RunListFacts
<1> HIDE DEF list, c
<1>8. ASSUME NEW i \in Done(list)
      PROVE  i < c
  <2>1. i \in DOMAIN list /\ i \in Nat
    BY <1>7 DEF Done
  <2>2. ~(c < i)
    BY <1>1, <1>5, <1>6, <2>1 DEF InOrder
  <2>3. i # c
    BY <1>5
  <2>4. QED  BY <1>7, <2>1, <2>2, <2>3
<1>9. QED  BY <1>1, <1>2, <1>4, <1>5, <1>8 DEF list, c

(* On books nobody else has touched, the order at hand is tradable, covered, and *)
(* filled, and the books move by exactly that order.                              *)
LEMMA TradeFills ==
  ASSUME OrderIdsDiffer, PlansInv, FilesInv, CourseInv, BooksInv,
         NEW p \in Procs, Exec!Trade(p), orders[Exec!NextOrder(p).id] = Absent,
         Untouched(job[p].run), SalesKept(job[p].run)
  PROVE  LET o == Exec!NextOrder(p)
         IN  /\ Exec!FillBuy(job[p], o) \/ Exec!FillSell(job[p], o)
             /\ cash \in Int /\ cash' = cash + CashDelta(o)
<1> DEFINE r == job[p].run
           list == ApprovedOrders(r)
           c == cursor[p]
           a == Account0(r)
           o == Exec!NextOrder(p)
           D == Done(list)
<1>1. /\ r \in Runs /\ Approved(r) /\ list \in Seq(RunOrders(r)) /\ c \in DOMAIN list
      /\ c \notin D /\ o = list[c] /\ D \subseteq DOMAIN list
      /\ \A i \in DOMAIN list : i < c => i \in D
  BY NextDone DEF Done, Exec!Trade
<1>2. /\ OrdersOf(r, a, list) /\ a \in Account /\ plan[r] # Absent
      /\ TradabilityRule(MarketOf(r), list)
  BY <1>1, ApprovedList
<1>3. TradedBooks(r, a, list)
  BY <1>1, <1>2 DEF BooksInv, PlanBooks
<1>4. CashAfter(a, list) >= 0
  BY <1>1, ApprovedPasses DEF BookRules, CashRule, Account0, ApprovedOrders
<1>5. job[p].date = RunDate[r] /\ Exec!ExecuteOrder(job[p], o)
  BY TradeOrder
<1>6. /\ o.symbol \in Symbols /\ o.side \in Sides /\ o.volume \in Nat \ {0} /\ IsOrder(o)
  BY <1>1, RunListFacts
<1>7. CashDelta(o) \in Int /\ EstimatedValue(o) \in Int /\ EstimatedFee(o) \in Int
  BY <1>6, MoneyTypes
<1>8. cash = a.cash + Sigma(Deltas(list), D) /\ a.cash \in Int
  BY <1>2, <1>3 DEF TradedBooks, Account
<1>9. SellableNow(o.symbol, job[p].date) = a.available[o.symbol] - Sigma(Sold(list, o.symbol), D)
  BY <1>3, <1>5, <1>6 DEF TradedBooks
<1>10. Exec!CanTrade(job[p], o)
  BY <1>1, <1>2, <1>5, ExecMoney DEF TradabilityRule, MarketOf
<1>11. Sigma(Deltas(list), D) \in Int
  BY <1>1, OneMore, <1>2
<1>12. ASSUME o.side = "BUY"
       PROVE  cash + CashDelta(o) >= 0
  <2>1. ASSUME NEW i \in DOMAIN list \ D, i # c
        PROVE  CashDelta(list[i]) <= 0
    <3>1. i \in Nat /\ c \in Nat /\ ~(i < c)
      BY <1>1, <2>1, RunListFacts
    <3>2. c < i
      BY <2>1, <3>1
    <3>3. list[i].side # "SELL"
      BY <1>1, <1>2, <1>12, <3>2 DEF OrdersOf, Layout
    <3>4. IsOrder(list[i])
      BY <1>1, RunListFacts
    <3>5. QED  BY <3>3, <3>4, BuyDelta
  <2>2. a.cash + Sigma(Deltas(list), D) + CashDelta(list[c]) >= 0
    BY <1>1, <1>2, <1>4, <2>1, CashCovers
  <2>3. QED  BY <1>1, <1>8, <2>2
<1>13. ASSUME o.side = "SELL"
       PROVE  SellableNow(o.symbol, job[p].date) >= o.volume
  BY <1>1, <1>2, <1>9, <1>13, SharesCover
<1> HIDE DEF o, list, D, a, c, r
<1>14. Exec!Covered(job[p], o)
  <2>1. CASE o.side = "BUY"
    <3>1. cash >= EstimatedValue(o) + EstimatedFee(o)
      BY <1>6, <1>7, <1>8, <1>11, <1>12, <2>1, BuyDelta
    <3>2. QED  BY <2>1, <3>1, ExecMoney DEF Exec!Covered
  <2>2. CASE o.side = "SELL"
    BY <1>13, <2>2 DEF Exec!Covered, SellableNow
  <2>3. QED  BY <1>6, <2>1, <2>2 DEF Sides
<1>15. Exec!FillBuy(job[p], o) \/ Exec!FillSell(job[p], o)
  BY <1>5, <1>10, <1>14 DEF Exec!ExecuteOrder, Exec!AnswerDuplicate, Exec!RecordUnfilled,
                              Exec!Recorded, o
<1>16. cash \in Int
  BY <1>8, <1>11
<1>17. cash' = cash + CashDelta(o)
  <2>1. CASE Exec!FillBuy(job[p], o)
    <3>1. o.side = "BUY" /\ cash' = cash - (EstimatedValue(o) + EstimatedFee(o))
      BY <2>1, ExecMoney DEF Exec!FillBuy
    <3>2. QED  BY <1>6, <1>7, <1>16, <3>1, BuyDelta
  <2>2. CASE Exec!FillSell(job[p], o)
    <3>1. o.side = "SELL" /\ cash' = cash + (EstimatedValue(o) - EstimatedFee(o))
      BY <2>2, ExecMoney DEF Exec!FillSell
    <3>2. QED  BY <1>6, <1>7, <1>16, <3>1, BuyDelta
  <2>3. QED  BY <1>15, <2>1, <2>2
<1>18. QED  BY <1>15, <1>16, <1>17 DEF o

-----------------------------------------------------------------------------
LEMMA TradeMoves ==
  ASSUME OrderIdsDiffer, PlansInv, FilesInv, CourseInv, BooksInv,
         NEW p \in Procs, Work(p), Exec!Trade(p), orders[Exec!NextOrder(p).id] = Absent,
         NEW r, r = job[p].run, Untouched(r), SalesKept(r)
  PROVE  /\ TradedBooks(r, Account0(r), ApprovedOrders(r))'
         /\ orders'[Exec!NextOrder(p).id].status = "FILLED"
<1> DEFINE o == Exec!NextOrder(p)
<1>1. PICK a, list, c, D, d : /\ a = Account0(r) /\ list = ApprovedOrders(r) /\ c = cursor[p]
                              /\ D = Done(list) /\ d = RunDate[r]
  OBVIOUS
<1>2. Account0(r)' = a /\ ApprovedOrders(r)' = list
  BY <1>1 DEF Work, Account0, ApprovedOrders
<1>3. /\ r \in Runs /\ Approved(r) /\ list \in Seq(RunOrders(r)) /\ c \in DOMAIN list
      /\ c \notin D /\ o = list[c] /\ D \subseteq DOMAIN list
  BY <1>1, NextDone DEF Done, Exec!Trade
<1>4. PICK u : u = o
  OBVIOUS
<1>5. /\ Exec!FillBuy(job[p], u) \/ Exec!FillSell(job[p], u)
      /\ cash \in Int /\ cash' = cash + CashDelta(u)
  BY <1>4, TradeFills
<1>6. job[p].date = d /\ d \in Dates
  BY <1>1, TradeOrder
<1>7. /\ u.symbol \in Symbols /\ u.volume \in Nat \ {0} /\ Board(u.volume)
      /\ u.side \in Sides /\ u.volume \in Int /\ u = list[c]
  BY <1>3, <1>4, RunListFacts, RunOrderIs
<1>8. TradedBooks(r, a, list) /\ a \in Account /\ plan[r] # Absent /\ LotsOK
  BY <1>1, <1>3, ApprovedList DEF BooksInv, PlanBooks, FilesInv
<1>9. Done(list)' = D \cup {c}
  <2>1. /\ orders'[u.id] # Absent
        /\ \A id \in OrderIds : id # u.id => orders'[id] = orders[id]
    BY <1>4, TradeRecords
  <2>2. ASSUME NEW i \in DOMAIN list
        PROVE  orders'[list[i].id] # Absent <=> (i \in D \/ i = c)
    <3>1. list[i].id \in OrderIds
      BY <1>3, <2>2, RunListFacts DEF OrderIdsDiffer
    <3>2. CASE i = c
      BY <1>7, <2>1, <3>2
    <3>3. CASE i # c /\ list[i].id # u.id
      BY <1>1, <2>1, <3>1, <3>3 DEF Done
    <3>4. CASE i # c /\ list[i].id = u.id
      <4>1. list[i] = list[c]
        BY <1>3, <1>7, <3>4, RunListFacts DEF OrderIdsDiffer
      <4>2. QED  BY <1>1, <1>3, <3>4, <4>1, ApprovedList DEF OrdersOf, Layout
    <3>5. QED  BY <3>2, <3>3, <3>4
  <2>3. QED  BY <1>3, <2>2 DEF Done
<1>10. ASSUME NEW s \in Symbols
       PROVE  /\ HeldNow(s)' = HeldNow(s) + MovedBy(u, s)
              /\ SellableNow(s, d)' = SellableNow(s, d) - SoldBy(u, s)
  <2>1. HeldNow(s) \in Int /\ SellableNow(s, d) \in Int
    BY <1>8, BooksNow
  <2>2. SellableNow(s, job[p].date)' = SellableNow(s, d)' /\ job'[p] = job[p]
    BY <1>6 DEF Exec!Trade
  <2>3. PICK x : x = job[p]
    OBVIOUS
  <2>4. x.date = d /\ (Exec!FillBuy(x, u) \/ Exec!FillSell(x, u))
    BY <1>5, <1>6, <2>3
  <2>5. CASE Exec!FillBuy(x, u)
    <3>0. x.date \in Dates
      BY <1>6, <2>4
    <3>1. \A t : /\ HeldNow(t)' = HeldNow(t) + (IF u.symbol = t THEN u.volume ELSE 0)
                 /\ SellableNow(t, x.date)' = SellableNow(t, x.date)
      <4>1. LotsOK /\ u.symbol \in Symbols /\ u.volume \in Nat \ {0} /\ Board(u.volume)
        BY <1>7, <1>8
      <4>2. QED  BY <2>5, <3>0, <4>1, BuyEffect
    <3>2. u.side = "BUY"
      BY <2>5 DEF Exec!FillBuy
    <3>3. QED  BY <1>7, <2>1, <2>4, <3>1, <3>2 DEF MovedBy, SoldBy
  <2>6. CASE Exec!FillSell(x, u)
    <3>0. x.date \in Dates
      BY <1>6, <2>4
    <3>1. \A t : /\ HeldNow(t)' = HeldNow(t) - (IF u.symbol = t THEN u.volume ELSE 0)
                 /\ SellableNow(t, x.date)' = SellableNow(t, x.date)
                                         - (IF u.symbol = t THEN u.volume ELSE 0)
      <4>1. LotsOK /\ u.symbol \in Symbols /\ u.volume \in Nat \ {0} /\ Board(u.volume)
        BY <1>7, <1>8
      <4>2. QED  BY <2>6, <3>0, <4>1, SellEffect
    <3>2. u.side = "SELL"
      BY <2>6 DEF Exec!FillSell
    <3>3. QED  BY <1>7, <2>1, <2>4, <3>1, <3>2 DEF MovedBy, SoldBy
  <2>7. QED  BY <2>4, <2>5, <2>6
<1>11. TradedBooks(r, a, list)'
  <2>1. cash' = a.cash + Sigma(Deltas(list), Done(list)')
    <3>1. cash = a.cash + Sigma(Deltas(list), D) /\ a.cash \in Int
      BY <1>1, <1>8 DEF TradedBooks, Account
    <3>2. /\ Sigma(Deltas(list), D \cup {c}) = CashDelta(u) + Sigma(Deltas(list), D)
          /\ CashDelta(u) \in Int /\ Sigma(Deltas(list), D) \in Int
      <4>1. r \in Runs /\ a \in Account /\ list \in Seq(RunOrders(r)) /\ c \in DOMAIN list
              /\ D \subseteq DOMAIN list /\ c \notin D
        BY <1>3, <1>8
      <4>2. /\ Sigma(Deltas(list), D \cup {c}) = CashDelta(list[c]) + Sigma(Deltas(list), D)
            /\ CashDelta(list[c]) \in Int /\ Sigma(Deltas(list), D) \in Int
        BY <4>1, OneMore
      <4>3. QED  BY <1>7, <4>2
    <3>3. QED  BY <1>5, <1>9, <3>1, <3>2
  <2>2. ASSUME NEW s \in Symbols
        PROVE  /\ HeldNow(s)' = a.held[s] + Sigma(Moved(list, s), Done(list)')
               /\ SellableNow(s, d)' = a.available[s] - Sigma(Sold(list, s), Done(list)')
    <3>1. /\ HeldNow(s) = a.held[s] + Sigma(Moved(list, s), D) /\ a.held[s] \in Int
          /\ SellableNow(s, d) = a.available[s] - Sigma(Sold(list, s), D) /\ a.available[s] \in Int
      BY <1>1, <1>8 DEF TradedBooks, Account
    <3>2. /\ Sigma(Moved(list, s), D) \in Int /\ Sigma(Sold(list, s), D) \in Int
          /\ Sigma(Moved(list, s), D \cup {c}) = MovedBy(u, s) + Sigma(Moved(list, s), D)
          /\ Sigma(Sold(list, s), D \cup {c}) = SoldBy(u, s) + Sigma(Sold(list, s), D)
      <4>1. r \in Runs /\ a \in Account /\ list \in Seq(RunOrders(r)) /\ c \in DOMAIN list
              /\ D \subseteq DOMAIN list /\ c \notin D
        BY <1>3, <1>8
      <4>2. \A t : /\ Sigma(Moved(list, t), D) \in Int /\ Sigma(Sold(list, t), D) \in Int
                   /\ Sigma(Moved(list, t), D \cup {c}) =
                        MovedBy(list[c], t) + Sigma(Moved(list, t), D)
                   /\ Sigma(Sold(list, t), D \cup {c}) =
                        SoldBy(list[c], t) + Sigma(Sold(list, t), D)
        BY <4>1, OneMore, ZenonT(40)
      <4>3. list[c] = u
        BY <1>7
      <4>4. QED  BY ONLY <4>2, <4>3
    <3>3. MovedBy(u, s) \in Int /\ SoldBy(u, s) \in Int
      BY <1>7 DEF MovedBy, SoldBy
    <3>4. QED  BY <1>9, <1>10, <3>1, <3>2, <3>3
  <2>3. QED  BY <1>1, <2>1, <2>2 DEF TradedBooks
<1>12. orders'[u.id].status = "FILLED"
  <2>1. orders' = [orders EXCEPT ![u.id] = [plan |-> job[p], order |-> u, status |-> "FILLED"]]
    BY <1>5 DEF Exec!FillBuy, Exec!FillSell, Exec!Write
  <2>2. On(orders, OrderIds) /\ u.id \in OrderIds
    BY <1>4, TradeRecords DEF PlansInv, Types, ExecutorOK
  <2>3. QED  BY <2>1, <2>2 DEF On
<1>13. QED  BY <1>2, <1>4, <1>11, <1>12

-----------------------------------------------------------------------------
LEMMA BooksSame ==
  ASSUME UNCHANGED lots
  PROVE  \A s, d : HeldNow(s)' = HeldNow(s) /\ SellableNow(s, d)' = SellableNow(s, d)
<1>1. ASSUME NEW s, NEW d
      PROVE  HeldNow(s)' = HeldNow(s) /\ SellableNow(s, d)' = SellableNow(s, d)
  <2>1. OfSymbol(s)' = OfSymbol(s) /\ Exec!AvailableLots(s, d)' = Exec!AvailableLots(s, d)
    BY DEF OfSymbol, Exec!AvailableLots
  <2>2. QED  BY <2>1 DEF HeldNow, SellableNow, Exec!SharesIn
<1>2. QED  BY <1>1

LEMMA HasBooksStays ==
  ASSUME UNCHANGED <<cash, lots>>, NEW r, NEW a, HasBooks(r, a)
  PROVE  HasBooks(r, a)'
BY BooksSame DEF HasBooks

LEMMA TradedBooksStay ==
  ASSUME UNCHANGED <<cash, lots, orders>>, NEW r, NEW a, NEW list
  PROVE  /\ TradedBooks(r, a, list) => TradedBooks(r, a, list)'
         /\ InOrder(list) => InOrder(list)'
<1>1. Done(list)' = Done(list)
  BY DEF Done
<1>2. QED  BY <1>1, BooksSame DEF TradedBooks, InOrder

(* A step that leaves the books and a run's files keeps what is known of the run. *)
LEMMA PlanBooksStay ==
  ASSUME NEW r \in Runs, UNCHANGED <<cash, lots, orders, plan[r], assessment[r]>>
  PROVE  /\ PlanBooks(r) => PlanBooks(r)'
         /\ (Approved(r) => InOrder(ApprovedOrders(r))) =>
              (Approved(r) => InOrder(ApprovedOrders(r)))'
<1>1. PICK a, list : a = Account0(r) /\ list = ApprovedOrders(r)
  OBVIOUS
<1>2. Account0(r)' = a /\ ApprovedOrders(r)' = list
  BY <1>1 DEF Account0, ApprovedOrders
<1>3. /\ Approved(r)' <=> Approved(r)
      /\ SalesKept(r)' <=> SalesKept(r)
      /\ Untouched(r)' <=> Untouched(r)
  BY DEF Approved, SalesKept, Untouched
<1>4. /\ HasBooks(r, a) => HasBooks(r, a)'
      /\ TradedBooks(r, a, list) => TradedBooks(r, a, list)'
      /\ InOrder(list) => InOrder(list)'
  BY HasBooksStays, TradedBooksStay
<1>5. QED  BY <1>1, <1>2, <1>3, <1>4 DEF PlanBooks

LEMMA TradeKeepsBooks ==
  ASSUME OrderIdsDiffer, PlansInv, FilesInv, CourseInv, BooksInv,
         NEW p \in Procs, Work(p), Exec!Trade(p)
  PROVE  BooksInv'
<1> DEFINE o == Exec!NextOrder(p)
<1>1. /\ sheet = Absent /\ sheet' = sheet /\ plan' = plan /\ assessment' = assessment
      /\ pc[p] = "trading" /\ pc' = pc /\ job' = job
  BY Alone DEF Exec!Trade
<1>2. Opened'
  <2>1. cash' # Absent
    BY <1>1, ExecutorStep DEF PlansInv, Types, ExecutorOK, AccountOpen, Early, Work
  <2>2. QED  BY <2>1 DEF Opened
<1>3. CASE orders[o.id] # Absent
  <2>1. UNCHANGED <<cash, lots, orders>>
    BY <1>3, TradeOrder DEF Exec!ExecuteOrder, Exec!AnswerDuplicate, Exec!RecordUnfilled,
         Exec!FillBuy, Exec!FillSell, Exec!Recorded, Exec!ledgerVars
  <2>2. ASSUME NEW r \in Runs
        PROVE  PlanBooks(r)' /\ (Approved(r) => InOrder(ApprovedOrders(r)))'
    BY <1>1, <2>1, PlanBooksStay DEF BooksInv
  <2>3. QED  BY <1>1, <1>2, <2>2 DEF BooksInv
<1>4. CASE orders[o.id] = Absent
  <2> DEFINE q == job[p].run
  <2>1. /\ o.id \in OrderIds /\ orders'[o.id] # Absent /\ orders'[o.id].plan = job[p]
        /\ \A id \in OrderIds : id # o.id => orders'[id] = orders[id]
        /\ \A id \in OrderIds : orders[id] # Absent => orders'[id] = orders[id]
    BY <1>4, TradeRecords
  <2>2. ASSUME NEW r \in Runs, Untouched(r)', plan[r] # Absent
        PROVE  r = q /\ Untouched(r)
    <3>1. o.id \notin plan[r].seen.orders
      BY <1>4, <2>2 DEF CourseInv, SeenRecorded, Recordings
    <3>2. orders'[o.id].plan.run = r
      BY <1>1, <2>1, <2>2, <3>1 DEF Untouched
    <3>3. Untouched(r)
      BY <1>1, <2>1, <2>2 DEF Untouched
    <3>4. QED  BY <2>1, <3>2, <3>3
  <2>3. q \in Runs /\ Approved(q)
    BY <1>4, NextDone DEF Exec!Trade
  <2>4. ASSUME NEW r \in Runs
        PROVE  PlanBooks(r)'
    <3>1. SUFFICES ASSUME plan[r] # Absent, Untouched(r)' PROVE PlanBooks(r)'
      BY <1>1 DEF PlanBooks
    <3>2. r = q /\ Untouched(r) /\ Approved(r) /\ Approved(r)'
      BY <1>1, <2>2, <2>3, <3>1 DEF Approved
    <3>3. SalesKept(r)' => SalesKept(r)
      BY <1>1 DEF SalesKept
    <3>4. SalesKept(r) => TradedBooks(r, Account0(r), ApprovedOrders(r))'
      BY <1>4, <3>2, TradeMoves
    <3>5. QED  BY <3>2, <3>3, <3>4 DEF PlanBooks
  <2>5. ASSUME NEW r \in Runs, Approved(r)'
        PROVE  InOrder(ApprovedOrders(r))'
    <3>1. PICK list : list = ApprovedOrders(r)
      OBVIOUS
    <3>2. ApprovedOrders(r)' = list /\ Approved(r) /\ InOrder(list)
      BY <1>1, <2>5, <3>1 DEF ApprovedOrders, Approved, BooksInv
    <3>3. list \in Seq(RunOrders(r))
      BY <3>1, <3>2, ApprovedList
    <3>4. ASSUME NEW i \in DOMAIN list, NEW j \in DOMAIN list, i < j,
                 orders'[list[j].id] # Absent
          PROVE  orders'[list[i].id] # Absent
      <4>1. list[i].id \in OrderIds /\ list[j].id \in OrderIds
        BY <3>3, <3>4, RunListFacts DEF OrderIdsDiffer
      <4>2. CASE orders[list[j].id] # Absent
        <5>1. orders[list[i].id] # Absent
          BY <3>2, <3>4, <4>2 DEF InOrder, Done
        <5>2. QED  BY <2>1, <4>1, <5>1
      <4>3. CASE orders[list[j].id] = Absent
        <5>1. list[j].id = o.id
          BY <2>1, <3>4, <4>1, <4>3
        <5>2. PICK c : /\ c \in DOMAIN ApprovedOrders(q) /\ o = ApprovedOrders(q)[c]
                       /\ ApprovedOrders(q) \in Seq(RunOrders(q))
                       /\ \A k \in DOMAIN ApprovedOrders(q) : k < c => k \in Done(ApprovedOrders(q))
          BY <1>4, NextDone DEF Exec!Trade
        <5>3. o \in RunOrders(q)
          BY <5>2, RunListFacts, <2>3
        <5>4. r = q /\ list[j] = o
          BY <2>3, <3>3, <3>4, <5>1, <5>3, RunListFacts DEF OrderIdsDiffer
        <5>5. j = c
          BY <2>3, <3>1, <3>4, <5>2, <5>4, ApprovedList DEF OrdersOf, Layout
        <5>6. orders[list[i].id] # Absent
          BY <3>1, <3>4, <5>2, <5>4, <5>5 DEF Done
        <5>7. QED  BY <2>1, <4>1, <5>6
      <4>4. QED  BY <4>2, <4>3
    <3>5. QED  BY <3>2, <3>4 DEF InOrder, Done
  <2>6. QED  BY <1>1, <1>2, <2>4, <2>5 DEF BooksInv
<1>5. QED  BY <1>3, <1>4

-----------------------------------------------------------------------------
LEMMA WorkKeepsBooks ==
  ASSUME OrderIdsDiffer, PlansInv, FilesInv, CourseInv, BooksInv, NEW p \in Procs, Work(p)
  PROVE  BooksInv'
<1>1. CASE Exec!Trade(p)
  BY <1>1, TradeKeepsBooks
<1>2. CASE ~Exec!Trade(p)
  <2>1. UNCHANGED <<cash, lots, orders, sheet, plan, assessment>>
    BY <1>2 DEF Work, Exec!Step, Exec!Validate, Exec!RefuseOvertaken, Exec!Begin,
         Exec!BeginSession, Exec!RefuseSession, Exec!RaiseInTrade, Exec!ReadCash, Exec!ReadLots,
         Exec!RaiseUnpriced, Exec!ComputeNav, Exec!KeepNav, Exec!RefuseNav, Exec!StoreNav,
         Exec!InsertNav, Exec!RaiseSecondNav, Exec!Finish, Exec!CompleteSession, Exec!Crash,
         Exec!ledgerVars
  <2>2. \A r \in Runs : PlanBooks(r)' /\ (Approved(r) => InOrder(ApprovedOrders(r)))'
    BY <2>1, PlanBooksStay DEF BooksInv
  <2>3. sheet = Absent /\ Opened'
    BY <2>1, Alone DEF Opened, BooksInv
  <2>4. QED  BY <2>1, <2>2, <2>3 DEF BooksInv
<1>3. QED  BY <1>1, <1>2

LEMMA BeginPlanBooks ==
  ASSUME PlansInv, BooksInv, NEW r \in Runs, NEW picks,
         BeginPlan(r, picks) \/ RaiseInPlan(r, picks)
  PROVE  BooksInv'
<1>1. /\ UNCHANGED <<lots, orders, plan, assessment>> /\ sheet = Absent
      /\ cash' = IF cash = Absent THEN InitialCash ELSE cash
  BY DEF BeginPlan, RaiseInPlan, Quiet, Exec!EnsureAccount
<1>2. cash' # Absent
  BY <1>1, RunsAssumption
<1>3. Opened'
  BY <1>2 DEF Opened
<1>4. ASSUME NEW q \in Runs
      PROVE  PlanBooks(q)' /\ (Approved(q) => InOrder(ApprovedOrders(q)))'
  <2>1. CASE cash = Absent
    <3>1. plan'[q] = Absent /\ plan[q] = Absent
      BY <1>1, <2>1 DEF BooksInv, Opened
    <3>2. PICK list : list = ApprovedOrders(q)
      OBVIOUS
    <3>3. ApprovedOrders(q)' = list /\ (Approved(q)' <=> Approved(q)) /\ Done(list)' = Done(list)
      BY <1>1, <3>2 DEF ApprovedOrders, Approved, Done
    <3>4. QED  BY <3>1, <3>2, <3>3 DEF PlanBooks, BooksInv, InOrder
  <2>2. CASE cash # Absent
    BY <1>1, <2>2, PlanBooksStay DEF BooksInv
  <2>3. QED  BY <2>1, <2>2
<1>5. ASSUME sheet' # Absent
      PROVE  HasBooks(sheet.run, sheet.account)'
  <2>1. BeginPlan(r, picks)
    BY <1>1, <1>5 DEF RaiseInPlan
  <2>2. PICK a : a = Snapshot(r, cash')
    OBVIOUS
  <2>3. sheet'.run = r /\ sheet'.account = a
    BY <2>1, <2>2 DEF BeginPlan
  <2>4. /\ a.cash = cash'
        /\ \A s \in Symbols : a.held[s] = HeldNow(s) /\ a.available[s] = SellableNow(s, RunDate[r])
    BY <2>2 DEF Snapshot, HeldNow, OfSymbol, SellableNow
  <2>5. HasBooks(r, a)'
    BY <1>1, <2>4, BooksSame DEF HasBooks
  <2>6. QED  BY <2>3, <2>5
<1>6. QED  BY <1>3, <1>4, <1>5 DEF BooksInv

LEMMA StorePlanBooks ==
  ASSUME PlansInv, DrawdownInv, BooksInv, StorePlan
  PROVE  BooksInv'
<1> DEFINE r == sheet.run
<1>1. /\ UNCHANGED <<execVars, assessment>> /\ sheet # Absent /\ sheet' = Absent /\ r \in Runs
      /\ plan[r] = Absent /\ assessment[r] = Absent /\ cash # Absent
  BY DEF StorePlan, PlansInv, Types, SheetOK, DrawdownInv, SeenDays, PlannedFirst, BooksInv, Opened
<1>2. /\ \A q \in Runs : q # r => plan'[q] = plan[q]
      /\ plan'[r].account = sheet.account
  BY <1>1 DEF StorePlan, PlansInv, Types, FilesOK, On
<1>3. Opened'
  BY <1>1 DEF Opened, execVars
<1>4. PICK q, a : q = r /\ a = sheet.account
  OBVIOUS
<1>5. HasBooks(q, a)'
  BY <1>1, <1>4, HasBooksStays DEF BooksInv, execVars
<1>6. PlanBooks(q)' /\ ~Approved(q)'
  BY <1>1, <1>2, <1>4, <1>5 DEF PlanBooks, Approved, Account0
<1>7. \A x \in Runs : x # q => PlanBooks(x)' /\ (Approved(x) => InOrder(ApprovedOrders(x)))'
  BY <1>1, <1>2, <1>4, PlanBooksStay DEF BooksInv, execVars
<1>8. QED  BY <1>1, <1>3, <1>6, <1>7 DEF BooksInv

LEMMA VerdictBooks ==
  ASSUME OrderIdsDiffer, PlansInv, FilesInv, BooksInv,
         NEW r \in Runs, Approve(r) \/ Adjust(r) \/ Reject(r)
  PROVE  BooksInv'
<1>1. /\ UNCHANGED <<execVars, sheet, plan>> /\ sheet = Absent
      /\ assessment[r] = Absent /\ plan[r] # Absent
      /\ \A q \in Runs : q # r => assessment'[q] = assessment[q]
  BY DEF Approve, Adjust, Reject, Decide, Quiet, PlansInv, Types, FilesOK, On
<1>2. Opened'
  BY <1>1 DEF BooksInv, Opened, execVars
<1>3. \A q \in Runs : q # r => PlanBooks(q)' /\ (Approved(q) => InOrder(ApprovedOrders(q)))'
  BY <1>1, PlanBooksStay DEF BooksInv, execVars
<1>4. PlanBooks(r)' /\ (Approved(r) => InOrder(ApprovedOrders(r)))'
  <2>1. PICK a, list : a = Account0(r) /\ list = ApprovedOrders(r)'
    OBVIOUS
  <2>2. Account0(r)' = a /\ ~Approved(r) /\ (Untouched(r)' <=> Untouched(r))
    BY <1>1, <2>1 DEF Account0, Approved, Untouched, execVars
  <2>3. Untouched(r) => HasBooks(r, a)
    BY <1>1, <2>1, <2>2 DEF BooksInv, PlanBooks
  <2>4. a \in Account
    BY <1>1, <2>1 DEF FilesInv, PlansOK, PlanShape, AccountOK, Account0
  <2>5. Untouched(r) => HasBooks(r, a)'
    BY <1>1, <2>3, HasBooksStays DEF execVars
  <2>6. ASSUME Approved(r)'
        PROVE  InOrder(list)' /\ (Untouched(r) => TradedBooks(r, a, list)')
    <3>1. list \in Seq(RunOrders(r))
      <4> DEFINE f == plan[r]
                 was == f.order.orders
      <4>1. OrdersOf(r, f.account, was) /\ f.account \in Account
        BY <1>1 DEF FilesInv, PlansOK, PlanShape, AccountOK
      <4>2. CASE Approve(r)
        <5>1. assessment'[r].plan = f.order
          BY <4>2 DEF Approve, Decide, PlansInv, Types, FilesOK, On
        <5>2. QED  BY <2>1, <4>1, <5>1 DEF ApprovedOrders, OrdersOf
      <4>3. CASE Adjust(r)
        <5>1. assessment'[r].plan = WithOrders(r, CutOf(r, was)) /\ OrderValueRule(was)
          BY <4>3 DEF Adjust, Decide, PlansInv, Types, FilesOK, On, CutOf, Passing, Passes
        <5>2. OrdersOf(r, f.account, CutOf(r, was))
          BY <4>1, <5>1, CutLayout
        <5>3. QED  BY <2>1, <5>1, <5>2 DEF ApprovedOrders, OrdersOf, WithOrders
      <4>4. CASE Reject(r)
        BY <2>6, <4>4 DEF Reject, Decide, PlansInv, Types, FilesOK, On, Approved
      <4>5. QED  BY <4>2, <4>3, <4>4
    <3>2. Done(list) = {}
      BY <2>2, <3>1, NothingDone
    <3>3. Done(list)' = {}
      BY <1>1, <3>2 DEF Done, execVars
    <3>4. InOrder(list)'
      BY <3>3 DEF InOrder
    <3>5. Untouched(r) => TradedBooks(r, a, list)
      BY <2>3, <2>4, <3>2, StartBooks
    <3>6. QED  BY <1>1, <3>4, <3>5, TradedBooksStay DEF execVars
  <2>7. QED  BY <2>1, <2>2, <2>5, <2>6 DEF PlanBooks
<1>5. QED  BY <1>1, <1>2, <1>3, <1>4 DEF BooksInv

(* A step that leaves the books and the files. *)
LEMMA BooksStay ==
  ASSUME BooksInv, UNCHANGED <<cash, lots, orders, plan, assessment>>,
         sheet' # Absent =>
           sheet # Absent /\ sheet'.run = sheet.run /\ sheet'.account = sheet.account
  PROVE  BooksInv'
<1>1. \A r \in Runs : PlanBooks(r)' /\ (Approved(r) => InOrder(ApprovedOrders(r)))'
  BY PlanBooksStay DEF BooksInv
<1>2. Opened'
  BY DEF BooksInv, Opened
<1>3. ASSUME sheet' # Absent
      PROVE  HasBooks(sheet.run, sheet.account)'
  <2>1. PICK r, a : r = sheet.run /\ a = sheet.account
    OBVIOUS
  <2>2. HasBooks(r, a)'
    BY <1>3, <2>1, HasBooksStays DEF BooksInv
  <2>3. QED  BY <1>3, <2>1, <2>2
<1>4. QED  BY <1>1, <1>2, <1>3 DEF BooksInv

LEMMA BooksInvariant == ASSUME OrderIdsDiffer PROVE Spec => []BooksInv
<1>1. Init => BooksInv
  BY DEF Init, BooksInv, Opened, PlanBooks, Approved
<1>2. PlansInv /\ DrawdownInv /\ FilesInv /\ CourseInv /\ BooksInv /\ [Next]_vars
        => BooksInv'
  <2> SUFFICES ASSUME PlansInv, DrawdownInv, FilesInv, CourseInv, BooksInv, [Next]_vars
               PROVE  BooksInv'
    OBVIOUS
  <2>1. ASSUME NEW r \in Runs, NEW picks, BeginPlan(r, picks) \/ RaiseInPlan(r, picks)
        PROVE  BooksInv'
    BY <2>1, BeginPlanBooks
  <2>2. ASSUME NEW r \in Runs, Approve(r) \/ Adjust(r) \/ Reject(r)
        PROVE  BooksInv'
    BY <2>2, VerdictBooks
  <2>3. ASSUME NEW r \in Runs, NEW p \in Procs, Execute(p, r)
        PROVE  BooksInv'
    BY <2>3, BooksStay DEF Execute, Exec!Submit, Exec!ledgerVars
  <2>4. CASE PlanSell \/ PlanBuy
    <3>1. UNCHANGED <<execVars, plan, assessment>> /\ sheet # Absent
      BY <2>4 DEF PlanSell, PlanBuy
    <3>2. sheet'.run = sheet.run /\ sheet'.account = sheet.account
      BY <2>4, <3>1 DEF PlanSell, PlanBuy, PlansInv, Types, SheetOK
    <3>3. QED  BY <3>1, <3>2, BooksStay DEF execVars
  <2>5. CASE StorePlan
    BY <2>5, StorePlanBooks
  <2>6. CASE LosePlan
    BY <2>6, BooksStay DEF LosePlan
  <2>7. ASSUME NEW p \in Procs, Work(p)
        PROVE  BooksInv'
    BY <2>7, WorkKeepsBooks
  <2>8. CASE UNCHANGED vars
    BY <2>8, BooksStay DEF vars, execVars
  <2>9. QED
    BY <2>1, <2>2, <2>3, <2>4, <2>5, <2>6, <2>7, <2>8 DEF Next
<1>3. QED
  BY <1>1, <1>2, PlansInvariant, DrawdownInvariant, FilesInvariant, CourseInvariant, PTL DEF Spec

-----------------------------------------------------------------------------
(* The market value, symbol by symbol. *)
ValueOf(d) ==
  [s \in Symbols |-> IF HeldNow(s) = 0 THEN 0 ELSE HeldNow(s) * Market[d].close[s]]

LEMMA MarketBySymbol ==
  ASSUME LotsOK, NEW d \in Dates, Exec!Priced(d)
  PROVE  Exec!MarketValue(d) = Sigma(ValueOf(d), Symbols)
<1> DEFINE H == Exec!Held
           value == [i \in H |-> lots[i].remaining * Market[d].close[lots[i].symbol]]
           key == [i \in H |-> lots[i].symbol]
           Part(s) == {i \in H : key[i] = s}
<1>1. H \subseteq DOMAIN lots /\ IsFiniteSet(H) /\ IsFiniteSet(Symbols)
  BY LotFacts, FS_Subset, PlannerAssumption DEF Exec!Held
<1>2. ASSUME NEW i \in H
      PROVE  /\ lots[i].symbol \in Symbols /\ lots[i].remaining \in Nat
             /\ Market[d].close[lots[i].symbol] \in Nat
             /\ value[i] = lots[i].remaining * Market[d].close[lots[i].symbol]
             /\ value[i] \in Int
  <2>1. lots[i].symbol \in Symbols /\ lots[i].remaining \in Nat /\ i \in DOMAIN lots
    BY <1>1, LotFacts
  <2>2. lots[i].symbol \in DOMAIN Market[d].close
    BY DEF Exec!Priced
  <2>3. Market[d].close[lots[i].symbol] \in Nat
    BY <2>2, MarketAssumption
  <2>4. value[i] = lots[i].remaining * Market[d].close[lots[i].symbol]
    OBVIOUS
  <2>5. QED  BY <2>1, <2>3, <2>4
<1>3. Exec!MarketValue(d) = Sigma(value, H)
  BY ExecSigma DEF Exec!MarketValue
<1>4. key \in [H -> Symbols] /\ \A s : Part(s) = {i \in H : lots[i].symbol = s}
  BY <1>2
<1>5. Sigma([s \in Symbols |-> Sigma(value, {i \in H : key[i] = s})], Symbols) = Sigma(value, H)
  <2> HIDE DEF key, value, H
  <2>1. QED  BY <1>1, <1>2, <1>4, SigmaSplit
<1>6. ASSUME NEW s \in Symbols
      PROVE  Sigma(value, Part(s)) = ValueOf(d)[s]
  <2> DEFINE P == Part(s)
             k == Market[d].close[s]
  <2>1. P \subseteq H /\ IsFiniteSet(P) /\ P \subseteq OfSymbol(s)
    BY <1>1, <1>4, FS_Subset DEF OfSymbol
  <2>2. /\ HeldNow(s) = Sigma(Rem, OfSymbol(s)) /\ HeldNow(s) \in Nat
        /\ IsFiniteSet(OfSymbol(s)) /\ OfSymbol(s) \subseteq DOMAIN lots
    BY BooksNow
  <2>3. ASSUME NEW i \in OfSymbol(s) \ P
        PROVE  Rem[i] = 0
    <3>1. i \in DOMAIN lots /\ i \notin H
      BY <1>4, <2>2, <2>3 DEF OfSymbol
    <3>2. lots[i].remaining \in Nat /\ Rem[i] = lots[i].remaining
      BY <3>1, LotFacts
    <3>3. ~(lots[i].remaining > 0)
      BY <3>1 DEF Exec!Held
    <3>4. QED  BY <3>2, <3>3
  <2>4. \A i \in OfSymbol(s) : Rem[i] \in Int
    BY <2>2, LotFacts
  <2> HIDE DEF P
  <2>5. HeldNow(s) = Sigma(Rem, P)
    BY <2>1, <2>2, <2>3, <2>4, SigmaZeros
  <2>6. ValueOf(d)[s] = IF HeldNow(s) = 0 THEN 0 ELSE HeldNow(s) * k
    BY DEF ValueOf
  <2>7. CASE P = {}
    <3>1. Sigma(value, P) = 0 /\ HeldNow(s) = 0
      BY <2>5, <2>7, SigmaEmpty
    <3>2. QED  BY <2>6, <3>1 DEF P
  <2>8. CASE P # {}
    <3>1. ASSUME NEW i \in P
          PROVE  /\ lots[i].symbol = s /\ Rem[i] \in Int /\ value[i] \in Int
                 /\ value[i] = Rem[i] * k /\ k \in Nat
      <4>1. i \in H /\ lots[i].symbol = s /\ i \in OfSymbol(s)
        BY <1>4, <2>1 DEF P
      <4>2. Rem[i] = lots[i].remaining /\ Rem[i] \in Int
        BY <1>1, <2>4, <4>1, LotFacts
      <4>3. QED  BY <1>2, <4>1, <4>2
    <3>2. k \in Nat
      BY <2>8, <3>1
    <3> HIDE DEF value, k
    <3>3. \A i \in P : k * Rem[i] <= 1 * value[i] /\ 1 * value[i] <= k * Rem[i]
      BY <3>1, <3>2
    <3>4. k * Sigma(Rem, P) <= 1 * Sigma(value, P)
      BY <2>1, <3>1, <3>2, <3>3, SigmaScale
    <3>5. 1 * Sigma(value, P) <= k * Sigma(Rem, P)
      BY <2>1, <3>1, <3>2, <3>3, SigmaScale
    <3>6. Sigma(value, P) \in Int /\ Sigma(Rem, P) \in Int
      BY <2>1, <3>1, SigmaInt
    <3>7. k * Sigma(Rem, P) \in Int
      BY <3>2, <3>6
    <3>8. Sigma(value, P) = k * Sigma(Rem, P)
      <4> DEFINE x == Sigma(value, P)
                 y == k * Sigma(Rem, P)
      <4>1. x \in Int /\ y \in Int /\ y <= 1 * x /\ 1 * x <= y
        BY <3>4, <3>5, <3>6, <3>7
      <4> HIDE DEF x, y
      <4>2. x = y
        BY <4>1
      <4>3. QED  BY <4>2 DEF x, y
    <3>9. k * Sigma(Rem, P) = HeldNow(s) * k
      BY <2>5, <3>2, <3>6
    <3>10. CASE HeldNow(s) = 0
      <4>1. Sigma(value, P) = 0
        BY <2>5, <3>2, <3>8, <3>10
      <4>2. QED  BY <2>6, <3>10, <4>1 DEF P
    <3>11. CASE HeldNow(s) # 0
      BY <2>6, <3>8, <3>9, <3>11 DEF P
    <3>12. QED  BY <3>10, <3>11
  <2>9. QED  BY <2>7, <2>8
<1>7. [s \in Symbols |-> Sigma(value, {i \in H : key[i] = s})] = ValueOf(d)
  <2>1. ValueOf(d) = [s \in Symbols |-> ValueOf(d)[s]]
    BY DEF ValueOf
  <2> HIDE DEF value, key, H
  <2>2. \A s \in Symbols : Sigma(value, {i \in H : key[i] = s}) = ValueOf(d)[s]
    BY <1>6
  <2>3. QED  BY <2>1, <2>2
<1>8. QED  BY <1>3, <1>5, <1>7

-----------------------------------------------------------------------------
(* What an executed plan leaves: its orders filled, its day closed as computed. *)
Closing(r) == Approved(r) /\ SalesKept(r) /\ Fresh(r)

OrdersFilled(r) ==
  \A id \in OrderIds :
    orders[id] # Absent /\ orders[id].plan.run = r => orders[id].status = "FILLED"

DayCloses(r) ==
  \A row \in nav : row.date = RunDate[r] =>
    /\ row.cash = CashAfter(Account0(r), ApprovedOrders(r))
    /\ row.market = ExposureAfter(Account0(r), MarketOf(r), ApprovedOrders(r))

CloseInv ==
  \A r \in Runs : Closing(r) =>
    OrdersFilled(r) /\ (Executed(r) => DayCloses(r))

(* As long as no later day has begun, a fresh run's books are untouched. *)
LEMMA FreshUntouched ==
  ASSUME FilesInv, CourseInv, NEW r \in Runs, Fresh(r), ~Exec!Overtaken(RunDate[r])
  PROVE  Untouched(r)
<1>1. ASSUME NEW id \in OrderIds, orders[id] # Absent, orders[id].plan.run # r
      PROVE  id \in plan[r].seen.orders
  <2> DEFINE x == orders[id].plan
  <2>1. IsApproved(x) /\ sessions[x.date] # Absent
    BY <1>1 DEF FilesInv, RowsOK, CourseInv, RowsInSession, OwnsSession
  <2>2. x.date \in Dates /\ RunDate[r] \in Dates
    BY <2>1, ApprovedFacts, CloseType DEF IsApproved, FilesInv
  <2>3. x.date <= RunDate[r]
    BY <2>1, <2>2, OrderedDates DEF Exec!Overtaken
  <2>4. QED  BY <1>1, <2>3 DEF Fresh
<1>2. QED  BY <1>1 DEF Untouched

LEMMA FreshBefore ==
  ASSUME NEW r, plan'[r] = plan[r], Exec!Days \subseteq Exec!Days',
         \A id \in OrderIds : orders[id] # Absent => orders'[id] = orders[id],
         Fresh(r)'
  PROVE  Fresh(r)
BY DEF Fresh

(* Every order done: the books are what the risk engine computed. *)
LEMMA DoneBooks ==
  ASSUME FilesInv, BooksInv, NEW r \in Runs, Approved(r), SalesKept(r), Untouched(r),
         Done(ApprovedOrders(r)) = DOMAIN ApprovedOrders(r)
  PROVE  /\ cash = CashAfter(Account0(r), ApprovedOrders(r))
         /\ Exec!Priced(RunDate[r]) =>
              Exec!MarketValue(RunDate[r]) = ExposureAfter(Account0(r), MarketOf(r), ApprovedOrders(r))
<1> DEFINE a == Account0(r)
           list == ApprovedOrders(r)
           d == RunDate[r]
<1>1. /\ a \in Account /\ list \in Seq(RunOrders(r)) /\ LotsOK /\ d \in Dates
      /\ Market[d] = MarketOf(r) /\ plan[r] # Absent
  BY ApprovedList, CloseType DEF FilesInv
<1>2. TradedBooks(r, a, list)
  BY <1>1 DEF BooksInv, PlanBooks
<1>3. cash = CashAfter(a, list)
  BY <1>1, <1>2, AfterSums DEF TradedBooks
<1>4. \A s \in Symbols : HeldNow(s) = HeldAfter(a, list, s)
  BY <1>1, <1>2, AfterSums DEF TradedBooks
<1>5. ASSUME Exec!Priced(d)
      PROVE  Exec!MarketValue(d) = ExposureAfter(a, MarketOf(r), list)
  <2> HIDE DEF a, list
  <2>1. [s \in Symbols |-> ValueAfter(a, MarketOf(r), list, s)] = ValueOf(d)
    BY <1>1, <1>4 DEF ValueAfter, ValueOf
  <2>2. ExposureAfter(a, MarketOf(r), list) = Sigma(ValueOf(d), Symbols)
    BY <2>1 DEF ExposureAfter, Sigma
  <2>3. QED  BY <1>1, <1>5, <2>2, MarketBySymbol
<1>6. QED  BY <1>3, <1>5

LEMMA CloseStays ==
  ASSUME NEW r \in Runs, UNCHANGED <<orders, nav, plan[r], assessment[r]>>,
         Executed(r)' => Executed(r) \/ RunDate[r] \notin Exec!Days,
         Closing(r) => OrdersFilled(r) /\ (Executed(r) => DayCloses(r))
  PROVE  Closing(r)' => OrdersFilled(r)' /\ (Executed(r)' => DayCloses(r)')
<1>1. Closing(r)' => Closing(r)
  BY DEF Closing, Approved, SalesKept, Fresh, Exec!Days
<1>2. OrdersFilled(r) => OrdersFilled(r)'
  BY DEF OrdersFilled
<1>3. DayCloses(r) => DayCloses(r)'
  BY DEF DayCloses, Account0, ApprovedOrders
<1>4. RunDate[r] \notin Exec!Days => DayCloses(r)'
  BY DEF DayCloses, Exec!Days
<1>5. QED  BY <1>1, <1>2, <1>3, <1>4

(* A run without a verdict has traded nothing and owns no session. *)
LEMMA NothingTraded ==
  ASSUME FilesInv, NEW r \in Runs, ~Approved(r)
  PROVE  (\A id \in OrderIds : orders[id] # Absent => orders[id].plan.run # r) /\ ~Executed(r)
<1>1. RunDate[r] \in Dates
  BY CloseType
<1>2. QED  BY <1>1 DEF FilesInv, RowsOK, SessionsOK, IsApproved, Executed

-----------------------------------------------------------------------------
LEMMA TradeKeepsClose ==
  ASSUME OrderIdsDiffer, PlansInv, FilesInv, CourseInv, BooksInv, CloseInv,
         NEW p \in Procs, Work(p), Exec!Trade(p)
  PROVE  CloseInv'
<1> DEFINE o == Exec!NextOrder(p)
<1>1. /\ o.id \in OrderIds
      /\ \A id \in OrderIds : orders[id] # Absent => orders'[id] = orders[id]
      /\ \A id \in OrderIds : orders'[id] # orders[id] =>
           id = o.id /\ orders[id] = Absent /\ orders'[id].plan = job[p]
      /\ UNCHANGED <<sessions, nav, plan, assessment>>
  BY TradeRecords DEF Work
<1>2. SUFFICES ASSUME NEW r \in Runs, Closing(r)'
               PROVE  OrdersFilled(r)' /\ (Executed(r)' => DayCloses(r)')
  BY DEF CloseInv
<1>3. Fresh(r)
  BY <1>1, <1>2, FreshBefore DEF Closing, Exec!Days
<1>4. Closing(r)
  BY <1>1, <1>2, <1>3 DEF Closing, Approved, SalesKept
<1>5. Executed(r)' => DayCloses(r)'
  BY <1>1, <1>4 DEF CloseInv, Executed, DayCloses, Account0, ApprovedOrders
<1>6. ASSUME NEW id \in OrderIds, orders'[id] # Absent, orders'[id].plan.run = r
      PROVE  orders'[id].status = "FILLED"
  <2>1. CASE orders'[id] = orders[id]
    BY <1>4, <1>6, <2>1 DEF CloseInv, OrdersFilled
  <2>2. CASE orders'[id] # orders[id]
    <3>1. id = o.id /\ orders[o.id] = Absent /\ r = job[p].run
      BY <1>1, <1>6, <2>2
    <3>2. ~Exec!Overtaken(RunDate[r])
      BY <3>1, TradeOrder DEF Exec!Trade, CourseInv, OnCourse
    <3>3. Untouched(r) /\ SalesKept(r)
      BY <1>4, <3>2, FreshUntouched DEF Closing
    <3>4. QED  BY <3>1, <3>3, TradeMoves
  <2>3. QED  BY <2>1, <2>2
<1>7. QED  BY <1>5, <1>6 DEF OrdersFilled

LEMMA StoreKeepsClose ==
  ASSUME PlansInv, FilesInv, CourseInv, BooksInv, CloseInv,
         NEW p \in Procs, Work(p), Exec!StoreNav(p)
  PROVE  CloseInv'
<1> DEFINE row == draft[p]
           x == job[p]
<1>1. /\ UNCHANGED <<cash, lots, orders, sessions, plan, assessment>>
      /\ nav' = nav \cup {row} /\ pc[p] = "inserting"
  BY DEF Exec!StoreNav, Exec!InsertNav, Work
<1>2. /\ row.date = x.date /\ OwnsSession(x) /\ AllDone(x) /\ ~Exec!Overtaken(x.date)
      /\ row.cash = cash /\ row.market = Exec!MarketValue(x.date) /\ Exec!Priced(x.date)
      /\ IsApproved(x)
  BY <1>1 DEF FilesInv, NavOK, JobsOK, CourseInv, OnCourse, Early, Late
<1>3. x.run \in Runs /\ x.date = RunDate[x.run] /\ x.orders = ApprovedOrders(x.run) /\ Approved(x.run)
  BY <1>2, ApprovedFacts DEF IsApproved, ApprovedOrders, FilesInv
<1>4. SUFFICES ASSUME NEW r \in Runs, Closing(r)'
               PROVE  OrdersFilled(r)' /\ (Executed(r)' => DayCloses(r)')
  BY DEF CloseInv
<1>5. Fresh(r)
  BY <1>1, <1>4, FreshBefore DEF Closing, Exec!Days
<1>6. Closing(r)
  BY <1>1, <1>4, <1>5 DEF Closing, Approved, SalesKept
<1>7. OrdersFilled(r)'
  BY <1>1, <1>6 DEF CloseInv, OrdersFilled
<1>8. ASSUME Executed(r)'
      PROVE  DayCloses(r)'
  <2>1. Executed(r) /\ DayCloses(r)
    BY <1>1, <1>6, <1>8 DEF CloseInv, Executed
  <2>2. PICK c, m : /\ c = CashAfter(Account0(r), ApprovedOrders(r))
                    /\ m = ExposureAfter(Account0(r), MarketOf(r), ApprovedOrders(r))
    OBVIOUS
  <2>3. /\ CashAfter(Account0(r), ApprovedOrders(r))' = c
        /\ ExposureAfter(Account0(r), MarketOf(r), ApprovedOrders(r))' = m
    <3>1. Account0(r)' = Account0(r) /\ ApprovedOrders(r)' = ApprovedOrders(r)
      BY <1>1 DEF Account0, ApprovedOrders
    <3>2. QED  BY <2>2, <3>1
  <2>4. ASSUME row.date = RunDate[r]
        PROVE  row.cash = c /\ row.market = m
    <3>1. r = x.run
      BY <1>2, <2>1, <2>4 DEF OwnsSession, Executed
    <3>2. Untouched(r) /\ SalesKept(r) /\ Approved(r)
      BY <1>2, <1>3, <1>6, <3>1, FreshUntouched DEF Closing
    <3>3. Done(ApprovedOrders(r)) = DOMAIN ApprovedOrders(r)
      BY <1>2, <1>3, <3>1 DEF AllDone, Done
    <3>4. QED  BY <1>2, <1>3, <2>2, <3>1, <3>2, <3>3, DoneBooks
  <2>5. QED  BY <1>1, <2>1, <2>2, <2>3, <2>4 DEF DayCloses
<1>9. QED  BY <1>7, <1>8

LEMMA WorkKeepsClose ==
  ASSUME OrderIdsDiffer, PlansInv, FilesInv, CourseInv, BooksInv, CloseInv,
         NEW p \in Procs, Work(p)
  PROVE  CloseInv'
<1>1. ASSUME UNCHANGED <<orders, nav, plan, assessment>>,
             \A r \in Runs : Executed(r)' => Executed(r) \/ RunDate[r] \notin Exec!Days
      PROVE  CloseInv'
  BY <1>1, CloseStays DEF CloseInv
<1>2. CASE Exec!Trade(p)
  BY <1>2, TradeKeepsClose
<1>3. CASE Exec!StoreNav(p)
  BY <1>3, StoreKeepsClose
<1>4. CASE Exec!Begin(p)
  <2> DEFINE d == job[p].date
  <2>1. /\ UNCHANGED <<orders, nav, plan, assessment>>
        /\ sessions' = IF sessions[d] = Absent
                       THEN [sessions EXCEPT ![d] = [plan |-> job[p], status |-> "STARTED"]]
                       ELSE sessions
    BY <1>4 DEF Exec!Begin, Exec!BeginSession, Work
  <2>2. On(sessions, Dates)
    BY DEF FilesInv, SessionsOK
  <2> HIDE DEF d
  <2>3. ASSUME NEW r \in Runs, Executed(r)'
        PROVE  Executed(r) \/ RunDate[r] \notin Exec!Days
    <3>1. CASE sessions'[RunDate[r]] = sessions[RunDate[r]]
      BY <2>3, <3>1 DEF Executed
    <3>2. CASE sessions'[RunDate[r]] # sessions[RunDate[r]]
      <4>1. sessions[d] = Absent /\ RunDate[r] = d
        BY <2>1, <2>2, <3>2 DEF On
      <4>2. QED  BY <4>1 DEF CourseInv, NavInSession, Exec!Days
    <3>3. QED  BY <3>1, <3>2
  <2>4. QED  BY <1>1, <2>1, <2>3
<1>5. CASE Exec!Finish(p)
  <2> DEFINE d == job[p].date
  <2>1. /\ UNCHANGED <<orders, nav, plan, assessment>> /\ sessions[d] # Absent
        /\ sessions' = [sessions EXCEPT ![d].status = "COMPLETED"] /\ pc[p] = "closing"
    BY <1>5 DEF Exec!Finish, Exec!CompleteSession, Work
  <2>2. On(sessions, Dates) /\ d \in Dates
    BY <2>1, ApprovedFacts, CloseType DEF FilesInv, SessionsOK, JobsOK, IsApproved
  <2>3. sessions[d] = [plan |-> sessions[d].plan, status |-> sessions[d].status]
    BY <2>1, <2>2 DEF FilesInv, SessionsOK, SessionShape
  <2>4. sessions'[d] = [plan |-> sessions[d].plan, status |-> "COMPLETED"]
    BY <2>1, <2>2, <2>3 DEF On
  <2> HIDE DEF d
  <2>5. \A e \in Dates : e # d => sessions'[e] = sessions[e]
    BY <2>1, <2>2 DEF On
  <2>6. \A e \in Dates : sessions'[e] # Absent =>
          sessions[e] # Absent /\ sessions'[e].plan = sessions[e].plan
    BY <2>1, <2>4, <2>5
  <2>7. \A r \in Runs : Executed(r)' => Executed(r)
    BY <2>6, CloseType DEF Executed
  <2>8. QED  BY <1>1, <2>1, <2>7
<1>6. CASE ~(Exec!Trade(p) \/ Exec!StoreNav(p) \/ Exec!Begin(p) \/ Exec!Finish(p))
  <2>1. UNCHANGED <<orders, nav, sessions, plan, assessment>>
    BY <1>6 DEF Work, Exec!Step, Exec!Validate, Exec!RefuseOvertaken,
         Exec!RefuseSession, Exec!RaiseInTrade, Exec!ReadCash, Exec!ReadLots,
         Exec!RaiseUnpriced, Exec!ComputeNav, Exec!KeepNav, Exec!RefuseNav,
         Exec!RaiseSecondNav, Exec!Crash, Exec!ledgerVars
  <2>2. QED  BY <1>1, <2>1 DEF Executed
<1>7. QED  BY <1>2, <1>3, <1>4, <1>5, <1>6

LEMMA CloseInvariant == ASSUME OrderIdsDiffer PROVE Spec => []CloseInv
<1>1. Init => CloseInv
  BY DEF Init, CloseInv, Closing, Approved
<1>2. PlansInv /\ DrawdownInv /\ FilesInv /\ CourseInv /\ BooksInv /\ CloseInv /\ [Next]_vars
        => CloseInv'
  <2> SUFFICES ASSUME PlansInv, DrawdownInv, FilesInv, CourseInv, BooksInv, CloseInv, [Next]_vars
               PROVE  CloseInv'
    OBVIOUS
  <2>1. ASSUME UNCHANGED <<orders, nav, sessions, plan, assessment>>
        PROVE  CloseInv'
    BY <2>1, CloseStays DEF CloseInv, Executed
  <2>2. CASE StorePlan
    <3>1. /\ UNCHANGED <<execVars, assessment>> /\ sheet # Absent /\ sheet.run \in Runs
          /\ assessment[sheet.run] = Absent
      BY <2>2 DEF StorePlan, PlansInv, Types, SheetOK, DrawdownInv, SeenDays, PlannedFirst
    <3>2. \A r \in Runs : r # sheet.run => plan'[r] = plan[r]
      BY <2>2, <3>1 DEF StorePlan, PlansInv, Types, FilesOK, On
    <3>3. \A r \in Runs : Executed(r)' => Executed(r)
      BY <3>1 DEF Executed, execVars
    <3>4. ASSUME NEW r \in Runs
          PROVE  Closing(r)' => OrdersFilled(r)' /\ (Executed(r)' => DayCloses(r)')
      <4>1. CASE r = sheet.run
        BY <3>1, <4>1 DEF Closing, Approved
      <4>2. CASE r # sheet.run
        BY <3>1, <3>2, <3>3, <4>2, CloseStays DEF CloseInv, execVars
      <4>3. QED  BY <4>1, <4>2
    <3>5. QED  BY <3>4 DEF CloseInv
  <2>3. ASSUME NEW q \in Runs, Approve(q) \/ Adjust(q) \/ Reject(q)
        PROVE  CloseInv'
    <3>1. /\ UNCHANGED <<execVars, plan>> /\ assessment[q] = Absent
          /\ \A r \in Runs : r # q => assessment'[r] = assessment[r]
      BY <2>3 DEF Approve, Adjust, Reject, Decide, PlansInv, Types, FilesOK, On
    <3>2. ASSUME NEW r \in Runs
          PROVE  Closing(r)' => OrdersFilled(r)' /\ (Executed(r)' => DayCloses(r)')
      <4>1. CASE r = q
        <5>1. ~Approved(r)
          BY <3>1, <4>1 DEF Approved
        <5>2. OrdersFilled(r)' /\ ~Executed(r)'
          BY <3>1, <5>1, NothingTraded DEF OrdersFilled, Executed, execVars
        <5>3. QED  BY <5>2
      <4>2. CASE r # q
        BY <3>1, <4>2, CloseStays DEF CloseInv, Executed, execVars
      <4>3. QED  BY <4>1, <4>2
    <3>3. QED  BY <3>2 DEF CloseInv
  <2>4. ASSUME NEW p \in Procs, Work(p)
        PROVE  CloseInv'
    BY <2>4, WorkKeepsClose
  <2>5. ASSUME NEW r \in Runs, NEW picks,
               BeginPlan(r, picks) \/ RaiseInPlan(r, picks) \/ \E p \in Procs : Execute(p, r)
        PROVE  CloseInv'
    <3>1. UNCHANGED <<orders, nav, sessions, plan, assessment>>
      BY <2>5 DEF BeginPlan, RaiseInPlan, Execute, Exec!Submit, Exec!EnsureAccount, Exec!ledgerVars
    <3>2. QED  BY <2>1, <3>1
  <2>6. CASE PlanSell \/ PlanBuy \/ LosePlan \/ UNCHANGED vars
    <3>1. UNCHANGED <<orders, nav, sessions, plan, assessment>>
      BY <2>6 DEF PlanSell, PlanBuy, LosePlan, vars, execVars
    <3>2. QED  BY <2>1, <3>1
  <2>7. QED
    BY <2>2, <2>3, <2>4, <2>5, <2>6 DEF Next
<1>3. QED
  BY <1>1, <1>2, PlansInvariant, DrawdownInvariant, FilesInvariant, CourseInvariant,
     BooksInvariant, PTL DEF Spec

-----------------------------------------------------------------------------
(* A sale that raises is one a later sale of the plan would have paid for. *)
LEMMA RaisingSale ==
  ASSUME OrderIdsDiffer, PlansInv, FilesInv, CourseInv, BooksInv,
         NEW p \in Procs, pc[p] = "trading", cursor[p] <= Len(job[p].orders),
         Exec!SaleBreaksCheck(job[p], Exec!NextOrder(p)),
         NEW r, r = job[p].run, Fresh(r), SalesKept(r)
  PROVE  \E i \in DOMAIN job[p].orders :
           /\ i > cursor[p]
           /\ job[p].orders[i].side = "SELL" /\ CashDelta(job[p].orders[i]) > 0
<1> DEFINE o == Exec!NextOrder(p)
           list == ApprovedOrders(r)
           c == cursor[p]
           a == Account0(r)
           D == Done(list)
<1>1. orders[o.id] = Absent /\ o.side = "SELL" /\ cash + Exec!Proceeds(o) < 0
  BY DEF Exec!SaleBreaksCheck, Exec!Recorded
<1>2. /\ r \in Runs /\ Approved(r) /\ job[p].orders = list /\ list \in Seq(RunOrders(r))
      /\ c \in DOMAIN list /\ c \notin D /\ o = list[c] /\ D \subseteq DOMAIN list
      /\ \A i \in DOMAIN list : i < c => i \in D
  BY <1>1, NextDone DEF Done
<1>3. OrdersOf(r, a, list) /\ a \in Account /\ plan[r] # Absent
  BY <1>2, ApprovedList
<1>4. ~Exec!Overtaken(RunDate[r])
  <2>1. IsApproved(job[p]) /\ ~Exec!Overtaken(job[p].date)
    BY DEF FilesInv, JobsOK, CourseInv, OnCourse
  <2>2. QED  BY <2>1, ApprovedFacts DEF IsApproved, FilesInv
<1>5. TradedBooks(r, a, list)
  BY <1>2, <1>3, <1>4, FreshUntouched DEF BooksInv, PlanBooks
<1>6. CashAfter(a, list) >= 0
  BY <1>2, ApprovedPasses DEF BookRules, CashRule, Account0, ApprovedOrders
<1>7. IsOrder(o) /\ \A i \in DOMAIN list : IsOrder(list[i])
  BY <1>2, RunListFacts
<1>8. CashDelta(o) = EstimatedValue(o) - EstimatedFee(o)
  BY <1>1, <1>7, BuyDelta
<1>9. cash + CashDelta(o) < 0
  BY <1>1, <1>8, ExecMoney
<1>10. cash = a.cash + Sigma(Deltas(list), D)
  BY <1>5 DEF TradedBooks
<1>11. SUFFICES ASSUME \A i \in DOMAIN list : i > c => ~(list[i].side = "SELL" /\ CashDelta(list[i]) > 0)
                PROVE  FALSE
  BY <1>2
<1>12. ASSUME NEW i \in DOMAIN list \ D, i # c
       PROVE  CashDelta(list[i]) <= 0
  <2>1. i \in Nat /\ c \in Nat /\ ~(i < c)
    BY <1>2, <1>12, RunListFacts
  <2>2. i > c
    BY <1>12, <2>1
  <2>3. CashDelta(list[i]) \in Int
    BY <1>7, MoneyTypes
  <2>4. QED  BY <1>7, <1>11, <2>2, <2>3, BuyDelta
<1>13. /\ a.cash + Sigma(Deltas(list), D) + CashDelta(list[c]) >= 0
       /\ Sigma(Deltas(list), D) \in Int
  BY <1>2, <1>3, <1>6, <1>12, CashCovers
<1>14. Sigma(Deltas(list), D) \in Int /\ CashDelta(o) \in Int /\ a.cash \in Int
  <2>1. CashDelta(o) \in Int
    BY <1>7, MoneyTypes
  <2>2. a.cash \in Int
    BY <1>3 DEF Account
  <2>3. QED  BY <1>13, <2>1, <2>2
<1> HIDE DEF o, list, c, a, D
<1>15. QED  BY <1>2, <1>9, <1>10, <1>13, <1>14

(* What is planned on books that stay as they were is what happens: every order is *)
(* filled, the day closes with the projected cash and the projected market value,   *)
(* and no order raises but a sale a later sale of the plan would have paid for.     *)
THEOREM ClosesAsPlannedHolds == ASSUME OrderIdsDiffer PROVE Spec => []ClosesAsPlanned
<1>1. PlansInv /\ FilesInv /\ CourseInv /\ BooksInv /\ CloseInv => ClosesAsPlanned
  <2> SUFFICES ASSUME PlansInv, FilesInv, CourseInv, BooksInv, CloseInv, NEW r \in Runs,
                      Approved(r), Executed(r), Fresh(r), SalesKept(r)
               PROVE
      /\ \A id \in OrderIds :
           orders[id] # Absent /\ orders[id].plan.run = r => orders[id].status = "FILLED"
      /\ \A row \in nav : row.date = RunDate[r] =>
           /\ row.cash = CashAfter(Account0(r), ApprovedOrders(r))
           /\ assessment[r].decision = "APPROVE" => row.cash = plan[r].cash
           /\ row.market = ExposureAfter(Account0(r), MarketOf(r), ApprovedOrders(r))
      /\ \A p \in Procs :
           /\ pc[p] = "trading" /\ job[p].run = r /\ cursor[p] <= Len(job[p].orders)
           /\ Exec!SaleBreaksCheck(job[p], Exec!NextOrder(p))
           => \E i \in DOMAIN job[p].orders :
                /\ i > cursor[p]
                /\ job[p].orders[i].side = "SELL" /\ CashDelta(job[p].orders[i]) > 0
    BY DEF ClosesAsPlanned
  <2>1. OrdersFilled(r) /\ DayCloses(r)
    BY DEF CloseInv, Closing
  <2>2. assessment[r].decision = "APPROVE" =>
          plan[r].cash = CashAfter(Account0(r), ApprovedOrders(r))
    BY ApprovedFacts DEF FilesInv, PlanShape, Account0, ApprovedOrders
  <2>3. ASSUME NEW p \in Procs, pc[p] = "trading", job[p].run = r,
               cursor[p] <= Len(job[p].orders),
               Exec!SaleBreaksCheck(job[p], Exec!NextOrder(p))
        PROVE  \E i \in DOMAIN job[p].orders :
                 /\ i > cursor[p]
                 /\ job[p].orders[i].side = "SELL" /\ CashDelta(job[p].orders[i]) > 0
    BY <2>3, RaisingSale
  <2>4. \A id \in OrderIds :
          orders[id] # Absent /\ orders[id].plan.run = r => orders[id].status = "FILLED"
    BY <2>1 DEF OrdersFilled
  <2>5. \A row \in nav : row.date = RunDate[r] =>
          /\ row.cash = CashAfter(Account0(r), ApprovedOrders(r))
          /\ row.market = ExposureAfter(Account0(r), MarketOf(r), ApprovedOrders(r))
    BY <2>1 DEF DayCloses
  <2>6. QED  BY <2>2, <2>3, <2>4, <2>5
<1>2. QED
  BY <1>1, PlansInvariant, FilesInvariant, CourseInvariant, BooksInvariant, CloseInvariant, PTL

-----------------------------------------------------------------------------
(* What was traded on the day of an executed plan is what the plan orders. *)
LEMMA DayTrades ==
  ASSUME OrderIdsDiffer, FilesInv, CourseInv, CloseInv, NEW r \in Runs,
         Closing(r), Executed(r), RunDate[r] \in Exec!Days
  PROVE  ValueFilledOn(RunDate[r]) = Turnover(ApprovedOrders(r))
<1> DEFINE d == RunDate[r]
           list == ApprovedOrders(r)
           a == Account0(r)
           T == FilledOn(d)
           g == [id \in T |-> EstimatedValue(orders[id].order)]
           h == [i \in DOMAIN list |-> list[i].id]
<1>1. /\ list \in Seq(RunOrders(r)) /\ OrdersOf(r, a, list) /\ a \in Account
      /\ IsFiniteSet(DOMAIN list) /\ d \in Dates
  BY ApprovedList, CloseType DEF Closing
<1>2. sessions[d].plan = assessment[r].plan /\ AllDone(assessment[r].plan)
  <2>1. sessions[d] # Absent /\ sessions[d].plan.run = r
    BY DEF Executed
  <2>2. sessions[d].plan = assessment[r].plan
    BY <1>1, <2>1 DEF FilesInv, SessionsOK, IsApproved
  <2>3. QED  BY <2>2 DEF CourseInv, NavInSession, Exec!Days
<1>3. ASSUME NEW i \in DOMAIN list
      PROVE  h[i] \in T /\ orders[h[i]].order = list[i]
  <2> DEFINE row == orders[list[i].id]
  <2>1. list[i] \in RunOrders(r) /\ list[i].id \in OrderIds /\ row # Absent
    BY <1>1, <1>2, RunListFacts DEF OrderIdsDiffer, AllDone, ApprovedOrders
  <2>2. IsApproved(row.plan) /\ RowShape(row) /\ row.order.id = list[i].id
    BY <2>1 DEF FilesInv, RowsOK
  <2>3. PICK j \in DOMAIN row.plan.orders : row.order = row.plan.orders[j]
    BY <2>2 DEF RowShape
  <2>4. row.order \in RunOrders(row.plan.run) /\ row.plan.run \in Runs
    BY <2>2, <2>3, ApprovedOrder DEF FilesInv, IsApproved
  <2>5. row.plan.run = r /\ row.order = list[i]
    BY <2>1, <2>2, <2>4 DEF OrderIdsDiffer
  <2>6. row.plan.date = d
    BY <2>2, <2>5, ApprovedFacts DEF IsApproved, FilesInv
  <2>7. row.status = "FILLED"
    BY <2>1, <2>5 DEF CloseInv, OrdersFilled
  <2>8. QED  BY <2>1, <2>5, <2>6, <2>7 DEF FilledOn
<1>4. ASSUME NEW id \in T
      PROVE  \E i \in DOMAIN list : h[i] = id
  <2>1. id \in OrderIds /\ orders[id] # Absent /\ orders[id].plan.date = d
    BY DEF FilledOn
  <2>2. orders[id].plan = assessment[r].plan
    BY <1>2, <2>1 DEF CourseInv, RowsInSession, OwnsSession
  <2>3. RowShape(orders[id]) /\ orders[id].order.id = id
    BY <2>1 DEF FilesInv, RowsOK
  <2>4. QED  BY <2>2, <2>3 DEF RowShape, ApprovedOrders
<1>5. \A i, j \in DOMAIN list : h[i] = h[j] => i = j
  BY <1>1, RunListFacts DEF OrderIdsDiffer, OrdersOf, Layout
<1>6. \A i \in DOMAIN list : Values(list)[i] \in Int /\ g[h[i]] = Values(list)[i]
  BY <1>1, <1>3, RunListFacts
<1>7. h \in [DOMAIN list -> T]
  BY <1>3
<1>8. ValueFilledOn(d) = Sigma(g, T)
  BY DEF ValueFilledOn, Sigma
<1>9. Turnover(list) = Sigma(Values(list), DOMAIN list)
  BY <1>1, AfterSums
<1> HIDE DEF g, h, T, list
<1>10. Sigma(g, T) = Sigma(Values(list), DOMAIN list)
  BY <1>1, <1>4, <1>5, <1>6, <1>7, SigmaRenamed
<1>11. QED  BY <1>8, <1>9, <1>10 DEF list

(* On the day a fresh plan is executed the market value at the close and the day's *)
(* trading are within the limits, measured in the ledger against the equity the    *)
(* plan started from, for any limits, fees, prices, cuts, deaths and repeats.       *)
THEOREM ClosesWithinLimitsHolds == ASSUME OrderIdsDiffer PROVE Spec => []ClosesWithinLimits
<1>1. FilesInv /\ CourseInv /\ CloseInv => ClosesWithinLimits
  <2> SUFFICES ASSUME FilesInv, CourseInv, CloseInv, NEW r \in Runs,
                      Approved(r), Executed(r), Fresh(r), SalesKept(r),
                      NEW row \in nav, row.date = RunDate[r]
               PROVE  /\ WithinPercent(row.market, MaxGrossExposure, Account0(r).equity)
                      /\ WithinPercent(ValueFilledOn(row.date), MaxTurnover, Account0(r).equity)
    BY DEF ClosesWithinLimits
  <2>1. Closing(r) /\ DayCloses(r) /\ RunDate[r] \in Exec!Days
    BY DEF CloseInv, Closing, Exec!Days
  <2>2. BookRules(Account0(r), MarketOf(r), ApprovedOrders(r))
    BY ApprovedPasses DEF Account0, ApprovedOrders
  <2>3. WithinPercent(row.market, MaxGrossExposure, Account0(r).equity)
    BY <2>1, <2>2 DEF DayCloses, BookRules, GrossExposureRule
  <2>4. WithinPercent(ValueFilledOn(row.date), MaxTurnover, Account0(r).equity)
    BY <2>1, <2>2, DayTrades DEF BookRules, TurnoverRule
  <2>5. QED  BY <2>3, <2>4
<1>2. QED
  BY <1>1, FilesInvariant, CourseInvariant, CloseInvariant, PTL

-----------------------------------------------------------------------------
(* The promise of DailySettlement, kept for the plans the planner makes and the *)
(* risk engine approves: a date is closed only after its NAV was stored.        *)
ClosingInv ==
  /\ \A p \in Procs : pc[p] = "closing" => job[p].date \in Exec!Days
  /\ \A d \in Dates :
       sessions[d] # Absent /\ sessions[d].status = "COMPLETED" => d \in Exec!Days

(* A step that completes no session keeps it, if whoever is about to close has *)
(* the NAV of the date.                                                        *)
LEMMA ClosingStays ==
  ASSUME ClosingInv, Exec!Days \subseteq Exec!Days',
         \A d \in Dates : sessions'[d] # sessions[d] => sessions'[d].status # "COMPLETED",
         \A p \in Procs : pc'[p] = "closing" =>
           \/ pc[p] = "closing" /\ job'[p] = job[p]
           \/ job'[p].date \in Exec!Days'
  PROVE  ClosingInv'
<1>1. \A p \in Procs : pc'[p] = "closing" => job'[p].date \in Exec!Days'
  BY DEF ClosingInv
<1>2. \A d \in Dates :
        sessions'[d] # Absent /\ sessions'[d].status = "COMPLETED" => d \in Exec!Days'
  BY DEF ClosingInv
<1>3. QED  BY <1>1, <1>2 DEF ClosingInv

LEMMA WorkKeepsClosing ==
  ASSUME PlansInv, FilesInv, CourseInv, ClosingInv, NEW p \in Procs, Work(p)
  PROVE  ClosingInv'
<1>1. On(pc, Procs) /\ On(sessions, Dates)
  BY DEF PlansInv, Types, ExecutorOK, FilesInv, SessionsOK
<1>2. \A q \in Procs : q # p => pc'[q] # "closing"
  BY Alone
<1>3. ASSUME Exec!Leave(p), UNCHANGED <<nav, sessions>>
      PROVE  ClosingInv'
  <2>1. pc'[p] = "idle"
    BY <1>1, <1>3 DEF Exec!Leave, On
  <2>2. QED  BY <1>2, <1>3, <2>1, ClosingStays DEF Exec!Days
<1>4. CASE \/ Exec!RefuseOvertaken(p) \/ Exec!RefuseSession(p) \/ Exec!RaiseInTrade(p)
           \/ Exec!RaiseUnpriced(p) \/ Exec!RefuseNav(p) \/ Exec!RaiseSecondNav(p) \/ Exec!Crash(p)
  BY <1>3, <1>4 DEF Exec!RefuseOvertaken, Exec!RefuseSession, Exec!RaiseInTrade,
     Exec!RaiseUnpriced, Exec!RefuseNav, Exec!RaiseSecondNav, Exec!Crash, Exec!ledgerVars
<1>5. CASE \/ Exec!Validate(p) \/ Exec!Trade(p) \/ Exec!ReadCash(p) \/ Exec!ReadLots(p)
           \/ Exec!ComputeNav(p)
  <2>1. UNCHANGED <<nav, sessions>>
    BY <1>5 DEF Exec!Validate, Exec!Trade, Exec!ReadCash, Exec!ReadLots, Exec!ComputeNav,
       Exec!ledgerVars, Exec!ExecuteOrder, Exec!AnswerDuplicate, Exec!RecordUnfilled,
       Exec!FillBuy, Exec!FillSell
  <2>2. pc'[p] # "closing"
    BY <1>1, <1>5 DEF Exec!Validate, Exec!Trade, Exec!ReadCash, Exec!ReadLots,
       Exec!ComputeNav, Exec!Goto, On
  <2>3. QED  BY <1>2, <2>1, <2>2, ClosingStays DEF Exec!Days
<1>6. CASE Exec!KeepNav(p)
  <2>1. /\ UNCHANGED <<nav, sessions, job>>
        /\ Exec!NavKept(job[p].date, draft[p].cash, draft[p].market)
    BY <1>6 DEF Exec!KeepNav, Exec!ledgerVars
  <2>2. job[p].date \in Exec!Days
    BY <2>1 DEF Exec!NavKept, Exec!NavFor, Exec!Days
  <2>3. job'[p].date \in Exec!Days' /\ Exec!Days' = Exec!Days
    BY <2>1, <2>2 DEF Exec!Days
  <2>4. QED  BY <1>2, <2>1, <2>3, ClosingStays
<1>7. CASE Exec!StoreNav(p)
  <2>1. UNCHANGED <<sessions, job>> /\ nav' = nav \cup {draft[p]} /\ pc[p] = "inserting"
    BY <1>7 DEF Exec!StoreNav, Exec!InsertNav
  <2>2. draft[p].date = job[p].date
    BY <2>1 DEF FilesInv, NavOK
  <2>3. Exec!Days \subseteq Exec!Days' /\ job'[p].date \in Exec!Days'
    BY <2>1, <2>2 DEF Exec!Days
  <2>4. QED  BY <1>2, <2>1, <2>3, ClosingStays
<1>8. CASE Exec!Begin(p)
  <2>1. /\ UNCHANGED nav /\ pc'[p] = "trading"
        /\ sessions' = IF sessions[job[p].date] = Absent
                       THEN [sessions EXCEPT ![job[p].date] =
                               [plan |-> job[p], status |-> "STARTED"]]
                       ELSE sessions
    BY <1>1, <1>8 DEF Exec!Begin, Exec!BeginSession, Exec!Goto, On
  <2>2. \A d \in Dates : sessions'[d] # sessions[d] => sessions'[d].status = "STARTED"
    BY <1>1, <2>1 DEF On
  <2>3. QED  BY <1>2, <2>1, <2>2, ClosingStays DEF Exec!Days
<1>9. CASE Exec!Finish(p)
  <2>1. /\ UNCHANGED nav /\ pc[p] = "closing" /\ Exec!Leave(p)
        /\ sessions' = [sessions EXCEPT ![job[p].date].status = "COMPLETED"]
    BY <1>9 DEF Exec!Finish, Exec!CompleteSession
  <2>2. pc'[p] = "idle" /\ Exec!Days' = Exec!Days
    BY <1>1, <2>1 DEF Exec!Leave, Exec!Days, On
  <2>3. \A d \in Dates : d # job[p].date => sessions'[d] = sessions[d]
    BY <1>1, <2>1 DEF On
  <2>4. QED  BY <1>2, <2>1, <2>2, <2>3 DEF ClosingInv
<1>10. QED
  BY <1>4, <1>5, <1>6, <1>7, <1>8, <1>9 DEF Work, Exec!Step

LEMMA ClosingInvariant == ASSUME OrderIdsDiffer PROVE Spec => []ClosingInv
<1>1. Init => ClosingInv
  BY DEF Init, Exec!Init, Exec!LedgerInit, ClosingInv
<1>2. PlansInv /\ FilesInv /\ CourseInv /\ ClosingInv /\ [Next]_vars => ClosingInv'
  <2> SUFFICES ASSUME PlansInv, FilesInv, CourseInv, ClosingInv, [Next]_vars
               PROVE  ClosingInv'
    OBVIOUS
  <2>1. CASE UNCHANGED <<sessions, nav, pc, job>>
    BY <2>1 DEF ClosingInv, Exec!Days
  <2>2. ASSUME NEW p \in Procs, NEW r \in Runs, Execute(p, r)
        PROVE  ClosingInv'
    <3>1. UNCHANGED <<sessions, nav>> /\ pc' = [pc EXCEPT ![p] = "validating"] /\ Quiet
      BY <2>2 DEF Execute, Exec!Submit, Exec!Goto, Exec!ledgerVars
    <3>2. \A q \in Procs : pc'[q] # "closing"
      BY <3>1 DEF Quiet, PlansInv, Types, ExecutorOK, On
    <3>3. QED  BY <3>1, <3>2, ClosingStays DEF Exec!Days
  <2>3. ASSUME NEW p \in Procs, Work(p)
        PROVE  ClosingInv'
    BY <2>3, WorkKeepsClosing
  <2>4. QED
    BY <2>1, <2>2, <2>3
    DEF Next, BeginPlan, RaiseInPlan, PlanSell, PlanBuy, StorePlan, LosePlan, Approve, Adjust,
        Reject, Decide, Exec!EnsureAccount, vars, execVars
<1>3. QED  BY <1>1, <1>2, PlansInvariant, FilesInvariant, CourseInvariant, PTL DEF Spec

-----------------------------------------------------------------------------
(* The abstract state the ledger of the trading days is mapped to. *)
Owner == [d \in Dates |-> IF sessions[d] = Absent THEN Absent ELSE sessions[d].plan]
Closed == {d \in Dates : sessions[d] # Absent /\ sessions[d].status = "COMPLETED"}

AbstractStep ==
  \/ Exec!Settles!SettlementNext
  \/ UNCHANGED <<Owner, Recordings, Exec!Days, Closed>>

(* An approved plan is one of the plans there can be. *)
LEMMA ApprovedPlanFile ==
  ASSUME OrderIdsDiffer, FilesInv, NEW x, IsApproved(x)
  PROVE  /\ x \in AllPlans /\ x # Absent /\ x.run \in Runs /\ x.date \in Dates
         /\ x.orders \in Seq(RunOrders(x.run))
<1>1. PICK r \in Runs : Approved(r) /\ x = assessment[r].plan /\ x.run = r
  BY DEF IsApproved
<1>2. /\ x = WithOrders(r, x.orders) /\ x.orders \in Seq(RunOrders(r))
      /\ x.date = RunDate[r] /\ RunDate[r] \in Dates
  BY <1>1, ApprovedFacts, CloseType DEF OrdersOf, FilesInv
<1>3. x \in AllPlans
  BY <1>1, <1>2, PlanFileType
<1>4. QED  BY <1>1, <1>2, <1>3, AbsentAssumption

LEMMA OwnedDates ==
  ASSUME OrderIdsDiffer, FilesInv, NEW d \in Dates
  PROVE  /\ Owner[d] = Absent <=> sessions[d] = Absent
         /\ sessions[d] # Absent => Owner[d] = sessions[d].plan /\ Owner[d].run = sessions[d].plan.run
<1>1. CASE sessions[d] = Absent
  BY <1>1 DEF Owner
<1>2. CASE sessions[d] # Absent
  <2>1. IsApproved(sessions[d].plan)
    BY <1>2 DEF FilesInv, SessionsOK
  <2>2. sessions[d].plan # Absent
    BY <2>1, ApprovedPlanFile
  <2>3. QED  BY <1>2, <2>2 DEF Owner
<1>3. QED  BY <1>1, <1>2

(* The plan a step is about, and the date it works on. *)
LEMMA WorkedPlan ==
  ASSUME OrderIdsDiffer, PlansInv, FilesInv, CourseInv, NEW p \in Procs, pc[p] # "idle"
  PROVE  /\ job[p] \in AllPlans /\ job[p].date \in Dates /\ job[p].run \in Runs
         /\ job[p].orders \in Seq(RunOrders(job[p].run)) /\ IsApproved(job[p])
         /\ pc[p] \notin Early => /\ sessions[job[p].date] # Absent
                                  /\ Owner[job[p].date] = job[p]
<1>1. IsApproved(job[p])
  BY DEF FilesInv, JobsOK
<1>2. /\ job[p] \in AllPlans /\ job[p].date \in Dates /\ job[p].run \in Runs
      /\ job[p].orders \in Seq(RunOrders(job[p].run))
  BY <1>1, ApprovedPlanFile
<1>3. ASSUME pc[p] \notin Early
      PROVE  sessions[job[p].date] # Absent /\ Owner[job[p].date] = job[p]
  <2>1. sessions[job[p].date] # Absent /\ sessions[job[p].date].plan = job[p]
    BY <1>3 DEF CourseInv, OnCourse, OwnsSession
  <2>2. QED  BY <1>2, <2>1 DEF Owner
<1>4. QED  BY <1>1, <1>2, <1>3

LEMMA BeginOpens ==
  ASSUME OrderIdsDiffer, PlansInv, FilesInv, CourseInv, NEW p \in Procs, Exec!Begin(p)
  PROVE  AbstractStep
<1>1. PICK x, d : x = job[p] /\ d = x.date
  OBVIOUS
<1>2. /\ pc[p] = "opening" /\ UNCHANGED <<orders, nav>> /\ ~Exec!SessionRefused(x)
      /\ sessions' = IF sessions[d] = Absent
                     THEN [sessions EXCEPT ![d] = [plan |-> x, status |-> "STARTED"]]
                     ELSE sessions
  BY <1>1 DEF Exec!Begin, Exec!BeginSession
<1>3. x \in AllPlans /\ d \in Dates /\ On(sessions, Dates)
  BY <1>1, <1>2, WorkedPlan DEF FilesInv, SessionsOK
<1>4. UNCHANGED <<Recordings, Exec!Days>>
  BY <1>2 DEF Recordings, Exec!Days
<1>5. CASE sessions[d] # Absent
  BY <1>2, <1>4, <1>5 DEF AbstractStep, Owner, Closed
<1>6. CASE sessions[d] = Absent
  <2> DEFINE row == [plan |-> x, status |-> "STARTED"]
  <2>1. row # Absent /\ row.plan = x /\ row.status # "COMPLETED"
    BY <1>3, AbsentAssumption DEF Exec!Session
  <2>2. sessions'[d] = row /\ \A e \in Dates : e # d => sessions'[e] = sessions[e]
    BY <1>2, <1>3, <1>6 DEF On
  <2> HIDE DEF row
  <2>3. Owner[d] = Absent /\ \A e \in Dates : Owner[e] # Absent => Owner[e].run # x.run
    BY <1>1, <1>2, <1>3, <1>6, OwnedDates DEF Exec!SessionRefused
  <2>4. Owner' = [Owner EXCEPT ![d] = x]
    BY <1>3, <2>1, <2>2 DEF Owner
  <2>5. Closed' = Closed
    BY <1>6, <2>1, <2>2 DEF Closed
  <2>6. Exec!Settles!Open(x)
    BY <1>1, <1>4, <2>3, <2>4, <2>5 DEF Exec!Settles!Open, Owner, Recordings, Closed, Exec!Days
  <2>7. QED  BY <1>3, <2>6 DEF AbstractStep, Exec!Settles!SettlementNext
<1>7. QED  BY <1>5, <1>6

LEMMA TradeApplies ==
  ASSUME OrderIdsDiffer, PlansInv, FilesInv, CourseInv, ClosingInv, NEW p \in Procs, Exec!Trade(p)
  PROVE  AbstractStep
<1>1. PICK x, o : x = job[p] /\ o = Exec!NextOrder(p)
  OBVIOUS
<1>2. /\ o.id \in OrderIds /\ orders'[o.id] # Absent
      /\ \A id \in OrderIds : orders[id] # Absent => orders'[id] = orders[id]
      /\ \A id \in OrderIds : orders'[id] # orders[id] => id = o.id /\ orders[id] = Absent
      /\ UNCHANGED <<sessions, nav>>
  BY <1>1, TradeRecords
<1>3. cursor[p] \in DOMAIN x.orders /\ o = x.orders[cursor[p]]
  BY <1>1, TradeOrder
<1>4. UNCHANGED <<Owner, Exec!Days, Closed>>
  BY <1>2 DEF Owner, Exec!Days, Closed
<1>5. CASE orders[o.id] # Absent
  <2>1. Recordings' = Recordings
    BY <1>2, <1>5 DEF Recordings
  <2>2. QED  BY <1>4, <2>1 DEF AbstractStep
<1>6. CASE orders[o.id] = Absent
  <2>1. o.id \notin Recordings /\ Recordings' = Recordings \cup {o.id}
    BY <1>2, <1>6 DEF Recordings
  <2>2. pc[p] = "trading"
    BY DEF Exec!Trade
  <2>3. /\ x \in AllPlans /\ x.date \in Dates
        /\ sessions[x.date] # Absent /\ Owner[x.date] = x
    BY <1>1, <2>2, WorkedPlan DEF Early
  <2>4. sessions[x.date].plan = x
    BY <2>3 DEF Owner
  <2>5. x.date \notin Closed
    <3>1. SUFFICES ASSUME x.date \in Exec!Days PROVE FALSE
      BY DEF Closed, ClosingInv
    <3>2. PICK row \in nav : row.date = x.date
      BY <3>1 DEF Exec!Days
    <3>3. AllDone(x)
      BY <2>4, <3>2 DEF CourseInv, NavInSession
    <3>4. QED  BY <1>3, <1>6, <3>3 DEF AllDone
  <2>6. o.id \in Exec!Settles!IdsOf(x)
    BY <1>3 DEF Exec!Settles!IdsOf
  <2>7. PICK id \in OrderIds : id = o.id
    BY <1>2
  <2>8. Exec!Settles!Apply(x, id)
    BY <1>4, <2>1, <2>3, <2>5, <2>6, <2>7
    DEF Exec!Settles!Apply, Owner, Recordings, Closed, Exec!Days
  <2>9. QED  BY <2>3, <2>7, <2>8 DEF AbstractStep, Exec!Settles!SettlementNext
<1>7. QED  BY <1>5, <1>6

LEMMA StoreNavValues ==
  ASSUME OrderIdsDiffer, PlansInv, FilesInv, CourseInv, NEW p \in Procs, Exec!StoreNav(p)
  PROVE  AbstractStep
<1>1. PICK x : x = job[p]
  OBVIOUS
<1>2. /\ pc[p] = "inserting" /\ UNCHANGED <<orders, sessions>>
      /\ draft[p].date \notin Exec!Days /\ nav' = nav \cup {draft[p]}
  BY DEF Exec!StoreNav, Exec!InsertNav
<1>3. UNCHANGED <<Owner, Recordings, Closed>>
  BY <1>2 DEF Owner, Recordings, Closed
<1>4. draft[p].date = x.date
  BY <1>1, <1>2 DEF FilesInv, NavOK
<1>5. x.date \notin Exec!Days /\ Exec!Days' = Exec!Days \cup {x.date}
  BY <1>2, <1>4 DEF Exec!Days
<1>6. /\ x \in AllPlans /\ Owner[x.date] = x /\ x.run \in Runs
      /\ x.orders \in Seq(RunOrders(x.run))
  BY <1>1, <1>2, WorkedPlan DEF Early
<1>7. Exec!Settles!IdsOf(x) \subseteq Recordings
  <2>1. AllDone(x)
    BY <1>1, <1>2 DEF CourseInv, OnCourse, Late
  <2>2. \A i \in DOMAIN x.orders : x.orders[i].id \in OrderIds
    BY <1>6, RunListFacts DEF OrderIdsDiffer
  <2>3. QED  BY <2>1, <2>2 DEF Exec!Settles!IdsOf, AllDone, Recordings
<1>8. Exec!Settles!Value(x)
  BY <1>3, <1>5, <1>6, <1>7 DEF Exec!Settles!Value, Owner, Recordings, Closed, Exec!Days
<1>9. QED  BY <1>6, <1>8 DEF AbstractStep, Exec!Settles!SettlementNext

LEMMA FinishCloses ==
  ASSUME OrderIdsDiffer, PlansInv, FilesInv, CourseInv, ClosingInv, NEW p \in Procs, Exec!Finish(p)
  PROVE  AbstractStep
<1>1. PICK x, d : x = job[p] /\ d = x.date
  OBVIOUS
<1>2. /\ pc[p] = "closing" /\ UNCHANGED <<orders, nav>>
      /\ sessions' = [sessions EXCEPT ![d].status = "COMPLETED"]
  BY <1>1 DEF Exec!Finish, Exec!CompleteSession
<1>3. UNCHANGED <<Recordings, Exec!Days>>
  BY <1>2 DEF Recordings, Exec!Days
<1>4. x \in AllPlans /\ d \in Dates /\ sessions[d] # Absent /\ Owner[d] = x /\ On(sessions, Dates)
  BY <1>1, <1>2, WorkedPlan DEF Early, FilesInv, SessionsOK
<1>5. sessions[d].plan = x
  BY <1>4 DEF Owner
<1>6. sessions[d] = [plan |-> x, status |-> sessions[d].status]
  <2>1. SessionsOK
    BY DEF FilesInv
  <2>2. SessionShape(d, sessions[d])
    BY <1>4, <2>1 DEF SessionsOK
  <2>3. QED  BY <1>5, <2>2 DEF SessionShape
<1>7. /\ sessions'[d] = [plan |-> x, status |-> "COMPLETED"]
      /\ \A e \in Dates : e # d => sessions'[e] = sessions[e]
  BY <1>2, <1>4, <1>6 DEF On
<1>8. sessions'[d] # Absent /\ sessions'[d].plan = x /\ sessions'[d].status = "COMPLETED"
  BY <1>4, <1>7, AbsentAssumption DEF Exec!Session
<1>9. Owner' = Owner
  BY <1>4, <1>5, <1>7, <1>8 DEF Owner
<1>10. Closed' = Closed \cup {d}
  BY <1>4, <1>7, <1>8 DEF Closed
<1>11. d \in Exec!Days
  BY <1>1, <1>2 DEF ClosingInv
<1>12. CASE d \in Closed
  <2>1. Closed' = Closed
    BY <1>10, <1>12
  <2>2. QED  BY <1>3, <1>9, <2>1 DEF AbstractStep
<1>13. CASE d \notin Closed
  <2>1. Exec!Settles!Close(x)
    BY <1>1, <1>3, <1>4, <1>9, <1>10, <1>11, <1>13
    DEF Exec!Settles!Close, Owner, Recordings, Closed, Exec!Days
  <2>2. QED  BY <1>4, <2>1 DEF AbstractStep, Exec!Settles!SettlementNext
<1>14. QED  BY <1>12, <1>13

(* The planner, the risk engine and the executor together keep the promise the *)
(* daily workflow relies on: the plans they make are opened, applied, valued and *)
(* closed as DailySettlement says, for any account, market, limits and deaths.   *)
THEOREM TradingDaysSettle == ASSUME OrderIdsDiffer PROVE Spec => Exec!SettlesDaily
<1>1. Init => Exec!Settles!SettlementInit
  BY DEF Init, Exec!Init, Exec!LedgerInit, Exec!Settles!SettlementInit, Exec!Days
<1>2. PlansInv /\ FilesInv /\ CourseInv /\ ClosingInv /\ [Next]_vars
        => [Exec!Settles!SettlementNext]_(Exec!Settles!settlementVars)
  <2> SUFFICES ASSUME PlansInv, FilesInv, CourseInv, ClosingInv, [Next]_vars
               PROVE  AbstractStep
    BY DEF AbstractStep, Exec!Settles!settlementVars, Owner, Recordings, Closed
  <2>1. CASE UNCHANGED <<sessions, orders, nav>>
    BY <2>1 DEF AbstractStep, Owner, Recordings, Exec!Days, Closed
  <2>2. ASSUME NEW p \in Procs, Work(p)
        PROVE  AbstractStep
    <3>1. CASE Exec!Begin(p) \/ Exec!Trade(p) \/ Exec!StoreNav(p) \/ Exec!Finish(p)
      BY <3>1, BeginOpens, TradeApplies, StoreNavValues, FinishCloses
    <3>2. CASE ~(Exec!Begin(p) \/ Exec!Trade(p) \/ Exec!StoreNav(p) \/ Exec!Finish(p))
      <4>1. UNCHANGED <<sessions, orders, nav>>
        BY <2>2, <3>2
        DEF Work, Exec!Step, Exec!ledgerVars, Exec!Validate, Exec!RefuseOvertaken,
            Exec!RefuseSession, Exec!RaiseInTrade, Exec!ReadCash, Exec!ReadLots,
            Exec!RaiseUnpriced, Exec!ComputeNav, Exec!KeepNav, Exec!RefuseNav,
            Exec!RaiseSecondNav, Exec!Crash
      <4>2. QED  BY <2>1, <4>1
    <3>3. QED  BY <3>1, <3>2
  <2>3. QED
    BY <2>1, <2>2
    DEF Next, BeginPlan, RaiseInPlan, PlanSell, PlanBuy, StorePlan, LosePlan, Approve, Adjust,
        Reject, Decide, Execute, Exec!Submit, Exec!EnsureAccount, Exec!ledgerVars, vars, execVars
<1>3. QED
  BY <1>1, <1>2, PlansInvariant, FilesInvariant, CourseInvariant, ClosingInvariant, PTL
  DEF Spec, Exec!SettlesDaily, Exec!Settles!Settlement

-----------------------------------------------------------------------------
(* Whatever the ledger holds was ordered by the plan an assessment on file binds: *)
(* planned for its run, on its run's date, in whole lots, under the session of    *)
(* that date; and an assessment something was traded on is there to stay.         *)
LedgerIsApproved ==
  \A id \in OrderIds : orders[id] # Absent =>
    LET x == orders[id].plan
        o == orders[id].order
    IN  /\ x.run \in Runs /\ Approved(x.run) /\ x = assessment[x.run].plan
        /\ \E i \in DOMAIN x.orders : x.orders[i] = o
        /\ o.id = id /\ o.volume % LotSize = 0
        /\ sessions[x.date] # Absent /\ sessions[x.date].plan = x

(* No rival run, repeat or death brings an order into the ledger that no approval *)
(* covers, or leaves one there whose approval is gone.                            *)
THEOREM LedgerIsApprovedHolds == ASSUME OrderIdsDiffer PROVE Spec => []LedgerIsApproved
<1>1. FilesInv /\ CourseInv => LedgerIsApproved
  <2> SUFFICES ASSUME FilesInv, CourseInv, NEW id \in OrderIds, orders[id] # Absent,
                      NEW x, x = orders[id].plan, NEW o, o = orders[id].order
               PROVE  /\ x.run \in Runs /\ Approved(x.run) /\ x = assessment[x.run].plan
                      /\ \E i \in DOMAIN x.orders : x.orders[i] = o
                      /\ o.id = id /\ o.volume % LotSize = 0
                      /\ sessions[x.date] # Absent /\ sessions[x.date].plan = x
    BY DEF LedgerIsApproved
  <2>1. IsApproved(x) /\ RowShape(orders[id]) /\ o.id = id
    BY DEF FilesInv, RowsOK
  <2>2. PICK i \in DOMAIN x.orders : x.orders[i] = o
    BY <2>1 DEF RowShape
  <2>3. o \in RunOrders(x.run) /\ x.run \in Runs
    BY <2>1, <2>2, ApprovedOrder DEF FilesInv, IsApproved
  <2>4. o.volume % LotSize = 0
    BY <2>3, RunOrderIs, BoardIs
  <2>5. OwnsSession(x)
    BY DEF CourseInv, RowsInSession
  <2>6. QED  BY <2>1, <2>2, <2>4, <2>5 DEF IsApproved, OwnsSession
<1>2. QED  BY <1>1, FilesInvariant, CourseInvariant, PTL

=============================================================================
