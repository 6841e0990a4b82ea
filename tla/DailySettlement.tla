--------------------------- MODULE DailySettlement ---------------------------
(***************************************************************************)
(* What executing plans on the ledger promises to the daily workflow: a    *)
(* trade date belongs to the one plan that opened it, a plan's orders take *)
(* effect at most once each and only while its date is being worked, and a *)
(* date closes after all of them took effect and its NAV was stored.       *)
(***************************************************************************)
CONSTANTS Plans, Dates, OrderIds, Absent

VARIABLES
  owner,     \* date -> the plan that opened it, or Absent
  applied,   \* orders that took effect
  valued,    \* dates whose NAV is stored
  closed     \* dates whose execution is complete

settlementVars == <<owner, applied, valued, closed>>

IdsOf(plan) == {plan.orders[i].id : i \in DOMAIN plan.orders}

SettlementInit ==
  /\ owner = [d \in Dates |-> Absent]
  /\ applied = {}
  /\ valued = {}
  /\ closed = {}

Open(plan) ==
  /\ owner[plan.date] = Absent
  /\ \A d \in Dates : owner[d] # Absent => owner[d].run # plan.run
  /\ owner' = [owner EXCEPT ![plan.date] = plan]
  /\ UNCHANGED <<applied, valued, closed>>

Apply(plan, id) ==
  /\ owner[plan.date] = plan
  /\ plan.date \notin closed
  /\ id \in IdsOf(plan) \ applied
  /\ applied' = applied \cup {id}
  /\ UNCHANGED <<owner, valued, closed>>

Value(plan) ==
  /\ owner[plan.date] = plan
  /\ plan.date \notin valued
  /\ IdsOf(plan) \subseteq applied
  /\ valued' = valued \cup {plan.date}
  /\ UNCHANGED <<owner, applied, closed>>

Close(plan) ==
  /\ owner[plan.date] = plan
  /\ plan.date \in valued \ closed
  /\ closed' = closed \cup {plan.date}
  /\ UNCHANGED <<owner, applied, valued>>

SettlementNext ==
  \E plan \in Plans :
    \/ Open(plan)
    \/ \E id \in OrderIds : Apply(plan, id)
    \/ Value(plan)
    \/ Close(plan)

Settlement == SettlementInit /\ [][SettlementNext]_settlementVars
=============================================================================
