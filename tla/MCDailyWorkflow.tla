--------------------------- MODULE MCDailyWorkflow ---------------------------
(***************************************************************************)
(* Small workflows for TLC.                                                 *)
(***************************************************************************)
EXTENDS DailyWorkflow, TLC

CONSTANTS a, b, c

Plan(run, date, ids) ==
  [run |-> run, date |-> date,
   orders |-> [i \in DOMAIN ids |-> [id |-> ids[i]]]]

(* a and b compete for the first date, c has the second. *)
MCPlanOf == a :> Plan(a, 1, <<"a-1", "a-2">>) @@ b :> Plan(b, 1, <<"b-1">>)
              @@ c :> Plan(c, 2, <<"c-1">>)
TwoPlanOf == a :> MCPlanOf[a] @@ c :> MCPlanOf[c]
OnePlanOf == a :> MCPlanOf[a]

NoRaising == [r \in Runs |-> {}]

(* c sells something whose fee its account cannot bear, or holds something that *)
(* has no price on its date.                                                    *)
ExecutionRaises == [r \in Runs |-> IF r = c THEN {"EXECUTION"} ELSE {}]

MCPlans == {MCPlanOf[r] : r \in {a, b, c}}
MCIds == {"a-1", "a-2", "b-1", "c-1"}
MCDates == 1..2
=============================================================================
