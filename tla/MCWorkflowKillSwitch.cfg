SPECIFICATION Spec
CONSTANTS
  a = a
  b = b
  c = c
  Absent = Absent
  Dates <- MCDates
  OrderIds <- MCIds
  Plans <- MCPlans
  Runs = {a}
  PlanOf <- OnePlanOf
  Raising <- NoRaising
  RulesReject = {}
  Possible = {"switch"}
  MaxUpsets = 1
INVARIANTS
  KillSwitchOnlyDelays
