SPECIFICATION DiligentSpec
CONSTANTS
  a = a
  b = b
  c = c
  Absent = Absent
  Dates <- MCDates
  OrderIds <- MCIds
  Plans <- MCPlans
  Runs = {a}
  PlanOf <- OnePlanOf
  Raising <- NoRaising
  RulesReject = {}
  Possible = {"crash"}
  MaxUpsets = 1
PROPERTIES
  IncompleteRunsResume
