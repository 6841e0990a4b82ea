SPECIFICATION Spec
CONSTANTS
  a = a
  b = b
  c = c
  Absent = Absent
  Dates <- MCDates
  OrderIds <- MCIds
  Plans <- MCPlans
  Runs = {a, b, c}
  PlanOf <- MCPlanOf
  Raising <- NoRaising
  RulesReject = {}
  Possible = {"crash", "expiry", "switch"}
  MaxUpsets = 2
INVARIANTS
  TypeOK
  ExecutedOnlyIfApproved
  PublishedIsCompleted
PROPERTIES
  IndexNeverRegresses
