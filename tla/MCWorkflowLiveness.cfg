SPECIFICATION FairSpec
CONSTANTS
  a = a
  b = b
  c = c
  Absent = Absent
  Dates <- MCDates
  OrderIds <- MCIds
  Plans <- MCPlans
  Runs = {a, c}
  PlanOf <- TwoPlanOf
  Raising <- ExecutionRaises
  RulesReject = {}
  Possible <- Upsets
  MaxUpsets = 2
INVARIANTS
  ExecutionIsSettled
  StagesInOrder
PROPERTIES
  CompletedIsFinal
  RunsFinish
