SPECIFICATION Spec
CHECK_DEADLOCK FALSE
CONSTANTS
  x = x
  y = y
  Absent = Absent
  Procs = {1}
  MaxCrashes = 1
  Symbols <- MCSymbols
  Rank <- MCRank
  BpsScale <- MCScale
  CommissionBps = 2
  MinimumCommission = 2
  StampDutyBps = 1
  TransferBps = 0
  SlippageBps = 2
  LotSize <- MCLot
  MaxPositionWeight = 50
  MaxSingleWeight = 70
  MaxGrossExposure = 91
  MaxTurnover = 100
  MaxDrawdown = 15
  MaxOrderValue = 520
  InitialCash = 1000
  Dates <- DayDates
  Market <- DayMarket
  Runs <- DayRuns
  RunDate <- DayRunDate
  Picks <- DayPicks
  OrderIds <- MCIds
  OrderId <- MCOrderId
INVARIANTS
  TypeOK
  PurchasesAreFunded
  OrdersAreCapped
  BoardLots
  ClosesAsPlanned
  ClosesWithinLimits
  DrawdownHalts
