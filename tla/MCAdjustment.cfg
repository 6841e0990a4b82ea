SPECIFICATION Spec
CHECK_DEADLOCK FALSE
CONSTANTS
  x = x
  y = y
  Absent = Absent
  Procs = {1}
  MaxCrashes = 0
  Symbols <- MCSymbols
  Rank <- MCRank
  BpsScale <- MCScale
  CommissionBps = 2
  MinimumCommission = 2
  StampDutyBps = 1
  TransferBps = 0
  SlippageBps = 2
  LotSize <- MCLot
  MaxPositionWeight = 30
  MaxSingleWeight = 30
  MaxGrossExposure = 50
  MaxTurnover = 100
  MaxDrawdown = 15
  MaxOrderValue = 306
  InitialCash = 1000
  Dates <- AdjustDates
  Market <- AdjustMarket
  Runs <- AdjustRuns
  RunDate <- AdjustRunDate
  Picks <- AdjustPicks
  OrderIds <- MCIds
  OrderId <- MCOrderId
INVARIANT
  AdjustedPlansPass
