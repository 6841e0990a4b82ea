SPECIFICATION SettlingSpec
CONSTANTS
  x = x
  y = y
  Absent = Absent
  Procs = {1}
  MaxCrashes = 2
  Symbols <- MCSymbols
  BpsScale <- MCScale
  CommissionBps = 1
  MinimumCommission = 2
  StampDutyBps = 1
  TransferBps = 0
  SlippageBps = 1
  InitialCash = 39
  SeedLots <- MCSeedLots
  Dates <- SerialDates
  Market <- SerialMarket
  Plans <- SerialPlans
  Runs <- SerialRuns
  Checksums <- SerialChecksums
  OrderIds <- SerialIds
INVARIANTS
  NavIsClosingBalance
  NavSeriesSound
  NavRetryAgrees
  OldestLotFirst
PROPERTIES
  DaysInOrder
  OpenedDaysSettle
