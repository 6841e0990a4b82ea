SPECIFICATION Spec
CONSTANTS
  x = x
  y = y
  Absent = Absent
  Procs = {1, 2}
  MaxCrashes = 1
  Symbols <- MCSymbols
  BpsScale <- MCScale
  CommissionBps = 1
  MinimumCommission = 3
  StampDutyBps = 1
  TransferBps = 0
  SlippageBps = 1
  InitialCash = 26
  SeedLots <- MCSeedLots
  Dates <- RivalDates
  Market <- RivalMarket
  Plans <- RivalPlans
  Runs <- RivalRuns
  Checksums <- RivalChecksums
  OrderIds <- RivalIds
INVARIANTS
  TypeOK
  OnePlanPerDay
  BooksBalance
  NoSameDaySale
PROPERTIES
  SettlesDaily
