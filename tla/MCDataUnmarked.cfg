\* One process synchronizes a payload of each outcome, and nothing fails.
SPECIFICATION Spec
CHECK_DEADLOCK FALSE
CONSTANTS
  None = None
  Unstamped = Unstamped
  Dates = {3}
  Payloads <- FewPayloads
  Content <- FewContent
  Restatements <- MCRestatements
  Syncers = {"p1"}
  MaxSyncs = 2
  MaxRestated = 1
  MaxSyncFaults = 0
  Feeds <- MCFeeds
  AsOfs = {5, 6}
  Captures <- MCCaptures
  Workers = {"w1"}
  MaxJobs = 1
  MaxPitFaults = 0
  Lags = 2
  MinHistory = 4
  MinUniverse = 3
  TopK = 2
  Account = 1000
  Lot = 10
  Commission = 3
  SellTax = 10
  Slippage = 5
  TestStart = 4
  TestEnd = 6
INVARIANTS
  InvalidIsMarked
