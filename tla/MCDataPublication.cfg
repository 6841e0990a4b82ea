\* Synchronizing, building and researching by rival processes, on good and bad data.
SPECIFICATION Spec
CHECK_DEADLOCK FALSE
CONSTANTS
  None = None
  Unstamped = Unstamped
  Dates = {3}
  Payloads <- MCPayloads
  Content <- MCContent
  Restatements <- MCRestatements
  Syncers = {"p1", "p2"}
  MaxSyncs = 2
  MaxRestated = 1
  MaxSyncFaults = 1
  Feeds <- MCFeeds
  AsOfs = {5, 6}
  Captures <- MCCaptures
  Workers = {"w1", "w2"}
  MaxJobs = 3
  MaxPitFaults = 1
  Lags = 2
  MinHistory = 4
  MinUniverse = 3
  TopK = 2
  Account = 1000
  Lot = 10
  Commission = 3
  SellTax = 10
  Slippage = 5
  TestStart = 4
  TestEnd = 6
INVARIANTS
  TypeOK
  ValidSnapshotsAreComplete
  StuckOnlyByFault
  HonestBacktests
PROPERTIES
  PublishedStays
  AnswersAreIntact
