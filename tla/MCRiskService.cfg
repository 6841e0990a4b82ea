\* Rival commands on the two state files while decisions are made and published.
SPECIFICATION Spec
CONSTANTS
  Absent = Absent
  Free = Free
  Orphan = Orphan
  None = None
  Damaged = Damaged
  Instruments = {"i1", "i2", "i3"}
  Industries = {"n1", "n2"}
  One = 8
  PolicyVersion = "p1"
  MaxAge = 1
  MaxSingle = 4
  MaxTotal = 5
  MaxIndustry = 4
  MinCash = 2
  MaxLoss = 2
  MaxDrawdown = 2
  AllowST = FALSE
  RequireApproval = TRUE
  SwitchIds <- MCSwitches
  ApprovalIds = {"a1"}
  Evidence <- MCEvidence
  Writers = {"w1", "w2"}
  Calls <- MCCalls
  e1 = e1
  e2 = e2
  Evaluators = {e1, e2}
  Asked <- MCRequest
  Requests <- MCRequests
  MaxClock = 1
  MaxFaults = 1
  MaxEvaluations = 2
SYMMETRY Sym
INVARIANTS
  TypeOK
  StandingSwitchesHold
  RevokedNeverApproves
  AnswersReplay
  TradableWithinLimits
  AdjustmentIsStable
  OnlyImpossibleRefused
PROPERTIES
  StoresAreAtomic
