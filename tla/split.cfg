SPECIFICATION Spec
CONSTANTS
  Tenant = {1}
  MaxRequests = 3
  MaxWork = 0
  Word = 16
  MaxWait = 2
  ClassWait <- NoClassWait
  MinPreferred = 2
  SoloSeal = FALSE
  FairnessEnabled = TRUE
  Weight <- EqualWeight
  MaxOutstanding = 0
  MaxContribution = 0
  MergeEnabled = FALSE
  MaxMerges = 8
  RetryEnabled = TRUE
  MaxAttempts = 1
  Key = {"k1"}
  Class = {"batch"}
  Offered <- OfferedOne
  Worker = {1}
  WorkerSizes = {1, 2}
  Calls = {"split", "register", "seal"}
  RetryFrom = {}
  ReportStatus = {"success"}
  LocalResults = {}
  RequestBound = 3
  BatchBound = 12
  BootBound = 0
  EpochBound = 1
  ClockBound = 0
  SubmitBound = 1
  Lag = 0
INVARIANTS
  OneActiveBatch
  NoRequestLost
  MemberStates
