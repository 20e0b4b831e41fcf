SPECIFICATION RecoveryFairSpec
CONSTANTS
  Tenant = {1}
  MaxRequests = 3
  MaxWork = 0
  Word = 16
  MaxWait = 2
  ClassWait <- NoClassWait
  MinPreferred = 3
  SoloSeal = FALSE
  FairnessEnabled = TRUE
  Weight <- EqualWeight
  MaxOutstanding = 0
  MaxContribution = 0
  MergeEnabled = TRUE
  MaxMerges = 8
  RetryEnabled = TRUE
  MaxAttempts = 1
  Key = {"k1"}
  Class = {"batch"}
  Offered <- OfferedOne
  Worker = {1}
  WorkerSizes = {0}
  Calls = {"register"}
  RetryFrom = {}
  ReportStatus = {"success"}
  LocalResults = {}
  RequestBound = 2
  BatchBound = 3
  BootBound = 0
  EpochBound = 1
  ClockBound = 2
  SubmitBound = 0
  Lag = 0
  RestartBound = 1
INVARIANTS
  OwnFileAccepted
  IndexCoherent
  MemberStates
PROPERTIES
  NeverWaitsForever
