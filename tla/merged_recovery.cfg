SPECIFICATION RecoverySpec
CONSTANTS
  Tenant = {1}
  MaxRequests = 2
  MaxWork = 0
  Word = 16
  MaxWait = 2
  ClassWait <- NoClassWait
  MinPreferred = 1
  SoloSeal = FALSE
  FairnessEnabled = TRUE
  Weight <- EqualWeight
  MaxOutstanding = 0
  MaxContribution = 0
  MergeEnabled = TRUE
  MaxMerges = 8
  RetryEnabled = TRUE
  MaxAttempts = 2
  Key = {"k1"}
  Class = {"batch"}
  Offered <- OfferedOne
  Worker = {1}
  WorkerSizes = {0}
  Calls = {}
  RetryFrom = {}
  ReportStatus = {"success", "retryable_failure"}
  LocalResults = {}
  RequestBound = 2
  BatchBound = 4
  BootBound = 0
  EpochBound = 1
  ClockBound = 0
  SubmitBound = 0
  Lag = 0
  RestartBound = 0
INVARIANTS
  SealedRecoverable
