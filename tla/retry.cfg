SPECIFICATION Spec
CONSTANTS
  Tenant = {1}
  MaxRequests = 2
  MaxWork = 3
  Word = 16
  MaxWait = 2
  ClassWait <- NoClassWait
  MinPreferred = 1
  SoloSeal = FALSE
  FairnessEnabled = TRUE
  Weight <- EqualWeight
  MaxOutstanding = 0
  MaxContribution = 0
  MergeEnabled = TRUE
  MaxMerges = 8
  RetryEnabled = TRUE
  MaxAttempts = 3
  Key = {"k1"}
  Class = {"batch"}
  Offered <- OfferedRetry
  Worker = {1}
  WorkerSizes = {0}
  Calls = {"register", "run", "expire"}
  RetryFrom = {"failed", "cancelled", "expired", "dispatched"}
  ReportStatus = {"success", "retryable_failure", "non_retryable_failure", "cancelled", "expired", "stale", "deferred"}
  LocalResults = {"ok", "failed"}
  RequestBound = 1
  BatchBound = 8
  BootBound = 0
  EpochBound = 1
  ClockBound = 2
  SubmitBound = 2
  Lag = 0
INVARIANTS
  AttemptInv
  AttemptsBounded
