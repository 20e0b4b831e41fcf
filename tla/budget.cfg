SPECIFICATION Spec
CONSTANTS
  Tenant = {1, 2}
  MaxRequests = 3
  MaxWork = 3
  Word = 16
  MaxWait = 2
  ClassWait <- NoClassWait
  MinPreferred = 1
  SoloSeal = FALSE
  FairnessEnabled = TRUE
  Weight <- EqualWeight
  MaxOutstanding = 8
  MaxContribution = 2
  MergeEnabled = TRUE
  MaxMerges = 2
  RetryEnabled = TRUE
  MaxAttempts = 2
  Key = {"k1", "k2"}
  Class = {"batch"}
  Offered <- OfferedMixed
  Worker = {1}
  WorkerSizes = {0}
  Calls = {"merge"}
  RetryFrom = {}
  ReportStatus = {"success", "retryable_failure"}
  LocalResults = {}
  RequestBound = 4
  BatchBound = 8
  BootBound = 1
  EpochBound = 1
  ClockBound = 0
  SubmitBound = 1
  Lag = 0
INVARIANTS
  BatchCompatible
  BudgetKept
