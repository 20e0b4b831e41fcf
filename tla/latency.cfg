SPECIFICATION FairSpec
CONSTANTS
  Tenant = {1}
  MaxRequests = 3
  MaxWork = 0
  Word = 16
  MaxWait = 2
  ClassWait <- NoClassWait
  MinPreferred = 3
  SoloSeal = FALSE
  FairnessEnabled = TRUE
  Weight <- EqualWeight
  MaxOutstanding = 0
  MaxContribution = 1
  MergeEnabled = FALSE
  MaxMerges = 8
  RetryEnabled = TRUE
  MaxAttempts = 2
  Key = {"k1"}
  Class = {"batch"}
  Offered <- OfferedDeadline
  Worker = {1}
  WorkerSizes = {0}
  Calls = {"seal"}
  RetryFrom = {}
  ReportStatus = {"success", "retryable_failure"}
  LocalResults = {}
  RequestBound = 2
  BatchBound = 6
  BootBound = 1
  EpochBound = 1
  ClockBound = 3
  SubmitBound = 1
  Lag = 1
PROPERTIES
  TickMeetsDeadlines
  NeverWaitsForever
  QueueDrains
