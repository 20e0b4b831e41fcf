SPECIFICATION ControlFairSpec
CONSTANTS
  Tenant = {1}
  MaxRequests = 2
  MaxWork = 0
  Word = 16
  MaxWait = 2
  ClassWait <- NoClassWait
  MinPreferred = 1
  SoloSeal = FALSE
  FairnessEnabled = TRUE
  Weight <- EqualWeight
  MaxOutstanding = 0
  MaxContribution = 0
  MergeEnabled = FALSE
  MaxMerges = 8
  RetryEnabled = TRUE
  MaxAttempts = 1
  Key = {"k1"}
  Class = {"batch"}
  Offered <- OfferedOne
  Worker = {1}
  WorkerSizes = {0}
  Calls = {"register", "roll"}
  RetryFrom = {}
  ReportStatus = {"success"}
  LocalResults = {}
  RequestBound = 2
  BatchBound = 3
  BootBound = 2
  EpochBound = 2
  ClockBound = 0
  SubmitBound = 0
  Lag = 0
  ConnBound = 2
INVARIANTS
  ControlInv
  ExecutionAddressed
PROPERTIES
  ImplementsScheduler
  DriverAnswered
  FreshWorkCompletes
CHECK_DEADLOCK FALSE
