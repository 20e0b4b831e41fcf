SPECIFICATION Spec
CONSTANTS
  Tenant = {1}
  MaxRequests = 2
  MaxWork = 0
  Word = 16
  MaxWait = 2
  ClassWait <- NoClassWait
  MinPreferred = 1
  SoloSeal = FALSE
  FairnessEnabled = TRUE
  Weight <- EqualWeight
  MaxOutstanding = 0
  MaxContribution = 0
  MergeEnabled = TRUE
  MaxMerges = 8
  RetryEnabled = TRUE
  MaxAttempts = 2
  Key = {"k1"}
  Class = {"batch"}
  Offered <- OfferedOne
  Worker = {1}
  WorkerSizes = {0}
  Calls = {"register", "roll"}
  RetryFrom = {}
  ReportStatus = {"success", "retryable_failure"}
  LocalResults = {}
  RequestBound = 2
  BatchBound = 6
  BootBound = 1
  EpochBound = 2
  ClockBound = 0
  SubmitBound = 1
  Lag = 0
INVARIANTS
  TypeOK
  IndexCoherent
  OneActiveBatch
  MemberStates
  BatchFieldCorrect
  LineageKept
  NoOrphanBatch
  GenerationUnique
  ExecutedOnce
  OutstandingCovers
PROPERTIES
  ReportAuthority
  AttemptFinal
  LivesAsSpecified
