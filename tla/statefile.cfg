SPECIFICATION StateFileSpec
CONSTANTS
  Digest <- Checksum
  Runtime <- SomeRuntimes
  MaxStringLen = 2
  MaxRecords = 3
  MaxFileSize = 1111
  MaxExtensions = 2
  MaxAttemptIds = 2
  Histories <- SomeHistories
  CutBound = 1
PROPERTIES
  AtomicReplace
