CONSTANTS
  Keys = {1, 2, 3}
  Values = {v1}
  NoValue = NoValue
  EntryLen <- MCEntryLen
  BufferSize = 2
  Threads = {t1}
  Concurrency = 1
  CacheSize = 1
  MaxFileSize = 5
  SyncStrategy = "none"
  MergePolicy = "always"
  WindowStart = 0
  WindowEnd = 23
  TriggerFragmentation = 60
  TriggerDeadBytes = 4
  ThresholdFragmentation = 40
  ThresholdDeadBytes = 2
  ThresholdSmallFile = 0
  MaxWrites = 4
  MaxMerges = 1
  MaxOpens = 1
SPECIFICATION RecoverySpec
CHECK_DEADLOCK FALSE
INVARIANT DeletedKeysStayDeleted
