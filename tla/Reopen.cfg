CONSTANTS
  Keys = {1, 2}
  Values = {v1}
  NoValue = NoValue
  EntryLen <- MCEntryLen
  BufferSize = 2
  Threads = {t1}
  Concurrency = 1
  CacheSize = 1
  MaxFileSize = 3
  SyncStrategy = "none"
  MergePolicy = "always"
  WindowStart = 0
  WindowEnd = 23
  TriggerFragmentation = 40
  TriggerDeadBytes = 2
  ThresholdFragmentation = 40
  ThresholdDeadBytes = 1
  ThresholdSmallFile = 0
  MaxWrites = 4
  MaxMerges = 1
SPECIFICATION ReopenSpec
CHECK_DEADLOCK FALSE
INVARIANTS ReopenedAlike EntriesKept OpensUnlessEmptied
