CONSTANTS
  Keys = {1}
  Values = {v1}
  NoValue = NoValue
  EntryLen <- MCEntryLen
  BufferSize = 2
  LargeValues = {}
  Threads = {t1, t2}
  Concurrency = 1
  CacheSize = 1
  MaxFileSize = 3
  SyncStrategy = "interval"
  MergePolicy = "always"
  WindowStart = 0
  WindowEnd = 23
  TriggerFragmentation = 20
  TriggerDeadBytes = 2
  ThresholdFragmentation = 40
  ThresholdDeadBytes = 1
  ThresholdSmallFile = 0
  MaxWrites = 2
  MaxMerges = 1
SPECIFICATION LiveSpec
CHECK_DEADLOCK FALSE
PROPERTIES
  WritesReturn ReadersReturn TasksStop ActiveFileSynced
