CONSTANTS
  Keys = {1, 2}
  Values = {v1, v2}
  NoValue = NoValue
  EntryLen <- MCEntryLen
  BufferSize = 2
  LargeValues = {v2}
  Threads = {t1, t2}
  Concurrency = 1
  CacheSize = 1
  MaxFileSize = 3
  SyncStrategy = "none"
  MergePolicy = "always"
  WindowStart = 0
  WindowEnd = 23
  TriggerFragmentation = 100
  TriggerDeadBytes = 2
  ThresholdFragmentation = 60
  ThresholdDeadBytes = 1
  ThresholdSmallFile = 0
  MaxWrites = 3
  MaxMerges = 2
SPECIFICATION Spec
CHECK_DEADLOCK FALSE
SYMMETRY Symmetry
PROPERTIES RefinesKVStore MergesSettle
INVARIANTS
  KeydirValid CountsExact DeadBytesExact ReadersConserved FreshFileids IndInv
