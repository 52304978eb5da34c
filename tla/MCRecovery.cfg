CONSTANTS
  Keys = {1, 2}
  Values = {v1, v2}
  NoValue = NoValue
  EntryLen <- MCEntryLen
  BufferSize = 2
  Threads = {t1}
  Concurrency = 1
  CacheSize = 1
  MaxFileSize = 3
  SyncStrategy = "always"
  MergePolicy = "always"
  WindowStart = 0
  WindowEnd = 23
  TriggerFragmentation = 100
  TriggerDeadBytes = 2
  ThresholdFragmentation = 40
  ThresholdDeadBytes = 1
  ThresholdSmallFile = 0
  MaxWrites = 3
  MaxMerges = 1
  MaxOpens = 2
SPECIFICATION RecoverySpec
CHECK_DEADLOCK FALSE
SYMMETRY Symmetry
PROPERTY RefinesDurableKVStore
INVARIANTS
  RecoveryTypeOK RebuiltKeydirValid RebuiltCountsExact RebuiltDeadBytesExact SyncedUntilMerge
  LiveKeysSurvive RebuiltFreshFileids
