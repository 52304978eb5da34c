CONSTANTS
  Keys = {1, 2}
  Values = {v1, v2}
  NoValue = NoValue
  EntryLen <- MCEntryLen
  MaxFileSize = 3
  TriggerDeadBytes = 1
  ThresholdDeadBytes = 1
  FaultPoints = {"write", "rotate", "begin", "copy", "drop", "remove", "finish"}
  MaxWrites = 5
  MaxMerges = 2
  MaxFaults = 2
SPECIFICATION Spec
CHECK_DEADLOCK FALSE
SYMMETRY Symmetry
INVARIANTS
  LiveCovered SettledKeysKept
