CONSTANTS
  Readers = {r1, r2}
  Capacity = 4
  Sizes = {1, 2, 4, 6}
  MaxBytes = 10
SPECIFICATION Spec
CHECK_DEADLOCK FALSE
INVARIANTS
  ReadsInRange IndInv
