\* + - : $ * CR LF 1 2 and a byte that is no UTF-8
CONSTANTS
  IntBits = 8
  MaxSafeDigits = 2
  Alphabet = {43, 45, 58, 36, 42, 13, 10, 49, 50, 255}
  MaxBuffer = 7
SPECIFICATION Spec
CHECK_DEADLOCK FALSE
INVARIANTS
  AgreeOnLength IntegersExact
PROPERTIES
  DecidedStays
