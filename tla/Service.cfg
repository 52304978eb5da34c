CONSTANTS
  k1 = k1  k2 = k2  v1 = v1  v2 = v2  s1 = s1  s2 = s2
  Sessions = {s1, s2}
  Keys = {k1, k2}
  Values = {v1, v2}
  NoValue = NoValue
  NotText = NotText
  Calls <- MCCalls
  Cancels = {s1}
  MaxRequests = 1
SPECIFICATION LiveSpec
CHECK_DEADLOCK FALSE
PROPERTIES
  RefinesRemoteStore CallsReturn
