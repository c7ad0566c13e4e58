SPECIFICATION Spec
CONSTANTS
  Radix = 256
  Utf8 <- MCUtf8
  Events <- MCEveryEvent
  LINEAR_SCAN_LIMIT = 32
  MaxCalls = 2
  MaxFaults = 0
INVARIANTS
  RoundTrip
CHECK_DEADLOCK FALSE
