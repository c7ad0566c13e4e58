SPECIFICATION StreamSpec
CONSTANTS
  Radix = 256
  Utf8 <- MCUtf8
  Docs <- MCHeaderOnly
  INITIAL_BUF = 4096
  READ_CHUNK = 4096
  MaxCalls = 1
  MaxFaults = 0
INVARIANTS
  GrowsForLargeValues
CHECK_DEADLOCK FALSE
