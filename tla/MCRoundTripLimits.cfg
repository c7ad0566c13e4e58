SPECIFICATION Spec
CONSTANTS
  Radix = 2
  Utf8 <- MCUtf8
  Events <- MCEvents
  LINEAR_SCAN_LIMIT = 1
  MaxCalls = 4
  MaxFaults = 1
INVARIANTS
  TypeOK
  FindsEveryName
  RoundTrip
  PoolsAgree
  CutOutputIsPrefix
CHECK_DEADLOCK FALSE
