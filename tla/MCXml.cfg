SPECIFICATION XmlSpec
CONSTANTS
  Radix = 2
  Utf8 <- MCUtf8
  Events <- MCWritten
  LINEAR_SCAN_LIMIT = 1
  MaxCalls = 0
  MaxFaults = 0
  XmlEvents <- MCXmlEvents
  MaxXml = 4
INVARIANTS
  ContentKept
  TagsMatch
  FailsAsDocumented
CHECK_DEADLOCK FALSE
