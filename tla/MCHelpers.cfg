SPECIFICATION Spec
CONSTANTS
  Radix = 256
  Streams <- MCStreams
  Calls <- MCCalls
  AsStr <- MCAsStr
  MaxFaults = 1
  MaxCalls <- MCMaxCalls
INVARIANTS
  FindsTheNext
  TakesTheRest
  SameXml
  RepeatedFindMissesNone
PROPERTIES
  CallsReturn
CHECK_DEADLOCK FALSE
