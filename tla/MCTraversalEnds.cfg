SPECIFICATION Spec
CONSTANTS
  Radix = 256
  Streams <- MCStreams
  Wanted <- MCNext
  MaxFaults = 0
  MaxCalls = 1
INVARIANTS
  NoneIfTheDocumentEnds
CHECK_DEADLOCK FALSE
