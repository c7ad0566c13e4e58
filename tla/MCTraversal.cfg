SPECIFICATION Spec
CONSTANTS
  Radix = 256
  Streams <- MCStreams
  Wanted <- MCWanted
  MaxFaults = 1
  MaxCalls = 2
INVARIANTS
  NextIsTheElement
  AllAreOutermost
  StartTagsKept
PROPERTIES
  CallsReturn
CHECK_DEADLOCK FALSE
