SPECIFICATION Spec
CONSTANTS
  Radix = 256
  Elements <- MCElements
  Requests <- MCStruct
  Parses <- MCParses
INVARIANTS
  StructTakesFirst
CHECK_DEADLOCK FALSE
