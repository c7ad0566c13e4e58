SPECIFICATION Spec
CONSTANTS
  Radix = 256
  Elements <- MCElements
  Requests <- MCRequests
  Parses <- MCParses
INVARIANTS
  TypeOK
  NoKeyTwice
  EveryPartShown
  VecTakesEvery
  ScalarsAlike
CHECK_DEADLOCK FALSE
