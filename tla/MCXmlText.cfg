SPECIFICATION TextSpec
CONSTANTS
  Radix = 3
  DocEvents <- MCEvents
  HalfInt = 8
  HalfLong = 128
  MaxDoc = 3
INVARIANTS
  XmlStable
  ContentSurvives
  NumbersReadBack
CHECK_DEADLOCK FALSE
