SPECIFICATION ForetoldSpec
CONSTANTS
  Radix = 256
  Utf8 <- MCUtf8
  Docs <- MCDocs
  MaxCalls = 7
INVARIANTS
  TypeOK
  ErrorsRepeat
  PoolPaidFor
PROPERTIES
  EventsConsume
  PoolKeepsIndices
  ImplementsSource
CHECK_DEADLOCK FALSE
