SPECIFICATION StreamSpec
CONSTANTS
  Radix = 256
  Utf8 <- MCUtf8
  Docs <- MCDocs
  INITIAL_BUF = 4
  READ_CHUNK = 3
  MaxCalls = 4
  MaxFaults = 2
INVARIANTS
  TypeOK
  WindowFaithful
  NoFalseEof
  NoLeftovers
  BufferBounded
PROPERTIES
  ImplementsMemory
  ImplementsSource
  CallsReturn
CHECK_DEADLOCK FALSE
