SPECIFICATION StreamFairSpec
CONSTANTS
  Base = 4
  SizeOf <- Sizes
  BufferSize = 11
  Messages <- SmallMessages
  MaxSent = 2
INVARIANTS StreamTypeOK ClosedForCause
PROPERTIES ImplementsChannel EverythingIsRead
CHECK_DEADLOCK FALSE
