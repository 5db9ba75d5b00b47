SPECIFICATION ProtocolFairSpec
CONSTANTS
  Capacity = 3
  Pipelined = 1
INVARIANTS ProtocolInv AnswersUnderstood CommandsReadAsMeant
PROPERTIES AskedIsAnswered ImplementsSession
