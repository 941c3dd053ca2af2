SPECIFICATION FairSpec
CONSTANTS
  Sizes <- MCSizes
  MaxPiece = 3
  MaxMessages = 3
  MaxQueue = 2
  Capacity = 8
  Preambles <- MCPreambles
  Misread <- MCMisread
  MayLose = TRUE
INVARIANTS
  HandledInOrder
  NothingMissed
  StuckOnlyByLoss
PROPERTIES
  MessagesAreHandled
CHECK_DEADLOCK FALSE
