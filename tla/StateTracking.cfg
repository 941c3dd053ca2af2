\* An ENTER, or the answer to it, may get lost.
SPECIFICATION Spec
CONSTANTS
  Records <- MCRecords
  EnterMayFail = TRUE
PROPERTIES
  OperationIsShown
  RefusalPasses
  EndIsShown
  HaltIsHandled
  DisplayCatchesUp
