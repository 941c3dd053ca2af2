SPECIFICATION Spec
CONSTANTS
  StopsEarly = TRUE
  Vanishes = FALSE
  MayLose = FALSE
  MayTimeOut = FALSE
  MaxQueue = 2
  MaxTimers = 2
INVARIANT AssertionsHold
