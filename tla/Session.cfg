SPECIFICATION FairSpec
CONSTANTS
  StopsEarly = FALSE
  Vanishes = TRUE
  MayLose = TRUE
  MayTimeOut = TRUE
  MaxQueue = 2
  MaxTimers = 2
INVARIANTS
  MessageThreadLives
  OneStatusLoop
  RunningMeansLoop
PROPERTIES
  ConnectIsServed
  SessionEnds
