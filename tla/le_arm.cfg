SPECIFICATION FairSpec
CONSTANTS
  MaxRejects = 2
  LossLimit = 1
  MaxEquity = 2
  MaxDay = 1
  HaltSources = {"engine", "elsewhere"}
  SavesMayFail = FALSE
  EarlyRequests = FALSE
  BridgeEndpoint = FALSE
INVARIANT TypeOK
INVARIANT StopIsOneWay
INVARIANT OnStateCanResume
INVARIANT HaltedEngineIsOff
INVARIANT RejectStreakStops
INVARIANT EffectorFollows
PROPERTY HaltReachesEngine
PROPERTY ActsAsLatch
