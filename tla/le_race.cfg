SPECIFICATION Spec
CONSTANTS
  MaxRejects = 1
  LossLimit = 1
  MaxEquity = 1
  MaxDay = 1
  HaltSources = {}
  SavesMayFail = FALSE
  EarlyRequests = TRUE
  BridgeEndpoint = TRUE
INVARIANT StopIsOneWay
