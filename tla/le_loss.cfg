SPECIFICATION ReadableSpec
CONSTANTS
  MaxRejects = 1
  LossLimit = 1
  MaxEquity = 2
  MaxDay = 2
  HaltSources = {}
  SavesMayFail = TRUE
  EarlyRequests = FALSE
  BridgeEndpoint = TRUE
INVARIANT BaselineCarried
PROPERTY LossStops
