SPECIFICATION PanicSpec
CONSTANTS
  MaxRejects = 1
  LossLimit = 1
  MaxEquity = 1
  MaxDay = 1
  HaltSources = {"engine"}
  SavesMayFail = FALSE
  EarlyRequests = FALSE
  BridgeEndpoint = TRUE
PROPERTY HaltTrapsNothing
