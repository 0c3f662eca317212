SPECIFICATION Spec
CONSTANTS
  d1 = d1
  d2 = d2
  h1 = h1
  h2 = h2
  NoDevice = NoDevice
  Devices <- MCOneDevice
  Handlers <- MCHandlers
  UnicastAttemptCount = 1
  GroupType = "CLASS_C"
  RequestStatus = FALSE
PROPERTIES PublishIsReceived
CHECK_DEADLOCK FALSE
