SPECIFICATION Spec
CONSTANTS
  d1 = d1
  d2 = d2
  h1 = h1
  h2 = h2
  NoDevice = NoDevice
  Devices <- MCOneDevice
  Handlers <- MCHandlers
  UnicastAttemptCount = 2
  GroupType = "CLASS_B"
  RequestStatus = FALSE
INVARIANTS TypeOK KnowledgeSound PipelineOrder RowsFollowSteps
PROPERTIES RunTerminates ImplementsRollout
CHECK_DEADLOCK FALSE
