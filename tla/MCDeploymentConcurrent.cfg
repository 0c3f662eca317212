SPECIFICATION Spec
CONSTANTS
  d1 = d1
  d2 = d2
  h1 = h1
  h2 = h2
  NoDevice = NoDevice
  Devices <- MCDevices
  Handlers <- MCHandlers
  UnicastAttemptCount = 1
  GroupType = "CLASS_C"
  RequestStatus = TRUE
SYMMETRY Symmetry
CONSTRAINT FewFailures
INVARIANTS TypeOK KnowledgeSound PipelineOrder DoneCoversEnrolled RowsFollowSteps
PROPERTIES OnlyLateAnswersMislead
CHECK_DEADLOCK FALSE
